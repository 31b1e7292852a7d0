----------------------- MODULE BackgroundJobs_proofs ------------------------
(***************************************************************************)
(* The replay guard, proved for any jobs, slots, deliveries and crashes.   *)
(*                                                                         *)
(* NoReplay is not inductive.  What keeps a second execution out is the    *)
(* claim row, and the row may be pruned; after that nothing may be able to *)
(* claim any more.  GuardInv says so: once an execution has won, either    *)
(* the row is there, or the time of deliveries is over and no execution is *)
(* waiting for its claim.                                                  *)
(***************************************************************************)
EXTENDS BackgroundJobs, TLAPS

Quiet(j) == \A w \in Workers : exec[j][w] # "claiming"
Over(j)  == now > born[j] + DeliverySpan

\* Nothing of j can claim and win any more.
Shut(j) == claim[j] # NoRow \/ (Over(j) /\ Quiet(j))

OneWinner(j) ==
    /\ started[j] <= 1
    /\ \A w \in Workers : exec[j][w] = "won" =>
          started[j] = 0 /\ \A v \in Workers : exec[j][v] = "won" => v = w
    /\ started[j] # 0 => Shut(j)
    /\ \A w \in Workers : exec[j][w] = "won" => Shut(j)

Timely(j) ==
    /\ born[j] <= now
    /\ claim[j] # NoRow => born[j] <= claim[j].at
    /\ \A w \in Workers : exec[j][w] = "claiming" => now <= born[j] + DeliverySpan

Unborn(j) ==
    submit[j] = "idle" =>
        /\ status[j] = "none" /\ started[j] = 0 /\ claim[j] = NoRow
        /\ \A w \in Workers : exec[j][w] = "free"

JobOK(j) == Timely(j) /\ Unborn(j) /\ (mode[j] = "required" => OneWinner(j))

GuardInv == \A j \in Jobs : JobOK(j)

-----------------------------------------------------------------------------
\* Every variable keeps its type for any jobs, slots, requests and bounds.
THEOREM TypeCorrect == Spec => []TypeOK
<1> USE BackgroundJobsAssumption DEF Row, Final, Busy
<1>1. Init => TypeOK
  BY DEF Init, TypeOK
<1>2. TypeOK /\ [Next]_vars => TypeOK'
  <2> SUFFICES ASSUME TypeOK, [Next]_vars PROVE TypeOK'
    OBVIOUS
  <2>1. ASSUME NEW j \in Jobs, Refuse(j) \/ Enqueue(j) \/ ClaimOwner(j) \/ VerifyOwner(j)
                               \/ LateOwner(j) \/ SubmitFails(j) \/ DropSubmit(j) \/ Expire(j)
        PROVE TypeOK'
    <3>1. Claimed(owner, j) \in [Jobs -> Row \cup {NoRow}]
      BY DEF TypeOK, Claimed
    <3>2. Cancelled(j) \in [Jobs -> {"none", "queued", "working"} \cup Final]
      BY DEF TypeOK, Cancelled
    <3>3. CASE Refuse(j)
      BY <3>3 DEF TypeOK, Refuse, rowVars
    <3>4. CASE Enqueue(j)
      BY <3>4 DEF TypeOK, Enqueue, rowVars
    <3>5. CASE ClaimOwner(j)
      BY <3>5, <3>1 DEF TypeOK, ClaimOwner
    <3>6. CASE VerifyOwner(j)
      BY <3>6, <3>2 DEF TypeOK, VerifyOwner, rowVars
    <3>7. CASE LateOwner(j)
      BY <3>7, <3>1 DEF TypeOK, LateOwner
    <3>8. CASE SubmitFails(j)
      BY <3>8 DEF TypeOK, SubmitFails, rowVars
    <3>9. CASE DropSubmit(j)
      BY <3>9 DEF TypeOK, DropSubmit, rowVars
    <3>10. CASE Expire(j)
      BY <3>10 DEF TypeOK, Expire, jobVars, rowVars
    <3> QED
      BY <2>1, <3>3, <3>4, <3>5, <3>6, <3>7, <3>8, <3>9, <3>10
  <2>2. ASSUME NEW j \in Jobs, NEW w \in Workers,
               Deliver(j, w) \/ ClaimExecution(j, w) \/ Start(j, w) \/ Handled(j, w)
               \/ LateClaim(j, w) \/ ClaimFails(j, w) \/ Interrupt(j, w)
        PROVE TypeOK'
    <3>1. Claimed(claim, j) \in [Jobs -> Row \cup {NoRow}]
      BY DEF TypeOK, Claimed
    <3>2. \A l \in {"free"} \cup Busy :
            [exec EXCEPT ![j][w] = l] \in [Jobs -> [Workers -> {"free"} \cup Busy]]
      BY DEF TypeOK
    <3>3. ASSUME NEW s \in {"completed", "failed"}, End(j, w, s)
          PROVE /\ exec' \in [Jobs -> [Workers -> {"free"} \cup Busy]]
                /\ status' \in [Jobs -> {"none", "queued", "working"} \cup Final]
      BY <3>3, <3>2 DEF TypeOK, End, Put
    <3>4. ASSUME Begin(j, w)
          PROVE /\ exec' \in [Jobs -> [Workers -> {"free"} \cup Busy]]
                /\ started' \in [Jobs -> 0..2]
      BY <3>4, <3>2 DEF TypeOK, Begin, Put
    <3>5. CASE Deliver(j, w)
      <4>1. /\ exec' \in [Jobs -> [Workers -> {"free"} \cup Busy]]
            /\ started' \in [Jobs -> 0..2]
        <5>1. CASE mode[j] = "required"
          <6>1. Put(j, w, "claiming") /\ UNCHANGED started
            BY <3>5, <5>1 DEF Deliver
          <6> QED
            BY <6>1, <3>2 DEF TypeOK, Put
        <5>2. CASE mode[j] # "required"
          <6>1. Begin(j, w)
            BY <3>5, <5>2 DEF Deliver
          <6> QED
            BY <6>1, <3>4
        <5> QED
          BY <5>1, <5>2
      <4>2. status' \in [Jobs -> {"none", "queued", "working"} \cup Final]
        BY <3>5 DEF TypeOK, Deliver
      <4> QED
        BY <3>5, <4>1, <4>2 DEF TypeOK, Deliver, jobVars, rowVars
    <3>6. CASE ClaimExecution(j, w)
      <4>1. /\ exec' \in [Jobs -> [Workers -> {"free"} \cup Busy]]
            /\ status' \in [Jobs -> {"none", "queued", "working"} \cup Final]
        <5>1. CASE claim[j] = NoRow
          <6>1. Put(j, w, "won") /\ UNCHANGED status
            BY <3>6, <5>1 DEF ClaimExecution
          <6> QED
            BY <6>1, <3>2 DEF TypeOK, Put
        <5>2. CASE claim[j] # NoRow
          <6>1. End(j, w, "failed")
            BY <3>6, <5>2 DEF ClaimExecution
          <6> QED
            BY <6>1, <3>3
        <5> QED
          BY <5>1, <5>2
      <4> QED
        BY <3>6, <3>1, <4>1 DEF TypeOK, ClaimExecution, jobVars
    <3>7. CASE Start(j, w)
      BY <3>7, <3>4 DEF TypeOK, Start, jobVars, rowVars
    <3>8. CASE Handled(j, w)
      BY <3>8, <3>3 DEF TypeOK, Handled, jobVars, rowVars
    <3>9. CASE LateClaim(j, w)
      BY <3>9, <3>1, <3>2 DEF TypeOK, LateClaim, Put, jobVars
    <3>10. CASE ClaimFails(j, w)
      BY <3>10, <3>3 DEF TypeOK, ClaimFails, jobVars, rowVars
    <3>11. CASE Interrupt(j, w)
      <4>1. exec' \in [Jobs -> [Workers -> {"free"} \cup Busy]]
        BY <3>11, <3>2 DEF Interrupt, Put
      <4> QED
        BY <3>11, <4>1 DEF TypeOK, Interrupt, jobVars, rowVars
    <3> QED
      BY <2>2, <3>5, <3>6, <3>7, <3>8, <3>9, <3>10, <3>11
  <2>3. ASSUME NEW r \in Requests, Ask(r) \/ RequireOwner(r) \/ Answer(r)
        PROVE TypeOK'
    <3>0. ASSUME ask[r] # NoAsk
          PROVE \A l \in {"answered", "unavailable", "checked"} :
                  [ask EXCEPT ![r].phase = l] \in [Requests -> Asks \cup {NoAsk}]
      <4>1. ask[r] \in Asks
        BY <3>0 DEF TypeOK
      <4>2. \A l \in {"answered", "unavailable", "checked"} : [ask[r] EXCEPT !.phase = l] \in Asks
        BY <4>1 DEF Asks
      <4> QED
        BY <4>2 DEF TypeOK
    <3>1. CASE Ask(r)
      <4>1. ask' \in [Requests -> Asks \cup {NoAsk}]
        BY <3>1 DEF TypeOK, Ask, Asks
      <4> QED
        BY <3>1, <4>1 DEF TypeOK, Ask, jobVars, rowVars
    <3>2. CASE RequireOwner(r)
      <4>1. ask' \in [Requests -> Asks \cup {NoAsk}]
        BY <3>2, <3>0 DEF RequireOwner, Reply
      <4> QED
        BY <3>2, <4>1 DEF TypeOK, RequireOwner, jobVars, rowVars
    <3>3. CASE Answer(r)
      <4>1. ask[r].job \in Jobs
        BY <3>3 DEF TypeOK, Answer, Asks
      <4>2. Cancelled(ask[r].job) \in [Jobs -> {"none", "queued", "working"} \cup Final]
        BY <4>1 DEF TypeOK, Cancelled
      <4>3. ask' \in [Requests -> Asks \cup {NoAsk}]
        BY <3>3, <3>0 DEF Answer, Reply
      <4>4. status' \in [Jobs -> {"none", "queued", "working"} \cup Final]
        BY <3>3, <4>2 DEF Answer, TypeOK
      <4> QED
        BY <3>3, <4>3, <4>4 DEF TypeOK, Answer, jobVars, rowVars
    <3> QED
      BY <2>3, <3>1, <3>2, <3>3
  <2>4. CASE Prune
    BY <2>4 DEF TypeOK, Prune, Kept, jobVars
  <2>5. CASE Tick
    BY <2>5 DEF TypeOK, Tick, jobVars, rowVars
  <2>6. CASE Crash
    <3>1. ask' \in [Requests -> Asks \cup {NoAsk}]
      <4>1. ASSUME NEW r \in Requests, ask[r] # NoAsk
            PROVE [ask[r] EXCEPT !.phase = "dead"] \in Asks
        BY <4>1 DEF TypeOK, Asks
      <4> QED
        BY <2>6, <4>1 DEF TypeOK, Crash
    <3>2. status' \in [Jobs -> {"none", "queued", "working"} \cup Final]
      BY <2>6 DEF TypeOK, Crash
    <3>3. submit' \in [Jobs -> {"idle", "refused", "enqueued", "claimed", "accepted",
                                "rejected", "failed", "dropped", "abandoned", "dead"}]
      BY <2>6 DEF TypeOK, Crash
    <3>4. exec' \in [Jobs -> [Workers -> {"free"} \cup Busy]] /\ crashes' \in 0..MaxCrashes
      BY <2>6 DEF TypeOK, Crash
    <3> QED
      BY <2>6, <3>1, <3>2, <3>3, <3>4 DEF TypeOK, Crash, rowVars
  <2>7. CASE UNCHANGED vars
    BY <2>7 DEF TypeOK, vars, jobVars, rowVars
  <2> QED
    BY <2>1, <2>2, <2>3, <2>4, <2>5, <2>6, <2>7 DEF Next, SubmitStep, ExecStep
<1> QED
  BY <1>1, <1>2, PTL DEF Spec

-----------------------------------------------------------------------------
\* What a step must not touch for JobOK(k) to hold after it as before it.
Same(k) ==
    /\ mode'[k] = mode[k] /\ submit'[k] = submit[k] /\ born'[k] = born[k]
    /\ status'[k] = status[k] /\ exec'[k] = exec[k] /\ started'[k] = started[k]
    /\ claim'[k] = claim[k] /\ now' = now

LEMMA SameKeeps ==
    ASSUME NEW k \in Jobs, JobOK(k), Same(k)
    PROVE  JobOK(k)'
  BY DEF JobOK, Same, Timely, Unborn, OneWinner, Shut, Over, Quiet

\* The submission and the backend touch neither executions nor claims.
LEMMA SubmitKeeps ==
    ASSUME TypeOK, NEW k \in Jobs, JobOK(k),
           mode' = mode, born' = born, exec' = exec, started' = started,
           claim' = claim, now' = now,
           submit'[k] = "idle" => submit[k] = "idle" /\ (status[k] = "none" => status'[k] = "none")
    PROVE  JobOK(k)'
<1>1. Timely(k)' /\ Unborn(k)'
  BY DEF JobOK, Timely, Unborn
<1>2. OneWinner(k) => OneWinner(k)'
  BY DEF OneWinner, Shut, Over, Quiet
<1> QED
  BY <1>1, <1>2 DEF JobOK

LEMMA CancelKeepsNone ==
    ASSUME TypeOK, NEW j \in Jobs, NEW k \in Jobs, status[k] = "none"
    PROVE  Cancelled(j)[k] = "none"
  BY DEF TypeOK, Cancelled

-----------------------------------------------------------------------------
\* claim() leaves a row there, the old one if there was one.
LEMMA ClaimMakesRow ==
    ASSUME TypeOK, NEW k \in Jobs, claim' = Claimed(claim, k)
    PROVE  /\ claim'[k] # NoRow
           /\ claim[k] # NoRow => claim'[k] = claim[k]
           /\ claim[k] = NoRow => claim'[k].at = now
<1>1. [by |-> Submitter[k], at |-> now] \in [by : Principals, at : 0..MaxTime]
  BY BackgroundJobsAssumption DEF TypeOK
<1> QED
  BY <1>1, BackgroundJobsAssumption DEF Claimed, TypeOK

\* The steps of one execution, seen from the job they belong to.
LEMMA ExecKeeps ==
    ASSUME TypeOK, NEW k \in Jobs, JobOK(k), NEW w \in Workers,
           Deliver(k, w) \/ ClaimExecution(k, w) \/ Start(k, w) \/ Handled(k, w)
           \/ LateClaim(k, w) \/ ClaimFails(k, w) \/ Interrupt(k, w)
    PROVE  JobOK(k)'
<1> USE BackgroundJobsAssumption, RetentionAssumption
<1>0. /\ born[k] \in Int /\ now \in Int /\ started[k] \in 0..2
      /\ exec[k] \in [Workers -> {"free"} \cup Busy]
      /\ claim[k] # NoRow => claim[k].at \in Int
  BY DEF TypeOK, Row
<1>a. ASSUME NEW l, Put(k, w, l)
      PROVE  exec'[k][w] = l /\ \A v \in Workers \ {w} : exec'[k][v] = exec[k][v]
  BY <1>a DEF Put, TypeOK
<1>b. submit' = submit /\ born' = born /\ mode' = mode /\ now' = now
  BY DEF Deliver, ClaimExecution, Start, Handled, LateClaim, ClaimFails, Interrupt, jobVars
<1>c. submit[k] # "idle"
  BY DEF JobOK, Unborn, Deliver, ClaimExecution, Start, Handled, LateClaim, ClaimFails, Interrupt
<1>d. Unborn(k)'
  BY <1>b, <1>c DEF Unborn
<1>1. CASE Deliver(k, w)
  <2>1. claim' = claim /\ now <= born[k] + DeliverySpan
    BY <1>1 DEF Deliver, rowVars
  <2>2. CASE mode[k] = "required"
    <3>1. Put(k, w, "claiming") /\ started' = started
      BY <1>1, <2>2 DEF Deliver
    <3>2. exec'[k][w] = "claiming" /\ \A v \in Workers \ {w} : exec'[k][v] = exec[k][v]
      BY <3>1, <1>a
    <3>3. Timely(k)'
      BY <1>0, <1>b, <2>1, <3>2 DEF Timely, JobOK
    <3>4. Shut(k) => Shut(k)'
      BY <1>0, <2>1 DEF Shut, Over
    <3>5. OneWinner(k)'
      BY <2>2, <3>1, <3>2, <3>4 DEF OneWinner, JobOK
    <3> QED
      BY <1>d, <3>3, <3>5 DEF JobOK
  <2>3. CASE mode[k] # "required"
    <3>1. Put(k, w, "handling")
      BY <1>1, <2>3 DEF Deliver, Begin
    <3>2. exec'[k][w] = "handling" /\ \A v \in Workers \ {w} : exec'[k][v] = exec[k][v]
      BY <3>1, <1>a
    <3>3. Timely(k)'
      BY <1>0, <1>b, <2>1, <3>2 DEF Timely, JobOK
    <3> QED
      BY <1>b, <1>d, <2>3, <3>3 DEF JobOK
  <2> QED
    BY <2>2, <2>3
<1>2. CASE ClaimExecution(k, w)
  <2>1. started' = started /\ exec[k][w] = "claiming" /\ claim' = Claimed(claim, k)
    BY <1>2 DEF ClaimExecution
  <2>2. /\ claim'[k] # NoRow
        /\ claim[k] # NoRow => claim'[k] = claim[k]
        /\ claim[k] = NoRow => claim'[k].at = now
    BY <2>1, ClaimMakesRow
  <2>3. CASE claim[k] = NoRow
    <3>1. Put(k, w, "won")
      BY <1>2, <2>3 DEF ClaimExecution
    <3>2. exec'[k][w] = "won" /\ \A v \in Workers \ {w} : exec'[k][v] = exec[k][v]
      BY <3>1, <1>a
    <3>3. Timely(k)'
      BY <1>0, <1>b, <2>1, <2>2, <2>3, <3>2 DEF Timely, JobOK
    <3>4. ASSUME OneWinner(k) PROVE OneWinner(k)'
      <4>1. ~Shut(k)
        BY <2>1, <2>3 DEF Shut, Quiet
      <4>2. started[k] = 0 /\ \A v \in Workers : exec[k][v] # "won"
        BY <3>4, <4>1 DEF OneWinner
      <4>3. Shut(k)'
        BY <2>2 DEF Shut
      <4> QED
        BY <2>1, <3>2, <4>2, <4>3 DEF OneWinner
    <3> QED
      BY <1>b, <1>d, <3>3, <3>4 DEF JobOK
  <2>4. CASE claim[k] # NoRow
    <3>1. Put(k, w, "free")
      BY <1>2, <2>4 DEF ClaimExecution, End
    <3>2. exec'[k][w] = "free" /\ \A v \in Workers \ {w} : exec'[k][v] = exec[k][v]
      BY <3>1, <1>a
    <3>3. Timely(k)'
      BY <1>0, <1>b, <2>1, <2>2, <2>4, <3>2 DEF Timely, JobOK
    <3>4. ASSUME OneWinner(k) PROVE OneWinner(k)'
      BY <2>1, <2>2, <3>2, <3>4 DEF OneWinner, Shut
    <3> QED
      BY <1>b, <1>d, <3>3, <3>4 DEF JobOK
  <2> QED
    BY <2>3, <2>4
<1>3. CASE Start(k, w)
  <2>1. Put(k, w, "handling") /\ exec[k][w] = "won" /\ claim' = claim
    BY <1>3 DEF Start, Begin, rowVars
  <2>2. started'[k] = IF started[k] = 0 THEN 1 ELSE 2
    BY <1>3 DEF Start, Begin, TypeOK
  <2>3. exec'[k][w] = "handling" /\ \A v \in Workers \ {w} : exec'[k][v] = exec[k][v]
    BY <2>1, <1>a
  <2>4. Timely(k)'
    BY <1>0, <1>b, <2>1, <2>3 DEF Timely, JobOK
  <2>5. ASSUME OneWinner(k) PROVE OneWinner(k)'
    <3>1. started[k] = 0 /\ Shut(k) /\ \A v \in Workers \ {w} : exec[k][v] # "won"
      BY <2>1, <2>5 DEF OneWinner
    <3>2. Shut(k)'
      BY <1>b, <2>1, <2>3, <3>1 DEF Shut, Over, Quiet
    <3> QED
      BY <2>2, <2>3, <3>1, <3>2 DEF OneWinner
  <2> QED
    BY <1>b, <1>d, <2>4, <2>5 DEF JobOK
<1>4. CASE Handled(k, w) \/ ClaimFails(k, w) \/ Interrupt(k, w)
  <2>1. claim' = claim /\ started' = started
    BY <1>4 DEF Handled, ClaimFails, Interrupt, rowVars
  <2>2. PICK l \in {"free", "abandoned"} : Put(k, w, l)
    BY <1>4 DEF Handled, ClaimFails, Interrupt, End
  <2>3. exec'[k][w] = l /\ \A v \in Workers \ {w} : exec'[k][v] = exec[k][v]
    BY <2>2, <1>a
  <2>4. Timely(k)'
    BY <1>0, <1>b, <2>1, <2>3 DEF Timely, JobOK
  <2>5. Shut(k) => Shut(k)'
    BY <1>b, <2>1, <2>3 DEF Shut, Over, Quiet
  <2>6. OneWinner(k) => OneWinner(k)'
    BY <2>1, <2>3, <2>5 DEF OneWinner
  <2> QED
    BY <1>b, <1>d, <2>4, <2>6 DEF JobOK
<1>5. CASE LateClaim(k, w)
  <2>1. started' = started /\ claim' = Claimed(claim, k) /\ Put(k, w, "free")
    BY <1>5 DEF LateClaim
  <2>2. /\ claim'[k] # NoRow
        /\ claim[k] # NoRow => claim'[k] = claim[k]
        /\ claim[k] = NoRow => claim'[k].at = now
    BY <2>1, ClaimMakesRow
  <2>3. exec'[k][w] = "free" /\ \A v \in Workers \ {w} : exec'[k][v] = exec[k][v]
    BY <2>1, <1>a
  <2>4. Timely(k)'
    BY <1>0, <1>b, <2>2, <2>3 DEF Timely, JobOK
  <2>5. OneWinner(k) => OneWinner(k)'
    BY <2>1, <2>2, <2>3 DEF OneWinner, Shut
  <2> QED
    BY <1>b, <1>d, <2>4, <2>5 DEF JobOK
<1> QED
  BY <1>1, <1>2, <1>3, <1>4, <1>5

\* prune() and the clock: a claim goes only when the deliveries are over.
LEMMA TimeKeeps ==
    ASSUME TypeOK, NEW k \in Jobs, JobOK(k), Prune \/ Tick
    PROVE  JobOK(k)'
<1> USE BackgroundJobsAssumption, RetentionAssumption
<1>0. /\ born[k] \in Int /\ now \in Int /\ started[k] \in 0..2
      /\ claim[k] # NoRow => claim[k].at \in Int
  BY DEF TypeOK, Row
<1>1. CASE Prune
  <2>1. mode' = mode /\ submit' = submit /\ born' = born /\ status' = status /\ exec' = exec
        /\ started' = started /\ now' = now
    BY <1>1 DEF Prune, jobVars
  <2>2. \/ claim'[k] = claim[k]
        \/ claim'[k] = NoRow /\ claim[k] # NoRow /\ claim[k].at < now - MaxAge
    BY <1>1 DEF Prune, Kept, TypeOK
  <2>3. CASE claim'[k] = claim[k]
    BY <2>1, <2>3, SameKeeps DEF Same
  <2>4. CASE claim'[k] = NoRow /\ claim[k] # NoRow /\ claim[k].at < now - MaxAge
    <3>1. born[k] <= claim[k].at
      BY <2>4 DEF JobOK, Timely
    <3>2. Over(k)
      BY <1>0, <2>4, <3>1 DEF Over
    <3>3. Quiet(k)
      BY <1>0, <3>2 DEF JobOK, Timely, Over, Quiet
    <3>4. Shut(k)'
      BY <2>1, <3>2, <3>3 DEF Shut, Over, Quiet
    <3>5. Timely(k)' /\ Unborn(k)'
      BY <2>1, <2>4 DEF JobOK, Timely, Unborn
    <3>6. OneWinner(k) => OneWinner(k)'
      BY <2>1, <3>4 DEF OneWinner
    <3> QED
      BY <2>1, <3>5, <3>6 DEF JobOK
  <2> QED
    BY <2>2, <2>3, <2>4
<1>2. CASE Tick
  <2>1. mode' = mode /\ submit' = submit /\ born' = born /\ status' = status /\ exec' = exec
        /\ started' = started /\ claim' = claim /\ now' = now + 1
    BY <1>2 DEF Tick, jobVars, rowVars
  <2>2. Quiet(k)
    BY <1>2 DEF Tick, Quiet
  <2>3. Timely(k)' /\ Unborn(k)'
    BY <1>0, <2>1, <2>2 DEF JobOK, Timely, Unborn, Quiet
  <2>4. Shut(k) => Shut(k)'
    BY <1>0, <2>1 DEF Shut, Over, Quiet
  <2>5. OneWinner(k) => OneWinner(k)'
    BY <2>1, <2>4 DEF OneWinner
  <2> QED
    BY <2>1, <2>3, <2>5 DEF JobOK
<1> QED
  BY <1>1, <1>2

\* A crash empties the slots and keeps rows and counts.
LEMMA CrashKeeps ==
    ASSUME TypeOK, NEW k \in Jobs, JobOK(k), Crash
    PROVE  JobOK(k)'
<1>1. mode' = mode /\ born' = born /\ started' = started /\ claim' = claim /\ now' = now
  BY DEF Crash, rowVars
<1>2. \A w \in Workers : exec'[k][w] = "free"
  BY DEF Crash
<1>3. submit'[k] = "idle" => submit[k] = "idle"
  BY DEF Crash, TypeOK
<1>4. status[k] = "none" => status'[k] = "none"
  BY DEF Crash, TypeOK
<1>5. Timely(k)' /\ Unborn(k)'
  BY <1>1, <1>2, <1>3, <1>4 DEF JobOK, Timely, Unborn
<1>6. Shut(k) => Shut(k)'
  BY <1>1, <1>2 DEF Shut, Over, Quiet
<1>7. OneWinner(k) => OneWinner(k)'
  BY <1>1, <1>2, <1>6 DEF OneWinner
<1> QED
  BY <1>1, <1>5, <1>7 DEF JobOK

-----------------------------------------------------------------------------
LEMMA GuardInit == Init => GuardInv
<1> SUFFICES ASSUME Init, NEW k \in Jobs PROVE JobOK(k)
  BY DEF GuardInv
<1>1. /\ born[k] = 0 /\ now = 0 /\ status[k] = "none" /\ started[k] = 0 /\ claim[k] = NoRow
      /\ \A w \in Workers : exec[k][w] = "free"
  BY DEF Init
<1>2. Timely(k) /\ Unborn(k)
  BY <1>1 DEF Timely, Unborn
<1>3. OneWinner(k)
  BY <1>1 DEF OneWinner
<1> QED
  BY <1>2, <1>3 DEF JobOK

LEMMA GuardNext == TypeOK /\ GuardInv /\ [Next]_vars => GuardInv'
<1> SUFFICES ASSUME TypeOK, GuardInv, [Next]_vars, NEW k \in Jobs PROVE JobOK(k)'
  BY DEF GuardInv
<1>0. JobOK(k)
  BY DEF GuardInv
<1>1. ASSUME NEW j \in Jobs, Enqueue(j) PROVE JobOK(k)'
  <2>1. /\ mode' = mode /\ exec' = exec /\ started' = started /\ claim' = claim /\ now' = now
        /\ submit[j] = "idle" /\ submit' = [submit EXCEPT ![j] = "enqueued"]
        /\ born' = [born EXCEPT ![j] = now] /\ status' = [status EXCEPT ![j] = "queued"]
    BY <1>1 DEF Enqueue, rowVars
  <2>2. CASE k = j
    <3>1. started[k] = 0 /\ claim[k] = NoRow /\ \A w \in Workers : exec[k][w] = "free"
      BY <1>0, <2>1, <2>2 DEF JobOK, Unborn
    <3>2. submit'[k] = "enqueued" /\ born'[k] = now
      BY <2>1, <2>2 DEF TypeOK
    <3>3. now \in Int
      BY DEF TypeOK
    <3>4. Timely(k)'
      BY <2>1, <3>1, <3>2, <3>3 DEF Timely
    <3>5. Unborn(k)'
      BY <3>2 DEF Unborn
    <3>6. OneWinner(k)'
      BY <2>1, <3>1 DEF OneWinner
    <3> QED
      BY <3>4, <3>5, <3>6 DEF JobOK
  <2>3. CASE k # j
    <3>1. Same(k)
      BY <2>1, <2>3 DEF Same, TypeOK
    <3> QED
      BY <1>0, <3>1, SameKeeps
  <2> QED
    BY <2>2, <2>3
<1>2. ASSUME NEW j \in Jobs, Refuse(j) \/ ClaimOwner(j) \/ VerifyOwner(j) \/ LateOwner(j)
                             \/ SubmitFails(j) \/ DropSubmit(j) \/ Expire(j)
      PROVE JobOK(k)'
  <2>1. mode' = mode /\ born' = born /\ exec' = exec /\ started' = started
        /\ claim' = claim /\ now' = now
    BY <1>2 DEF Refuse, ClaimOwner, VerifyOwner, LateOwner, SubmitFails, DropSubmit, Expire,
                jobVars, rowVars
  <2>2. submit'[k] = "idle" => submit[k] = "idle"
    BY <1>2 DEF Refuse, ClaimOwner, VerifyOwner, LateOwner, SubmitFails, DropSubmit, Expire,
                jobVars, TypeOK
  <2>3. status[k] = "none" => status'[k] = "none"
    <3>1. CASE VerifyOwner(j)
      BY <3>1, CancelKeepsNone DEF VerifyOwner
    <3>2. CASE Expire(j)
      BY <3>2 DEF Expire, TypeOK, Final
    <3>3. CASE Refuse(j) \/ ClaimOwner(j) \/ LateOwner(j) \/ SubmitFails(j) \/ DropSubmit(j)
      BY <3>3 DEF Refuse, ClaimOwner, LateOwner, SubmitFails, DropSubmit
    <3> QED
      BY <1>2, <3>1, <3>2, <3>3
  <2> QED
    BY <1>0, <2>1, <2>2, <2>3, SubmitKeeps
<1>3. ASSUME NEW r \in Requests, Ask(r) \/ RequireOwner(r) \/ Answer(r) PROVE JobOK(k)'
  <2>1. mode' = mode /\ born' = born /\ exec' = exec /\ started' = started
        /\ claim' = claim /\ now' = now /\ submit' = submit
    BY <1>3 DEF Ask, RequireOwner, Answer, jobVars, rowVars
  <2>2. status[k] = "none" => status'[k] = "none"
    <3>1. CASE Answer(r)
      <4>1. ask[r].job \in Jobs
        BY <3>1 DEF Answer, TypeOK, Asks
      <4> QED
        BY <3>1, <4>1, CancelKeepsNone DEF Answer
    <3>2. CASE Ask(r) \/ RequireOwner(r)
      BY <3>2 DEF Ask, RequireOwner
    <3> QED
      BY <1>3, <3>1, <3>2
  <2> QED
    BY <1>0, <2>1, <2>2, SubmitKeeps
<1>4. ASSUME NEW j \in Jobs, NEW w \in Workers,
             Deliver(j, w) \/ ClaimExecution(j, w) \/ Start(j, w) \/ Handled(j, w)
             \/ LateClaim(j, w) \/ ClaimFails(j, w) \/ Interrupt(j, w)
      PROVE JobOK(k)'
  <2>1. CASE k = j
    BY <1>0, <1>4, <2>1, ExecKeeps
  <2>2. CASE k # j
    <3>1. mode' = mode /\ submit' = submit /\ born' = born /\ now' = now
      BY <1>4 DEF Deliver, ClaimExecution, Start, Handled, LateClaim, ClaimFails, Interrupt, jobVars
    <3>2. exec'[k] = exec[k]
      BY <1>4, <2>2 DEF Deliver, ClaimExecution, Start, Handled, LateClaim, ClaimFails, Interrupt,
                        Begin, End, Put, TypeOK
    <3>3. status'[k] = status[k]
      BY <1>4, <2>2 DEF Deliver, ClaimExecution, Start, Handled, LateClaim, ClaimFails, Interrupt,
                        End, TypeOK
    <3>4. started'[k] = started[k]
      BY <1>4, <2>2 DEF Deliver, ClaimExecution, Start, Handled, LateClaim, ClaimFails, Interrupt,
                        Begin, TypeOK
    <3>5. claim'[k] = claim[k]
      BY <1>4, <2>2 DEF Deliver, ClaimExecution, Start, Handled, LateClaim, ClaimFails, Interrupt,
                        Claimed, TypeOK, rowVars
    <3> QED
      BY <1>0, <3>1, <3>2, <3>3, <3>4, <3>5, SameKeeps DEF Same
  <2> QED
    BY <2>1, <2>2
<1>5. CASE UNCHANGED vars
  BY <1>0, <1>5, SameKeeps DEF Same, vars, jobVars, rowVars
<1> QED
  BY <1>0, <1>1, <1>2, <1>3, <1>4, <1>5, TimeKeeps, CrashKeeps DEF Next, SubmitStep, ExecStep

\* However often the queue delivers a required job, and whatever crashes, its
\* handler begins at most once.
THEOREM AtMostOneExecution == Spec => []NoReplay
<1>1. GuardInv => NoReplay
  BY DEF GuardInv, JobOK, OneWinner, NoReplay
<1> QED
  BY <1>1, TypeCorrect, GuardInit, GuardNext, PTL DEF Spec

-----------------------------------------------------------------------------
\* Every owner row is the submitter's, so is every request that was let through.
Ours(row, j) == row # NoRow => row.by = Submitter[j]
Admitted(a)  == a # NoAsk /\ a.phase \in {"checked", "answered"} => a.by = Submitter[a.job]

OwnerInv ==
    /\ \A j \in Jobs : Ours(owner[j], j)
    /\ ~Local => \A r \in Requests : Admitted(ask[r])

LEMMA OwnerNext == TypeOK /\ OwnerInv /\ [Next]_vars => OwnerInv'
<1> SUFFICES ASSUME TypeOK, OwnerInv, [Next]_vars PROVE OwnerInv'
  OBVIOUS
<1>1. ASSUME owner' = owner, ask' = ask PROVE OwnerInv'
  BY <1>1 DEF OwnerInv, Ours, Admitted
<1>2. ASSUME NEW j \in Jobs, ClaimOwner(j) \/ LateOwner(j) PROVE OwnerInv'
  <2>1. owner' = Claimed(owner, j) /\ ask' = ask
    BY <1>2 DEF ClaimOwner, LateOwner
  <2>2. \A k \in Jobs : Ours(owner'[k], k)
    BY <2>1 DEF Claimed, OwnerInv, Ours, TypeOK
  <2> QED
    BY <2>1, <2>2 DEF OwnerInv, Admitted
<1>3. ASSUME NEW r \in Requests, Ask(r) PROVE OwnerInv'
  <2>1. owner' = owner
    BY <1>3 DEF Ask, rowVars
  <2>2. ASSUME NEW q \in Requests, Admitted(ask[q]) PROVE Admitted(ask'[q])
    BY <1>3, <2>2 DEF Ask, Admitted, TypeOK
  <2> QED
    BY <2>1, <2>2 DEF OwnerInv, Ours
<1>4. ASSUME NEW r \in Requests, RequireOwner(r) PROVE OwnerInv'
  <2>0. ask[r] \in Asks /\ owner' = owner
    BY <1>4 DEF RequireOwner, TypeOK, rowVars
  <2>1. PICK l \in {"checked", "unavailable"} :
           /\ ask' = [ask EXCEPT ![r].phase = l]
           /\ l = "checked" => Allowed(ask[r].by, ask[r].job)
    BY <1>4 DEF RequireOwner, Reply
  <2>2. /\ ask'[r].by = ask[r].by /\ ask'[r].job = ask[r].job /\ ask'[r].phase = l
        /\ \A q \in Requests \ {r} : ask'[q] = ask[q]
    BY <2>0, <2>1 DEF TypeOK, Asks
  <2>3. ASSUME ~Local PROVE Admitted(ask'[r])
    <3>1. ask[r].job \in Jobs
      BY <2>0 DEF Asks
    <3> QED
      BY <2>1, <2>2, <2>3, <3>1 DEF Allowed, OwnerInv, Ours, Admitted
  <2> QED
    BY <2>0, <2>2, <2>3 DEF OwnerInv, Ours, Admitted
<1>5. ASSUME NEW r \in Requests, Answer(r) PROVE OwnerInv'
  <2>0. ask[r] \in Asks /\ owner' = owner /\ ask[r].phase = "checked" /\ ask[r] # NoAsk
    BY <1>5 DEF Answer, TypeOK, rowVars
  <2>1. PICK l \in {"answered", "unavailable"} : ask' = [ask EXCEPT ![r].phase = l]
    BY <1>5 DEF Answer, Reply
  <2>2. /\ ask'[r].by = ask[r].by /\ ask'[r].job = ask[r].job /\ ask'[r].phase = l
        /\ \A q \in Requests \ {r} : ask'[q] = ask[q]
    BY <2>0, <2>1 DEF TypeOK, Asks
  <2>3. ~Local => Admitted(ask'[r])
    BY <2>0, <2>2 DEF OwnerInv, Admitted
  <2> QED
    BY <2>0, <2>2, <2>3 DEF OwnerInv, Ours, Admitted
<1>6. CASE Prune
  <2>1. \A k \in Jobs : owner'[k] = owner[k] \/ owner'[k] = NoRow
    BY <1>6 DEF Prune, Kept
  <2>2. ask' = ask
    BY <1>6 DEF Prune
  <2> QED
    BY <2>1, <2>2 DEF OwnerInv, Ours, Admitted
<1>7. CASE Crash
  <2>1. \A r \in Requests : ask'[r] = ask[r] \/ (ask[r] # NoAsk /\ ask'[r] = [ask[r] EXCEPT !.phase = "dead"])
    BY <1>7 DEF Crash
  <2>2. \A r \in Requests : Admitted(ask[r]) => Admitted(ask'[r])
    <3> SUFFICES ASSUME NEW r \in Requests, Admitted(ask[r]),
                        ask[r] # NoAsk, ask'[r] = [ask[r] EXCEPT !.phase = "dead"]
                 PROVE  Admitted(ask'[r])
      BY <2>1
    <3>1. ask[r] \in Asks
      BY DEF TypeOK
    <3>2. ask'[r].phase = "dead"
      BY <3>1 DEF Asks
    <3> QED
      BY <3>2 DEF Admitted
  <2>3. owner' = owner
    BY <1>7 DEF Crash, rowVars
  <2> QED
    BY <2>2, <2>3 DEF OwnerInv, Ours
<1> QED
  <2>1. ASSUME NEW j \in Jobs, Refuse(j) \/ Enqueue(j) \/ VerifyOwner(j) \/ SubmitFails(j)
                               \/ DropSubmit(j) \/ Expire(j)
        PROVE OwnerInv'
    BY <2>1, <1>1 DEF Refuse, Enqueue, VerifyOwner, SubmitFails, DropSubmit, Expire, rowVars
  <2>2. ASSUME NEW j \in Jobs, NEW w \in Workers,
               Deliver(j, w) \/ ExecStep(j, w) \/ ClaimFails(j, w) \/ Interrupt(j, w)
        PROVE OwnerInv'
    BY <2>2, <1>1 DEF Deliver, ExecStep, ClaimExecution, Start, Handled, LateClaim, ClaimFails,
                      Interrupt, rowVars
  <2>3. CASE Tick \/ UNCHANGED vars
    BY <2>3, <1>1 DEF Tick, vars, rowVars
  <2> QED
    BY <1>2, <1>3, <1>4, <1>5, <1>6, <1>7, <2>1, <2>2, <2>3 DEF Next, SubmitStep

\* With tokens, whoever is answered about a job or cancels it is its submitter.
THEOREM OnlyOwner == Spec => []OnlyOwnerReaches
<1>1. Init => OwnerInv
  BY DEF Init, OwnerInv, Ours, Admitted
<1>2. OwnerInv => OnlyOwnerReaches
  BY DEF OwnerInv, Admitted, OnlyOwnerReaches
<1> QED
  BY <1>1, <1>2, TypeCorrect, OwnerNext, PTL DEF Spec
=============================================================================

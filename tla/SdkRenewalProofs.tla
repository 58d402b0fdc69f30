-------------------------- MODULE SdkRenewalProofs --------------------------
(***************************************************************************)
(* Proofs about what background renewals leave behind: the mark of one in  *)
(* flight, how often they come and in which order they write, and the      *)
(* flag of one that failed, with any faults of the disk, of the network    *)
(* and of the process.                                                     *)
(***************************************************************************)
EXTENDS SdkRate, SdkProofs, LicenseCheckProofs


-----------------------------------------------------------------------------
(* The mark goes with a renewal, if every thread starts. *)

\* A step that ends no renewal and leaves _renew_in_flight alone.
LEMMA NoneEnded ==
  ASSUME InFlightMeansRunning, UNCHANGED inFlight,
         \A u \in Threads : Renewing(u) => Renewing(u)'
  PROVE  InFlightMeansRunning'
BY DEF InFlightMeansRunning, Renewals, Renewing

\* A renewal thread goes on whatever the answer.
LEMMA RenewalGoesOn ==
  ASSUME Typed, NEW t \in Workers, Network(t)
  PROVE  pc'[t] # "idle"
<1>. t \in Threads /\ pc[t] = "waiting"
  BY NetworkMoves DEF Threads
<1>1. job[t].op = "background"
  BY DEF Typed, Control, ControlOf
<1>2. ASSUME NEW tok, NEW outcome \in {"ok", "invalid", "network", "error"},
             Proceed(t, tok, outcome)
      PROVE  pc'[t] # "idle"
  BY <1>1, <1>2 DEF Proceed, GoTo, OnOk, OnInvalid, OnFailure, Typed, TypeOK
<1>3. CASE Refused(t) \/ Unreachable(t)
  BY <1>2, <1>3 DEF Refused, Unreachable
<1>4. CASE Granted(t)
  <2>1. PICK tok : Proceed(t, tok, "ok") \/ Proceed(t, tok, "error")
    BY <1>4 DEF Granted
  <2>. QED BY <1>2, <2>1
<1>. QED BY <1>3, <1>4 DEF Network

LEMMA NextInFlight ==
  ASSUME StartMayFail = FALSE, Typed, InFlightMeansRunning, [Next]_vars
  PROVE  InFlightMeansRunning'
<1>q. ASSUME NEW t \in Threads, Alone(t), UNCHANGED inFlight, Renewing(t) => Renewing(t)'
      PROVE  InFlightMeansRunning'
  BY <1>q, NoneEnded DEF Alone, Renewing
<1>1. ASSUME NEW t \in Callers, Call(t) PROVE InFlightMeansRunning'
  BY <1>1, CallMoves, <1>q DEF Renewing
<1>2. ASSUME NEW t \in Threads, Network(t) PROVE InFlightMeansRunning'
  <2>1. Renewing(t) => Renewing(t)'
    BY <1>2, NetworkMoves, RenewalGoesOn DEF Renewing
  <2>. QED BY <1>2, <2>1, <1>q, NetworkMoves DEF sdkVars
<1>3. ASSUME NEW t \in Threads, Advance(t) PROVE InFlightMeansRunning'
  <2>. SdkOf[t] \in Sdks /\ ControlOf(t)
    BY SdkAssumption DEF SdkAssumption, Typed, Control
  <2>r. Return(t) /\ t \in Workers => pc'[t] = "finish"
    BY DEF Return, GoTo, Typed, TypeOK
  <2>1. CASE CheckDecide(t)
    <3>1. Alone(t) /\ pc[t] = "loaded" /\ t \notin Workers
      BY <2>1, ReturnMoves, SdkAssumption
      DEF SdkAssumption, CheckDecide, GoTo, Alone, Typed, TypeOK, ControlOf
    <3>. QED BY <2>1, <3>1, <1>q DEF CheckDecide, Renewing, sdkVars
  <2>2. CASE Claim(t)
    <3>1. pc[t] = "due" /\ t \notin Workers
      BY <2>2, SdkAssumption DEF SdkAssumption, Claim, ControlOf
    <3>2. CASE MustWait(t)
      BY <2>2, <3>1, <3>2, ReturnMoves, <1>q DEF Claim, Renewing
    <3>3. CASE ~MustWait(t)
      <4>1. /\ GoTo(t, "starting") /\ UNCHANGED job
            /\ inFlight' = [inFlight EXCEPT ![SdkOf[t]] = TRUE]
        BY <2>2, <3>3 DEF Claim
      <4>2. Alone(t) /\ pc'[t] = "starting"
        BY <4>1, GoToMoves
      <4>3. t \in Renewals(SdkOf[t])'
        BY <4>2 DEF Renewals
      <4>4. \A s \in Sdks \ {SdkOf[t]} : Renewals(s) = Renewals(s)' /\ inFlight'[s] = inFlight[s]
        BY <4>1, <4>2 DEF Renewals, Alone, Typed, TypeOK
      <4>. QED BY <4>3, <4>4 DEF InFlightMeansRunning
    <3>. QED BY <3>2, <3>3
  <2>3. ~StartThreadFails(t)
    BY DEF StartThreadFails
  <2>4. ASSUME NEW w \in Workers, StartThread(t, w) PROVE InFlightMeansRunning'
    <3>. w \in Threads /\ t \notin Workers
      BY <2>4, SdkAssumption DEF SdkAssumption, Threads, StartThread, ControlOf
    <3>1. /\ pc[t] = "starting" /\ pc[w] = "idle" /\ SdkOf[w] = SdkOf[t]
          /\ pc' = [pc EXCEPT ![t] = "idle", ![w] = "waiting"]
          /\ UNCHANGED inFlight
      BY <2>4 DEF StartThread, sdkVars
    <3>2. w \in Renewals(SdkOf[t])'
      BY <3>1 DEF Renewals, Typed, TypeOK
    <3>3. \A s \in Sdks \ {SdkOf[t]} : Renewals(s)' = Renewals(s)
      BY <3>1 DEF Renewals, Typed, TypeOK
    <3>. QED BY <3>1, <3>2, <3>3 DEF InFlightMeansRunning
  <2>5. CASE Guard(t) \/ Save(t) \/ Reset(t) \/ Forget(t) \/ Unlink(t) \/ Settle(t) \/ Flag(t)
    <3>1. /\ UNCHANGED inFlight
          /\ pc[t] \in {"guard", "save", "reset", "forget", "unlink", "settle", "flag"}
          /\ \/ Return(t)
             \/ \E label \in {"save", "forget", "reset", "settle", "unlink", "flag"} :
                  GoTo(t, label) /\ UNCHANGED job
      BY <2>5 DEF Guard, Save, Reset, Forget, Unlink, Settle, Flag, sdkVars
    <3>2. Alone(t) /\ (t \in Workers => pc'[t] # "idle")
      BY <3>1, <2>r, ReturnMoves, GoToMoves
    <3>. QED BY <3>1, <3>2, <1>q DEF Renewing
  <2>6. CASE Finish(t)
    <3>1. /\ inFlight' = [inFlight EXCEPT ![SdkOf[t]] = FALSE]
          /\ Alone(t)
      BY <2>6, GoToMoves DEF Finish
    <3>2. ~inFlight'[SdkOf[t]]
      BY <3>1 DEF Typed, TypeOK
    <3>3. \A s \in Sdks \ {SdkOf[t]} : Renewals(s)' = Renewals(s) /\ inFlight'[s] = inFlight[s]
      BY <3>1 DEF Renewals, Alone, Typed, TypeOK
    <3>. QED BY <3>2, <3>3 DEF InFlightMeansRunning
  <2>. QED BY <1>3, <2>1, <2>2, <2>3, <2>4, <2>5, <2>6 DEF Advance
<1>4. CASE Tick \/ StepBack
  BY <1>4 DEF Tick, StepBack, InFlightMeansRunning, Renewals, sdkVars
<1>5. ASSUME NEW s \in Sdks, Restart(s) PROVE InFlightMeansRunning'
  <2>1. ~inFlight'[s]
    BY <1>5 DEF Restart, Typed, TypeOK
  <2>2. \A r \in Sdks \ {s} : Renewals(r)' = Renewals(r) /\ inFlight'[r] = inFlight[r]
    BY <1>5 DEF Restart, Renewals, Typed, TypeOK
  <2>. QED BY <2>1, <2>2 DEF InFlightMeansRunning
<1>6. CASE UNCHANGED vars
  BY <1>6 DEF vars, InFlightMeansRunning, Renewals, sdkVars
<1>. QED BY <1>1, <1>2, <1>3, <1>4, <1>5, <1>6 DEF Next

\* http.py:420: as long as Thread.start does not raise, _renew_in_flight is set only
\* while a renewal is about to start or running, however it ends and wherever the
\* process dies: background renewal is never switched off for good.
THEOREM InFlightHolds ==
  ASSUME StartMayFail = FALSE
  PROVE  Spec => []InFlightMeansRunning
<1>1. Init => InFlightMeansRunning
  BY DEF Init, InFlightMeansRunning
<1>. QED BY <1>1, InitTyped, NextTyped, NextInFlight, PTL DEF Spec

-----------------------------------------------------------------------------
(* The rate. *)

Attempt == [read : Nat, at : Nat]

\* The n-th attempt after one is n intervals after its reading of the clock, and the
\* last one is where the schedule stands.
InSchedule(a, last) ==
  /\ \A i \in DOMAIN a : a[i].read + (Len(a) - i) * MinInterval <= last
  /\ \A i, j \in DOMAIN a : i < j => a[i].read + (j - i) * MinInterval <= a[j].at

\* What the schedule rests on: the last attempt and the last renew lie in the past, and
\* a check that is due carries a time that lies in the past too.
Schedule ==
  /\ attempts \in [Sdks -> Seq(Attempt)]
  /\ renewed \in [Sdks -> Nat]
  /\ \A s \in Sdks : /\ lastAttempt[s] <= clock
                     /\ renewed[s] <= lastAttempt[s]
                     /\ InSchedule(attempts[s], lastAttempt[s])
  /\ \A t \in Threads : pc[t] = "due" => job[t].stamp <= clock

\* What a step does to the schedule of s: nothing, but for the end of a renewal; a
\* manual renew; the decision of a check; or the end of the process.
LEMMA ScheduleMoves ==
  ASSUME Typed, [Next]_vars, NEW s \in Sdks
  PROVE  \/ lastAttempt'[s] = lastAttempt[s] /\ (inFlight'[s] => inFlight[s])
         \/ lastAttempt'[s] = clock /\ inFlight'[s] = inFlight[s]
         \/ \E t \in Threads : /\ pc[t] = "due"
                               /\ job[t].stamp - lastAttempt[s] >= MinInterval
                               /\ lastAttempt'[s] = job[t].stamp
         \/ lastAttempt'[s] = 0 /\ ~inFlight'[s]
<1>. DEFINE Kept == lastAttempt'[s] = lastAttempt[s] /\ (inFlight'[s] => inFlight[s])
<1>1. ASSUME NEW t \in Callers, Call(t)
      PROVE  Kept \/ (lastAttempt'[s] = clock /\ inFlight'[s] = inFlight[s])
  <2>. SdkOf[t] \in Sdks
    BY SdkAssumption DEF SdkAssumption, Threads
  <2>1. CASE \E a \in Activations : Renew(t, a)
    BY <2>1 DEF Renew, Typed, TypeOK
  <2>2. CASE CheckLoad(t) \/ (\E k \in Keys : Activate(t, k)) \/ (\E a \in Activations : Deactivate(t, a))
    BY <2>2 DEF CheckLoad, Activate, Deactivate, sdkVars
  <2>. QED BY <1>1, <2>1, <2>2 DEF Call
<1>2. ASSUME NEW t \in Threads, Network(t) PROVE Kept
  BY <1>2, NetworkMoves DEF sdkVars
<1>3. ASSUME NEW t \in Threads, Claim(t)
      PROVE  \/ Kept
             \/ /\ pc[t] = "due"
                /\ job[t].stamp - lastAttempt[s] >= MinInterval
                /\ lastAttempt'[s] = job[t].stamp
  <2>. SdkOf[t] \in Sdks /\ job[t].stamp \in Nat /\ MinInterval \in Nat /\ lastAttempt[s] \in Nat
    BY SdkAssumption DEF SdkAssumption, Typed, TypeOK, Jobs
  <2>1. CASE MustWait(t) \/ SdkOf[t] # s
    BY <1>3, <2>1 DEF Claim, Typed, TypeOK
  <2>2. CASE ~MustWait(t) /\ SdkOf[t] = s
    BY <1>3, <2>2 DEF Claim, MustWait, Typed, TypeOK
  <2>. QED BY <2>1, <2>2
<1>4. ASSUME NEW t \in Threads, Advance(t), ~Claim(t) PROVE Kept
  <2>1. CASE Finish(t)
    BY <2>1 DEF Finish, Typed, TypeOK
  <2>2. CASE ~Finish(t)
    BY <1>4, <2>2 DEF Advance, CheckDecide, StartThread, StartThreadFails, Guard, Save,
                      Reset, Forget, Unlink, Settle, Flag, SetFailed, sdkVars
  <2>. QED BY <2>1, <2>2
<1>5. CASE Tick \/ StepBack \/ UNCHANGED vars
  BY <1>5 DEF Tick, StepBack, vars, sdkVars
<1>6. ASSUME NEW r \in Sdks, Restart(r) PROVE Kept \/ (lastAttempt'[s] = 0 /\ ~inFlight'[s])
  BY <1>6 DEF Restart, Typed, TypeOK
<1>. QED BY <1>1, <1>2, <1>3, <1>4, <1>5, <1>6 DEF Next

\* A check that is due has stamped itself with the time it read, and keeps it.
LEMMA StampMoves ==
  ASSUME Typed, [Next]_vars, NEW u \in Threads, pc'[u] = "due"
  PROVE  \/ pc[u] = "due" /\ job'[u] = job[u]
         \/ job'[u].stamp = clock
<1>1. CASE pc'[u] = pc[u] /\ job'[u] = job[u]
  BY <1>1
<1>2. CASE u \in Callers /\ Call(u)
  BY <1>2, CallMoves
<1>3. CASE Network(u)
  BY <1>3, NetworkMoves
<1>4. CASE Advance(u)
  <2>1. CASE CheckDecide(u)
    <3>1. ~Return(u)
      BY ReturnMoves
    <3>. QED BY <2>1, <3>1 DEF CheckDecide, Typed, TypeOK, Jobs
  <2>2. ASSUME NEW w \in Workers, StartThread(u, w) PROVE FALSE
    BY <2>2 DEF StartThread, Typed, TypeOK
  <2>3. CASE \/ Claim(u) \/ StartThreadFails(u) \/ Guard(u) \/ Save(u) \/ Reset(u) \/ Forget(u)
             \/ Unlink(u) \/ Settle(u) \/ Flag(u) \/ Finish(u)
    <3>1. \/ Return(u)
          \/ \E label \in {"starting", "save", "forget", "reset", "settle", "unlink", "flag", "idle"} :
               GoTo(u, label) /\ UNCHANGED job
      BY <2>3 DEF Claim, StartThreadFails, Guard, Save, Reset, Forget, Unlink, Settle, Flag, Finish
    <3>. QED BY <3>1, ReturnMoves, GoToMoves
  <2>. QED BY <1>4, <2>1, <2>2, <2>3 DEF Advance
<1>. QED BY <1>1, <1>2, <1>3, <1>4, Moves

\* Only renew takes a caller from rest to a request for a renewal.
LEMMA RenewStamps ==
  ASSUME Typed, [Next]_vars, NEW t \in Callers, Renews(t)
  PROVE  lastAttempt'[SdkOf[t]] = clock
<1>. t \in Threads /\ t \notin Workers /\ SdkOf[t] \in Sdks
  BY SdkAssumption DEF SdkAssumption, Threads
<1>1. ~Advance(t)
  BY DEF Renews, Advance, CheckDecide, Claim, StartThread, StartThreadFails, Guard, Save, Reset,
         Forget, Unlink, Settle, Flag, Finish
<1>2. ~Network(t)
  BY NetworkMoves DEF Renews
<1>3. Call(t)
  BY <1>1, <1>2, Moves DEF Renews
<1>4. CASE CheckLoad(t)
  BY <1>4 DEF CheckLoad, GoTo, Renews, Typed, TypeOK
<1>5. ASSUME NEW k \in Keys, Activate(t, k) PROVE FALSE
  <2>1. job'[t] = [NoJob EXCEPT !.op = "activate", !.key = k]
    BY <1>5, RequestMoves DEF Activate
  <2>2. job'[t].op = "activate"
    BY <2>1 DEF NoJob
  <2>. QED BY <2>2 DEF Renews
<1>6. ASSUME NEW a \in Activations, Deactivate(t, a) PROVE FALSE
  <2>1. job'[t] = [NoJob EXCEPT !.op = "deactivate", !.aid = a]
    BY <1>6, RequestMoves DEF Deactivate
  <2>2. job'[t].op = "deactivate"
    BY <2>1 DEF NoJob
  <2>. QED BY <2>2 DEF Renews
<1>7. ASSUME NEW a \in Activations, Renew(t, a) PROVE lastAttempt'[SdkOf[t]] = clock
  BY <1>7 DEF Renew, Typed, TypeOK
<1>. QED BY <1>3, <1>4, <1>5, <1>6, <1>7 DEF Call

\* One interval more.
LEMMA OneMore ==
  ASSUME NEW n \in Nat, NEW m \in Nat
  PROVE  n * m \in Nat /\ (n + 1) * m = n * m + m
OBVIOUS

\* The schedule may move on.
LEMMA LaterStill ==
  ASSUME NEW a \in Seq(Attempt), NEW last \in Nat, NEW later \in Nat, last <= later,
         InSchedule(a, last)
  PROVE  InSchedule(a, later)
<1>1. ASSUME NEW i \in DOMAIN a
      PROVE  a[i].read + (Len(a) - i) * MinInterval <= later
  <2>. a[i] \in Attempt /\ i \in 1..Len(a) /\ Len(a) \in Nat
    OBVIOUS
  <2>1. Len(a) - i \in Nat /\ a[i].read \in Nat /\ MinInterval \in Nat
    BY SdkAssumption DEF SdkAssumption, Attempt
  <2>2. (Len(a) - i) * MinInterval \in Nat
    BY <2>1, OneMore
  <2>3. a[i].read + (Len(a) - i) * MinInterval <= last
    BY DEF InSchedule
  <2>. QED BY <2>1, <2>2, <2>3
<1>. QED BY <1>1 DEF InSchedule

LEMMA Outlast ==
  ASSUME NEW r \in Nat, NEW p \in Nat, NEW m \in Nat, NEW last \in Nat, NEW stamp \in Nat,
         r + p <= last, last + m <= stamp
  PROVE  r + (p + m) <= stamp
OBVIOUS

\* A renewal decided on by a reading an interval after the last attempt fits in.
LEMMA OneAttemptMore ==
  ASSUME NEW a \in Seq(Attempt), NEW last \in Nat, NEW stamp \in Nat, NEW now \in Nat,
         last + MinInterval <= stamp, stamp <= now, InSchedule(a, last)
  PROVE  InSchedule(Append(a, [read |-> stamp, at |-> now]), stamp)
<1>. DEFINE b == Append(a, [read |-> stamp, at |-> now])
            n == Len(a) + 1
<1>1. /\ MinInterval \in Nat /\ Len(a) \in Nat
      /\ DOMAIN a = 1..Len(a) /\ DOMAIN b = 1..n /\ Len(b) = n
      /\ b[n] = [read |-> stamp, at |-> now]
      /\ \A i \in DOMAIN a : b[i] = a[i] /\ a[i].read \in Nat /\ a[i].at \in Nat
  <2>1. MinInterval \in Nat
    BY SdkAssumption DEF SdkAssumption
  <2>2. /\ Len(a) \in Nat /\ DOMAIN a = 1..Len(a)
        /\ \A i \in DOMAIN a : a[i] \in Attempt
    OBVIOUS
  <2>3. [read |-> stamp, at |-> now] \in Attempt
    BY DEF Attempt
  <2>4. /\ DOMAIN b = 1..n /\ Len(b) = n /\ b[n] = [read |-> stamp, at |-> now]
        /\ \A i \in DOMAIN a : b[i] = a[i]
    BY <2>2, <2>3
  <2>. QED BY <2>1, <2>2, <2>4 DEF Attempt
<1>. HIDE DEF b
<1>2. ASSUME NEW i \in DOMAIN a
      PROVE  b[i].read + (n - i) * MinInterval <= stamp
  <2>1. i \in Nat /\ i <= Len(a) /\ Len(a) - i \in Nat /\ n - i = (Len(a) - i) + 1
    BY <1>1
  <2>2. /\ (Len(a) - i) * MinInterval \in Nat
        /\ (n - i) * MinInterval = (Len(a) - i) * MinInterval + MinInterval
    BY <1>1, <2>1, OneMore
  <2>3. a[i].read + (Len(a) - i) * MinInterval <= last
    BY DEF InSchedule
  <2>4. MinInterval \in Nat /\ a[i].read \in Nat /\ b[i].read = a[i].read
    BY <1>1
  <2>5. a[i].read + ((Len(a) - i) * MinInterval + MinInterval) <= stamp
    BY <2>2, <2>3, <2>4, Outlast
  <2>. QED BY <2>2, <2>4, <2>5
<1>3. b[n].read + (n - n) * MinInterval <= stamp
  <2>1. n - n = 0 /\ 0 * MinInterval = 0
    BY <1>1
  <2>2. b[n].read = stamp
    BY <1>1
  <2>. QED BY <2>1, <2>2
<1>4. ASSUME NEW i \in DOMAIN b, NEW j \in DOMAIN b, i < j
      PROVE  b[i].read + (j - i) * MinInterval <= b[j].at
  <2>1. i \in DOMAIN a
    BY <1>1, <1>4
  <2>2. CASE j \in DOMAIN a
    BY <1>1, <1>4, <2>1, <2>2 DEF InSchedule
  <2>3. CASE j = n
    <3>1. (n - i) * MinInterval \in Nat
      BY <1>1, <2>1, OneMore
    <3>2. b[i].read \in Nat /\ b[n].at = now
      BY <1>1, <2>1
    <3>3. b[i].read + (n - i) * MinInterval <= stamp
      BY <1>2, <2>1
    <3>4. b[i].read + (n - i) * MinInterval <= now
      BY <3>1, <3>2, <3>3
    <3>. QED BY <2>3, <3>2, <3>4
  <2>. QED BY <1>1, <2>2, <2>3
<1>5. ASSUME NEW i \in DOMAIN b
      PROVE  b[i].read + (Len(b) - i) * MinInterval <= stamp
  BY <1>1, <1>2, <1>3
<1>. QED BY <1>4, <1>5 DEF InSchedule, b

LEMMA NothingInSchedule == ASSUME NEW last PROVE InSchedule(<< >>, last)
BY DEF InSchedule

\* What one step makes of the schedule of one Sdk.
LEMMA NextScheduleOf ==
  ASSUME ClockMayStepBack = FALSE, Typed, Typed', Schedule, [Next]_vars,
         NoteAttempts, NoteRenew, NEW s \in Sdks
  PROVE  /\ attempts'[s] \in Seq(Attempt) /\ renewed'[s] \in Nat
         /\ lastAttempt'[s] <= clock'
         /\ renewed'[s] <= lastAttempt'[s]
         /\ InSchedule(attempts'[s], lastAttempt'[s])
         /\ Decides(s) /\ renewed[s] # 0 => clock - renewed[s] >= MinInterval
<1>. /\ MinInterval \in Nat \ {0}
     /\ clock \in Nat /\ clock' \in Nat /\ clock <= clock'
     /\ lastAttempt[s] \in Nat /\ lastAttempt'[s] \in Nat
  BY OnlyForward, SdkAssumption DEF SdkAssumption, Typed, TypeOK
<1>. DEFINE a    == attempts[s]
            last == lastAttempt[s]
            More == Append(a, [read |-> lastAttempt'[s], at |-> clock])
<1>1. /\ a \in Seq(Attempt) /\ InSchedule(a, last)
      /\ renewed[s] \in Nat /\ renewed[s] <= last /\ last <= clock
  BY DEF Schedule
<1>2. /\ lastAttempt'[s] = 0 => attempts'[s] = << >> /\ renewed'[s] = 0
      /\ Decides(s) => attempts'[s] \in {<< >>, More}
      /\ ~Decides(s) => attempts'[s] \in {<< >>, a}
  BY DEF NoteAttempts, NoteRenew
<1>3. renewed'[s] \in {0, renewed[s], lastAttempt'[s]}
  BY RenewStamps DEF NoteRenew
<1>. DEFINE Good(b) == b \in Seq(Attempt) /\ InSchedule(b, lastAttempt'[s])
<1>4. Good(<< >>)
  BY NothingInSchedule
<1>. HIDE DEF a, last, More
<1>5. CASE lastAttempt'[s] = last /\ (inFlight'[s] => inFlight[s])
  <2>1. attempts'[s] \in {<< >>, a} /\ ~Decides(s)
    BY <1>2, <1>5 DEF Decides
  <2>2. Good(a)
    BY <1>1, <1>5, Zenon
  <2>3. Good(attempts'[s])
    BY <1>4, <2>1, <2>2, Zenon
  <2>4. last \in Nat
    BY DEF last
  <2>. HIDE DEF Good
  <2>5. /\ renewed'[s] \in Nat /\ renewed'[s] <= lastAttempt'[s] /\ lastAttempt'[s] <= clock'
    BY <1>1, <1>3, <1>5, <2>4
  <2>. QED BY <2>1, <2>3, <2>5, Zenon DEF Good
<1>6. CASE lastAttempt'[s] = clock /\ inFlight'[s] = inFlight[s]
  <2>1. attempts'[s] \in {<< >>, a} /\ ~Decides(s)
    BY <1>2, <1>6 DEF Decides
  <2>2. Good(a)
    BY <1>1, <1>6, LaterStill DEF last
  <2>3. Good(attempts'[s])
    BY <1>4, <2>1, <2>2, Zenon
  <2>4. last \in Nat
    BY DEF last
  <2>. HIDE DEF Good
  <2>5. /\ renewed'[s] \in Nat /\ renewed'[s] <= lastAttempt'[s] /\ lastAttempt'[s] <= clock'
    BY <1>1, <1>3, <1>6, <2>4
  <2>. QED BY <2>1, <2>3, <2>5, Zenon DEF Good
<1>7. ASSUME NEW t \in Threads, pc[t] = "due", job[t].stamp - lastAttempt[s] >= MinInterval,
             lastAttempt'[s] = job[t].stamp
      PROVE  /\ attempts'[s] \in Seq(Attempt) /\ renewed'[s] \in Nat
             /\ lastAttempt'[s] <= clock'
             /\ renewed'[s] <= lastAttempt'[s]
             /\ InSchedule(attempts'[s], lastAttempt'[s])
             /\ Decides(s) /\ renewed[s] # 0 => clock - renewed[s] >= MinInterval
  <2>1. job[t].stamp \in Nat /\ job[t].stamp <= clock
    BY <1>7 DEF Schedule, Typed, TypeOK, Jobs
  <2>2. /\ last \in Nat /\ last + MinInterval <= lastAttempt'[s]
        /\ last <= lastAttempt'[s] /\ lastAttempt'[s] <= clock
    BY <1>7, <2>1 DEF last
  <2>3. Good(a)
    BY <1>1, <2>2, LaterStill
  <2>4. Good(More)
    <3>1. [read |-> lastAttempt'[s], at |-> clock] \in Attempt
      BY DEF Attempt
    <3>2. InSchedule(More, lastAttempt'[s])
      BY <1>1, <2>2, OneAttemptMore DEF More
    <3>. QED BY <1>1, <3>1, <3>2 DEF More
  <2>5. attempts'[s] \in {<< >>, a, More}
    BY <1>2
  <2>6. Good(attempts'[s])
    BY <1>4, <2>3, <2>4, <2>5, Zenon
  <2>. HIDE DEF Good
  <2>7. /\ renewed'[s] \in Nat /\ renewed'[s] <= lastAttempt'[s] /\ lastAttempt'[s] <= clock'
        /\ clock - renewed[s] >= MinInterval
    BY <1>1, <1>3, <2>2
  <2>. QED BY <2>6, <2>7, Zenon DEF Good
<1>8. CASE lastAttempt'[s] = 0 /\ ~inFlight'[s]
  <2>1. ~Decides(s)
    BY <1>8 DEF Decides
  <2>2. attempts'[s] = << >> /\ renewed'[s] = 0
    BY <1>2, <1>8
  <2>3. Good(attempts'[s])
    BY <1>4, <2>2, Zenon
  <2>. QED BY <1>8, <2>1, <2>2, <2>3
<1>. QED BY <1>5, <1>6, <1>7, <1>8, ScheduleMoves DEF last

LEMMA NextSchedule ==
  ASSUME ClockMayStepBack = FALSE, Typed, Typed', Schedule, [Next]_vars,
         NoteAttempts, NoteRenew
  PROVE  /\ Schedule'
         /\ \A s \in Sdks : Decides(s) /\ renewed[s] # 0 => clock - renewed[s] >= MinInterval
<1>1. attempts' \in [Sdks -> Seq(Attempt)] /\ renewed' \in [Sdks -> Nat]
  <2>1. /\ attempts' = [s \in Sdks |-> attempts'[s]]
        /\ renewed' = [s \in Sdks |-> renewed'[s]]
    BY DEF NoteAttempts, NoteRenew
  <2>2. \A s \in Sdks : attempts'[s] \in Seq(Attempt) /\ renewed'[s] \in Nat
    BY NextScheduleOf
  <2>. QED BY <2>1, <2>2
<1>2. ASSUME NEW t \in Threads, pc'[t] = "due"
      PROVE  job'[t].stamp <= clock'
  <2>. job'[t].stamp \in Nat /\ clock \in Nat /\ clock' \in Nat /\ clock <= clock'
    BY OnlyForward DEF Typed, TypeOK, Jobs
  <2>. QED BY <1>2, StampMoves DEF Schedule
<1>. QED BY <1>1, <1>2, NextScheduleOf DEF Schedule

\* A step of the system with its history is one of the system, whose history follows.
LEMMA RateSteps ==
  ASSUME ClockMayStepBack = FALSE, Typed, Schedule, [RateNext]_rateVars
  PROVE  /\ Typed' /\ Schedule'
         /\ [ \A s \in Sdks :
                Decides(s) /\ renewed[s] # 0 => clock - renewed[s] >= MinInterval ]_rateVars
<1>1. [Next]_vars
  BY DEF RateNext, rateVars
<1>2. Typed'
  BY <1>1, NextTyped
<1>3. CASE RateNext
  BY <1>1, <1>2, <1>3, NextSchedule DEF RateNext
<1>4. CASE UNCHANGED rateVars
  BY <1>2, <1>4 DEF Schedule, rateVars, vars, sdkVars
<1>. QED BY <1>3, <1>4

LEMMA InitSchedule == RateInit => Typed /\ Schedule
<1>. SUFFICES ASSUME RateInit PROVE Schedule
  BY InitTyped DEF RateInit
<1>. << >> \in Seq(Attempt)
  OBVIOUS
<1>. QED BY NothingInSchedule, SdkAssumption DEF SdkAssumption, RateInit, Init, Schedule

\* http.py:424-428: as long as the clock is not set back, the n-th background renewal of
\* an Sdk after another is decided on no sooner than n intervals after the reading of
\* the clock behind that one, for every number of threads and every n.
THEOREM RateBounded ==
  ASSUME ClockMayStepBack = FALSE
  PROVE  RateSpec => []RenewalRateBounded
<1>1. Typed /\ Schedule /\ [RateNext]_rateVars => Typed' /\ Schedule'
  BY RateSteps
<1>2. Schedule => RenewalRateBounded
  BY DEF Schedule, InSchedule, RenewalRateBounded
<1>. QED BY InitSchedule, <1>1, <1>2, PTL DEF RateSpec

\* README.md:113: renew counts as an attempt, also for a check that is under way.
THEOREM RenewIsCounted ==
  ASSUME ClockMayStepBack = FALSE
  PROVE  RateSpec => RenewCounts
<1>. DEFINE Counted == \A s \in Sdks : Decides(s) /\ renewed[s] # 0 => clock - renewed[s] >= MinInterval
<1>1. Typed /\ Schedule /\ [RateNext]_rateVars => Typed' /\ Schedule' /\ [Counted]_rateVars
  BY RateSteps
<1>. HIDE DEF Counted
<1>2. RateSpec => [][Counted]_rateVars
  BY InitSchedule, <1>1, PTL DEF RateSpec
<1>. QED BY <1>2 DEF RenewCounts, Counted

-----------------------------------------------------------------------------
(* The order in which the renewals of one Sdk write. *)

\* u is a background renewal with a new token on its way into the file.
Bringing(u) == pc[u] \in {"guard", "save"} /\ job[u].outcome = "ok"

\* What a background renewal stored is not from the future, and what another one is
\* bringing is no older.
InOrder ==
  /\ author = "background" /\ cache # None => cache.iat <= clock
  /\ \A u \in Workers :
       Bringing(u) =>
         /\ job[u].token.iat <= clock
         /\ author = "background" /\ cache # None => cache.iat <= job[u].token.iat

\* A renewal gets its token from a server that signs it now.
LEMMA AnswerIsNew ==
  ASSUME Typed, NEW u \in Workers, Network(u), Bringing(u)'
  PROVE  job'[u].token.iat = clock
<1>. u \in Threads /\ pc[u] = "waiting"
  BY NetworkMoves DEF Threads
<1>0. job[u].op = "background" /\ job[u].aid # None /\ job \in [Threads -> Jobs]
  BY NoneIsNothing DEF Typed, TypeOK, Control, ControlOf
<1>1. ASSUME NEW tok, NEW outcome \in {"ok", "invalid", "network", "error"},
             Proceed(u, tok, outcome)
      PROVE  outcome = "ok" /\ job'[u].token = tok
  <2>1. pc'[u] # "idle" /\ job' = [job EXCEPT ![u] = [job[u] EXCEPT !.token = tok, !.outcome = outcome]]
    BY <1>0, <1>1 DEF Proceed, GoTo, OnOk, OnInvalid, OnFailure, Typed, TypeOK
  <2>. QED BY <1>0, <2>1 DEF Bringing, Jobs
<1>2. CASE Refused(u) \/ Unreachable(u)
  BY <1>1, <1>2 DEF Refused, Unreachable
<1>3. CASE Granted(u)
  <2>1. PICK issued \in MayIssue(u) :
          IF issued = None
          THEN Proceed(u, None, "ok")
          ELSE \E sort \in {"sound"} \cup Forgeries :
                 LET tok == [aid |-> issued, iat |-> clock, sort |-> sort]
                 IN  IF VerifyAndValidate(tok)
                     THEN Proceed(u, tok, "ok")
                     ELSE Proceed(u, None, "error")
    BY <1>3 DEF Granted
  <2>2. issued # None
    BY <1>0, <2>1 DEF MayIssue
  <2>3. PICK sort : \/ Proceed(u, [aid |-> issued, iat |-> clock, sort |-> sort], "ok")
                    \/ Proceed(u, None, "error")
    BY <2>1, <2>2
  <2>. QED BY <1>1, <2>3
<1>. QED BY <1>2, <1>3 DEF Network

\* A step leaves a token on its way as it is.
LEMMA BringingMoves ==
  ASSUME Typed, [Next]_vars, NEW u \in Workers, Bringing(u)'
  PROVE  \/ Bringing(u) /\ job'[u] = job[u]
         \/ job'[u].token.iat = clock /\ cache' = cache
<1>. u \in Threads /\ u \notin Callers
  BY SdkAssumption DEF SdkAssumption, Threads
<1>1. CASE pc'[u] = pc[u] /\ job'[u] = job[u]
  BY <1>1 DEF Bringing
<1>2. CASE Network(u)
  BY <1>2, AnswerIsNew, NetworkMoves
<1>3. CASE Advance(u)
  <2>1. Guard(u)
    <3>1. ASSUME Return(u) PROVE FALSE
      BY <3>1, ReturnMoves DEF Bringing
    <3>2. ASSUME NEW label \in {"starting", "forget", "reset", "settle", "unlink", "flag", "idle"},
                 GoTo(u, label), UNCHANGED job
          PROVE  FALSE
      BY <3>2, GoToMoves DEF Bringing
    <3>3. ~CheckDecide(u) /\ \A w \in Workers : ~StartThread(u, w)
      BY DEF CheckDecide, StartThread, Typed, Control, ControlOf
    <3>4. ~Finish(u)
      BY <3>2 DEF Finish
    <3>. QED BY <1>3, <3>1, <3>2, <3>3, <3>4
         DEF Advance, Claim, StartThreadFails, Save, Reset, Forget, Unlink, Settle, Flag
  <2>2. pc[u] = "guard" /\ (Return(u) \/ UNCHANGED job)
    BY <2>1 DEF Guard
  <2>3. ~Return(u)
    BY ReturnMoves DEF Bringing
  <2>. QED BY <2>2, <2>3 DEF Bringing
<1>. QED BY <1>1, <1>2, <1>3, Moves DEF Bringing

\* One renewal at a time, so whoever is about to write is the only one to bring anything.
LEMMA NobodyElse ==
  ASSUME NEW s, Sdks = {s}, OneRenewalAtATime,
         NEW u \in Workers, NEW w \in Workers, Bringing(u), pc[w] = "save"
  PROVE  u = w
BY SdkAssumption DEF SdkAssumption, Threads, OneRenewalAtATime, Renewals, Bringing

\* If the step that changes the file is one of a renewal thread that saves, the file
\* holds what that thread brought.
LEMMA BringerWrites ==
  ASSUME NEW s, Sdks = {s}, Typed, CacheLockExcludes, [Next]_vars, cache' # cache,
         NEW w \in Workers, pc[w] = "save"
  PROVE  /\ cache' = job[w].token /\ cache' # None /\ Bringing(w)
         /\ pc'[w] = "settle"
<1>. w \in Threads /\ InCriticalSection(w)
  BY DEF Threads, InCriticalSection
<1>1. Save(w)
  BY OneWriter DEF Unlink
<1>2. ControlOf(w) /\ job[w].op = "background"
  BY DEF Typed, Control, ControlOf
<1>3. pc'[w] = "settle"
  BY <1>1, <1>2 DEF Save, GoTo, Typed, TypeOK
<1>. QED BY <1>1, <1>2, <1>3, NoneIsNothing DEF Save, ControlOf, Bringing

LEMMA NextInOrder ==
  ASSUME NEW s, Sdks = {s}, ClockMayStepBack = FALSE,
         Typed, Typed', CacheLockExcludes, OneRenewalAtATime, InOrder,
         [Next]_vars, NoteAuthor \/ UNCHANGED <<vars, author>>
  PROVE  /\ InOrder'
         /\ author = "background" /\ author' = "background" /\ cache # None /\ cache' # None
              => cache'.iat >= cache.iat
<1>. clock \in Nat /\ clock' \in Nat /\ clock <= clock'
  BY OnlyForward DEF Typed, TypeOK
<1>i. /\ cache # None => cache.iat \in Nat
      /\ \A u \in Workers : Bringing(u) => job[u].token.iat \in Nat
  BY DEF Bringing, Threads, Typed, TypeOK, Control, ControlOf, Tokens
<1>1. CASE cache' = cache
  <2>1. author' = author
    BY <1>1 DEF NoteAuthor
  <2>2. ASSUME NEW u \in Workers, Bringing(u)'
        PROVE  /\ job'[u].token.iat <= clock'
               /\ author = "background" /\ cache # None => cache.iat <= job'[u].token.iat
    <3>1. CASE Bringing(u) /\ job'[u] = job[u]
      BY <1>i, <3>1 DEF InOrder
    <3>2. CASE job'[u].token.iat = clock
      BY <1>i, <3>2 DEF InOrder
    <3>. QED BY <2>2, <3>1, <3>2, BringingMoves
  <2>3. author = "background" /\ cache # None => cache.iat <= clock'
    BY <1>i DEF InOrder
  <2>. QED BY <1>1, <1>i, <2>1, <2>2, <2>3 DEF InOrder
<1>2. CASE cache' # cache /\ \E w \in Workers : pc[w] = "save" /\ pc'[w] # "save"
  <2>1. PICK w \in Workers : pc[w] = "save"
    BY <1>2
  <2>2. cache' = job[w].token /\ Bringing(w) /\ pc'[w] = "settle"
    BY <1>2, <2>1, BringerWrites
  <2>3. \A u \in Workers : ~Bringing(u)'
    BY <1>2, <2>1, <2>2, BringingMoves, NobodyElse DEF Bringing
  <2>4. cache'.iat <= clock'
    BY <1>i, <2>2 DEF InOrder
  <2>5. author = "background" /\ cache # None => cache'.iat >= cache.iat
    BY <1>i, <2>2 DEF InOrder
  <2>. QED BY <2>3, <2>4, <2>5 DEF InOrder
<1>3. CASE cache' # cache /\ ~\E w \in Workers : pc[w] = "save" /\ pc'[w] # "save"
  <2>1. author' = "caller"
    BY <1>3 DEF NoteAuthor, vars
  <2>2. ASSUME NEW u \in Workers, Bringing(u)'
        PROVE  job'[u].token.iat <= clock'
    BY <1>3, <1>i, <2>2, BringingMoves DEF InOrder
  <2>. QED BY <2>1, <2>2 DEF InOrder
<1>. QED BY <1>1, <1>2, <1>3

\* http.py:452: with one Sdk on the file and a clock that is not set back, a background
\* renewal never replaces the token of an earlier one by an older one, whatever the
\* callers do in between and wherever the process dies.
THEOREM NewestStays ==
  ASSUME NEW s, Sdks = {s}, ClockMayStepBack = FALSE
  PROVE  RateSpec => NewestKept
<1>. DEFINE NoOlder == author = "background" /\ author' = "background" /\ cache # None /\ cache' # None
                         => cache'.iat >= cache.iat
            IInv == Typed /\ CacheLockExcludes /\ OneRenewalAtATime /\ InOrder
<1>1. RateInit => IInv
  <2>. SUFFICES ASSUME RateInit PROVE InOrder
    BY InitTyped, InitExcludes, InitOneRenewal DEF RateInit
  <2>. QED BY DEF RateInit, Init, InOrder, Bringing, Threads
<1>2. ASSUME IInv, [RateNext]_rateVars PROVE IInv' /\ NoOlder
  <2>1. [Next]_vars /\ (NoteAuthor \/ UNCHANGED <<vars, author>>)
    BY <1>2 DEF RateNext, rateVars
  <2>. QED BY <1>2, <2>1, NextTyped, NextExcludes, NextOneRenewal, NextInOrder
<1>3. IInv /\ [RateNext]_rateVars => [NoOlder]_rateVars
  BY <1>2
<1>4. IInv /\ [RateNext]_rateVars => IInv'
  BY <1>2
<1>. HIDE DEF IInv, NoOlder
<1>5. RateSpec => [][NoOlder]_rateVars
  BY <1>1, <1>3, <1>4, PTL DEF RateSpec
<1>. QED BY <1>5 DEF NewestKept, NoOlder

-----------------------------------------------------------------------------
(* The flag of a renewal that failed. *)

\* What _cache_holds asks of the file, apart from the activation.
Signed(tok, now) == VerifyActivationAt(EntryOf(tok), now, TRUE) = "Ok"

LEMMA StaysSigned ==
  ASSUME NEW tok \in Tokens, NEW n \in Nat, NEW m \in Nat, n <= m, NEW ignoring \in BOOLEAN,
         VerifyActivationAt(EntryOf(tok), n, ignoring) = "Ok"
  PROVE  Signed(tok, m)
<1>. DEFINE e == EntryOf(tok)
<1>1. Timed(e.submaster) /\ Timed(e.project) /\ Timed(e.daily)
  <2>1. tok.iat \in Int /\ tok.iat + ChainLife \in Int /\ tok.iat + 1 \in Int
    BY SdkAssumption DEF SdkAssumption, Tokens
  <2>2. /\ e.submaster.iat = tok.iat /\ e.submaster.nbf = Absent
        /\ e.submaster.exp = tok.iat + ChainLife
        /\ e.project.iat = tok.iat /\ e.project.nbf = Absent
        /\ e.project.exp = tok.iat + ChainLife
        /\ e.daily.iat = tok.iat /\ e.daily.nbf = Absent /\ e.daily.exp = tok.iat + 1
    BY DEF EntryOf
  <2>. QED BY <2>1, <2>2 DEF Timed
<1>. HIDE DEF e
<1>2. VerifyActivationAt(e, n, ignoring) = "Ok"
  BY DEF e
<1>3. VerifyActivationAt(e, m, TRUE) = "Ok"
  <2>1. n \in Int /\ m \in Int
    OBVIOUS
  <2>. QED BY <1>1, <1>2, <2>1, SignedForever, Zenon
<1>. QED BY <1>3 DEF Signed, e

LEMMA HoldsSigned ==
  ASSUME NEW a
  PROVE  CacheHolds(a) <=> cache # None /\ cache.aid = a /\ Signed(cache, clock)
<1>1. (\E entry \in {EntryOf(cache)} : VerifyActivationAt(entry, clock, TRUE) = "Ok")
        <=> VerifyActivationAt(EntryOf(cache), clock, TRUE) = "Ok"
  OBVIOUS
<1>. QED BY <1>1, Zenon DEF CacheHolds, Signed

\* t has a token that verified, and is storing it or has stored it.
Carrying(t) == pc[t] \in {"guard", "save", "settle", "flag"} /\ job[t].outcome = "ok"

\* t has stored a token and is about to correct the flag.
Correcting(t) ==
  \/ pc[t] = "reset"
  \/ /\ pc[t] \in {"settle", "flag"} /\ job[t].op = "renew" /\ job[t].outcome = "ok"
     /\ cache # None /\ cache.aid = job[t].aid

\* Tokens that verified stay signed, so _cache_holds cannot deny a thread that has
\* just stored one; and between the two halves of _clear_cache the flag is down.
FlagTold ==
  /\ \A t \in Threads : Carrying(t) => Signed(job[t].token, clock)
  /\ \A t \in Threads : pc[t] = "flag" => Signed(cache, clock)
  /\ \A t \in Threads : pc[t] = "unlink" => ~renewalFailed[SdkOf[t]]
  /\ \A s \in Sdks : renewalFailed[s] => cache # None /\ Signed(cache, clock)
  /\ FlagConcernsCached

-----------------------------------------------------------------------------
\* Only a token that has just verified is on its way.
LEMMA AnswerVerified ==
  ASSUME Typed, NEW u \in Threads, Network(u), Carrying(u)'
  PROVE  VerifyAndValidate(job'[u].token)
<1>. pc[u] = "waiting"
  BY NetworkMoves
<1>0. /\ job[u] \in Jobs /\ job \in [Threads -> Jobs] /\ pc \in [Threads -> PCs]
      /\ job[u].op \in Requests
  BY DEF Typed, TypeOK, Control, ControlOf
<1>1. ASSUME NEW tok, NEW outcome \in {"ok", "invalid", "network", "error"},
             Proceed(u, tok, outcome)
      PROVE  outcome = "ok" /\ job[u].op # "deactivate" /\ job'[u].token = tok
  <2>. DEFINE next == CASE outcome = "ok"      -> OnOk[job[u].op]
                        [] outcome = "invalid" -> OnInvalid[job[u].op]
                        [] OTHER               -> OnFailure[job[u].op]
  <2>1. /\ pc'[u] = next
        /\ job'[u] = IF next = "idle" THEN NoJob
                     ELSE [job[u] EXCEPT !.token = tok, !.outcome = outcome]
    BY <1>0, <1>1 DEF Proceed, GoTo
  <2>. HIDE DEF next
  <2>2. next # "idle" /\ next # "forget"
    BY <2>1 DEF Carrying
  <2>3. job'[u] = [job[u] EXCEPT !.token = tok, !.outcome = outcome]
    BY <2>1, <2>2
  <2>4. outcome = "ok" /\ job'[u].token = tok
    BY <1>0, <2>3 DEF Carrying, Jobs
  <2>5. next = OnOk[job[u].op]
    BY <2>4 DEF next
  <2>. QED BY <2>2, <2>4, <2>5 DEF OnOk
<1>2. CASE Refused(u) \/ Unreachable(u)
  BY <1>1, <1>2 DEF Refused, Unreachable
<1>3. CASE Granted(u)
  <2>1. PICK issued \in MayIssue(u) :
          IF issued = None
          THEN Proceed(u, None, "ok")
          ELSE \E sort \in {"sound"} \cup Forgeries :
                 LET tok == [aid |-> issued, iat |-> clock, sort |-> sort]
                 IN  IF VerifyAndValidate(tok)
                     THEN Proceed(u, tok, "ok")
                     ELSE Proceed(u, None, "error")
    BY <1>3 DEF Granted
  <2>2. CASE issued = None
    <3>1. job[u].op # "deactivate"
      BY <1>1, <2>1, <2>2
    <3>2. MayIssue(u) \subseteq Activations
      BY <1>0, <3>1 DEF MayIssue, Requests, Typed, Control, ControlOf
    <3>. QED BY <2>2, <3>2, NoneIsNothing
  <2>3. CASE issued # None
    <3>1. PICK sort : LET tok == [aid |-> issued, iat |-> clock, sort |-> sort]
                      IN  IF VerifyAndValidate(tok)
                          THEN Proceed(u, tok, "ok")
                          ELSE Proceed(u, None, "error")
      BY <2>1, <2>3
    <3>. QED BY <1>1, <3>1
  <2>. QED BY <2>2, <2>3
<1>. QED BY <1>2, <1>3 DEF Network

\* A step leaves a token that is on its way, or stored, as it is.
LEMMA CarryingMoves ==
  ASSUME Typed, [Next]_vars, NEW u \in Threads, Carrying(u)'
  PROVE  \/ Carrying(u) /\ job'[u] = job[u]
         \/ VerifyAndValidate(job'[u].token)
<1>. ControlOf(u)
  BY DEF Typed, Control
<1>1. CASE pc'[u] = pc[u] /\ job'[u] = job[u]
  BY <1>1 DEF Carrying
<1>2. CASE u \in Callers /\ Call(u)
  BY <1>2, CallMoves DEF Carrying
<1>3. CASE Network(u)
  BY <1>3, AnswerVerified
<1>4. CASE Advance(u)
  <2>1. ~Return(u)
    BY ReturnMoves DEF Carrying
  <2>2. ASSUME NEW label \in {"starting", "reset", "forget", "unlink", "idle", "due"}, GoTo(u, label)
        PROVE  FALSE
    BY <2>2 DEF GoTo, Carrying, Typed, TypeOK
  <2>3. ~CheckDecide(u) /\ ~Claim(u) /\ ~StartThreadFails(u) /\ ~Reset(u) /\ ~Forget(u) /\ ~Flag(u)
        /\ ~Finish(u)
    BY <2>1, <2>2 DEF CheckDecide, Claim, StartThreadFails, Reset, Forget, Flag, Finish
  <2>4. ASSUME NEW w \in Workers, StartThread(u, w) PROVE FALSE
    BY <2>4 DEF StartThread, Carrying, Typed, TypeOK
  <2>5. CASE Guard(u) \/ Settle(u) \/ Save(u)
    BY <2>1, <2>5 DEF Guard, Settle, Save, Carrying
  <2>6. CASE Unlink(u)
    BY <2>1, <2>6 DEF Unlink, Carrying, ControlOf
  <2>. QED BY <1>4, <2>3, <2>4, <2>5, <2>6 DEF Advance
<1>. QED BY <1>1, <1>2, <1>3, <1>4, Moves DEF Carrying

\* The two halves that are entered under the lock.
LEMMA EntersHalf ==
  ASSUME Typed, [Next]_vars, NEW u \in Threads, pc'[u] \in {"unlink", "flag"}, pc'[u] # pc[u]
  PROVE  \/ pc'[u] = "unlink" /\ Forget(u)
         \/ pc'[u] = "flag" /\ Settle(u) /\ CacheHolds(job[u].aid)
<1>1. Advance(u)
  BY Moves, CallMoves, NetworkMoves
<1>2. ~Return(u)
  BY ReturnMoves
<1>3. ASSUME NEW label \in {"starting", "save", "forget", "reset", "settle", "idle", "due"}, GoTo(u, label)
      PROVE  FALSE
  BY <1>3 DEF GoTo, Typed, TypeOK
<1>4. ~CheckDecide(u) /\ ~Claim(u) /\ ~StartThreadFails(u) /\ ~Guard(u) /\ ~Save(u) /\ ~Reset(u)
      /\ ~Unlink(u) /\ ~Flag(u) /\ ~Finish(u)
  BY <1>2, <1>3 DEF CheckDecide, Claim, StartThreadFails, Guard, Save, Reset, Unlink, Flag, Finish
<1>5. ASSUME NEW w \in Workers, StartThread(u, w) PROVE FALSE
  BY <1>5 DEF StartThread, Typed, TypeOK
<1>6. CASE Forget(u)
  BY <1>6 DEF Forget, GoTo, Typed, TypeOK
<1>7. CASE Settle(u)
  BY <1>2, <1>7 DEF Settle, GoTo, Typed, TypeOK
<1>. QED BY <1>1, <1>4, <1>5, <1>6, <1>7 DEF Advance

\* Who changes the flag.
LEMMA FlagChanged ==
  ASSUME Typed, [Next]_vars
  PROVE  \/ UNCHANGED <<renewalFailed, blamed>>
         \/ \E t \in Threads : Flag(t) \/ Reset(t) \/ Forget(t)
         \/ \E s \in Sdks : Restart(s)
BY CallMoves, NetworkMoves
DEF Next, Advance, vars, sdkVars, history, CheckDecide, Claim, StartThread, StartThreadFails,
    Guard, Save, Unlink, Settle, Finish, Tick, StepBack

\* The flag goes up only where a thread has looked at the file.
LEMMA FlagRaised ==
  ASSUME NEW s, Sdks = {s}, Typed, [Next]_vars, renewalFailed'[s]
  PROVE  \/ /\ renewalFailed[s] /\ UNCHANGED <<renewalFailed, blamed>>
            /\ \A t \in Threads : ~Flag(t) /\ ~Reset(t)
            /\ ~\E r \in Sdks : Restart(r)
         \/ \E t \in Threads : pc[t] = "flag" /\ blamed'[s] = job[t].aid /\ cache' = cache
<1>. /\ \A t \in Threads : SdkOf[t] = s
     /\ renewalFailed \in [Sdks -> BOOLEAN] /\ blamed \in [Sdks -> Activations \cup {None}]
  BY SdkAssumption DEF SdkAssumption, Typed, TypeOK
<1>1. ASSUME NEW t \in Threads, Reset(t) \/ Forget(t) PROVE FALSE
  BY <1>1 DEF Reset, Forget, SetFailed
<1>2. ASSUME NEW r \in Sdks, Restart(r) PROVE FALSE
  BY <1>2 DEF Restart
<1>3. ASSUME NEW t \in Threads, Flag(t)
      PROVE  pc[t] = "flag" /\ blamed'[s] = job[t].aid /\ cache' = cache
  BY <1>3 DEF Flag, SetFailed
<1>. QED BY <1>1, <1>2, <1>3, FlagChanged

\* A thread that is about to correct the flag goes on to do so.
LEMMA CorrectingGoesOn ==
  ASSUME Typed, [Next]_vars, NEW t \in Threads, Correcting(t), cache' = cache,
         cache # None, Signed(cache, clock),
         ~Flag(t), ~Reset(t), ~\E s \in Sdks : Restart(s)
  PROVE  Correcting(t)'
<1>. ControlOf(t)
  BY DEF Typed, Control
<1>1. CASE pc'[t] = pc[t] /\ job'[t] = job[t]
  BY <1>1 DEF Correcting
<1>2. CASE Advance(t)
  <2>1. Settle(t) /\ pc[t] = "settle"
    BY <1>2 DEF Advance, Correcting, CheckDecide, Claim, StartThread, StartThreadFails, Guard,
                Save, Forget, Unlink, Flag, Reset, Settle, Finish
  <2>2. CacheHolds(job[t].aid)
    BY <2>1, HoldsSigned DEF Correcting
  <2>3. GoTo(t, "flag") /\ UNCHANGED job
    BY <2>1, <2>2 DEF Settle
  <2>. QED BY <2>1, <2>3, GoToMoves DEF Correcting
<1>3. ~(t \in Callers /\ Call(t)) /\ ~Network(t)
  BY CallMoves, NetworkMoves DEF Correcting
<1>4. t \notin Workers
  BY SdkAssumption DEF SdkAssumption, Correcting, ControlOf
<1>5. ~(pc'[t] = "idle" /\ \E s \in Sdks : Restart(s))
  OBVIOUS
<1>. QED BY <1>1, <1>2, <1>3, <1>4, <1>5, Moves

-----------------------------------------------------------------------------
LEMMA CarryingSigned ==
  ASSUME Typed, Typed', FlagTold, [Next]_vars,
         clock \in Nat, clock' \in Nat, clock <= clock', NEW u \in Threads, Carrying(u)'
  PROVE  Signed(job'[u].token, clock')
<1>0. job'[u].token \in Tokens
  BY DEF Carrying, Typed, Control, ControlOf
<1>1. CASE Carrying(u) /\ job'[u] = job[u]
  <2>1. Signed(job[u].token, clock)
    BY <1>1 DEF FlagTold
  <2>2. VerifyActivationAt(EntryOf(job'[u].token), clock, TRUE) = "Ok"
    BY <1>1, <2>1 DEF Signed
  <2>. QED BY <1>0, <2>2, StaysSigned
<1>2. CASE VerifyAndValidate(job'[u].token)
  <2>1. VerifyActivationAt(EntryOf(job'[u].token), clock, FALSE) = "Ok"
    BY <1>2 DEF VerifyAndValidate, Accepted, CheckLicenseAt
  <2>. QED BY <1>0, <2>1, StaysSigned
<1>. QED BY <1>1, <1>2, CarryingMoves

LEMMA NextTold ==
  ASSUME NEW s, Sdks = {s}, ClockMayStepBack = FALSE, Typed, Typed',
         CacheLockExcludes, CheckedStaysTrue, FlagTold, [Next]_vars
  PROVE  FlagTold'
<1>. clock \in Nat /\ clock' \in Nat /\ clock <= clock'
  BY OnlyForward DEF Typed, TypeOK
<1>. /\ \A t \in Threads : SdkOf[t] = s
     /\ \A t \in Threads : ControlOf(t) /\ ControlOf(t)'
  BY SdkAssumption DEF SdkAssumption, Typed, Control
<1>1. \A t \in Threads : Carrying(t)' => Signed(job'[t].token, clock')
  BY CarryingSigned
<1>2. ASSUME cache # None, Signed(cache, clock) PROVE Signed(cache, clock')
  <2>1. cache \in Tokens
    BY <1>2 DEF Typed, TypeOK
  <2>. QED BY <1>2, <2>1, StaysSigned DEF Signed
<1>3. ASSUME NEW u \in Threads, pc'[u] = "flag" PROVE Signed(cache', clock')
  <2>1. CASE pc[u] = "flag"
    <3>1. InCriticalSection(u) /\ cache # None /\ Signed(cache, clock)
      BY <2>1 DEF InCriticalSection, CheckedStaysTrue, FlagTold
    <3>2. cache' = cache
      BY <2>1, <3>1, OneWriter DEF Save, Unlink
    <3>. QED BY <1>2, <3>1, <3>2
  <2>2. CASE pc[u] # "flag"
    <3>1. Settle(u) /\ CacheHolds(job[u].aid)
      BY <1>3, <2>2, EntersHalf
    <3>2. cache' = cache
      BY <3>1 DEF Settle
    <3>. QED BY <1>2, <3>1, <3>2, HoldsSigned
  <2>. QED BY <2>1, <2>2
<1>4. ASSUME NEW u \in Threads, pc'[u] = "unlink" PROVE ~renewalFailed'[s]
  <2>1. CASE pc[u] = "unlink"
    <3>1. ~renewalFailed[s] /\ lock[s] = u
      BY <2>1 DEF FlagTold, CacheLockExcludes, InCriticalSection
    <3>2. \A t \in Threads : pc[t] # "flag"
      BY <2>1, <3>1 DEF CacheLockExcludes, InCriticalSection
    <3>. QED BY <3>1, <3>2, FlagRaised
  <2>2. CASE pc[u] # "unlink"
    <3>1. Forget(u)
      BY <1>4, <2>2, EntersHalf
    <3>. QED BY <3>1 DEF Forget, SetFailed, Typed, TypeOK
  <2>. QED BY <2>1, <2>2
<1>5. ASSUME renewalFailed'[s]
      PROVE  /\ cache' # None /\ Signed(cache', clock')
             /\ \/ cache'.aid = blamed'[s]
                \/ \E t \in Callers : Correcting(t)'
  <2>1. ASSUME NEW t \in Threads, pc[t] = "flag", blamed'[s] = job[t].aid, cache' = cache
        PROVE  cache' # None /\ Signed(cache', clock') /\ cache'.aid = blamed'[s]
    <3>1. cache # None /\ cache.aid = job[t].aid /\ Signed(cache, clock)
      BY <2>1 DEF CheckedStaysTrue, FlagTold
    <3>. QED BY <1>2, <2>1, <3>1
  <2>2. ASSUME renewalFailed[s], UNCHANGED <<renewalFailed, blamed>>,
               \A t \in Threads : ~Flag(t) /\ ~Reset(t), ~\E r \in Sdks : Restart(r)
        PROVE  /\ cache' # None /\ Signed(cache', clock')
               /\ \/ cache'.aid = blamed'[s]
                  \/ \E t \in Callers : Correcting(t)'
    <3>0. /\ cache # None /\ Signed(cache, clock)
          /\ \/ cache.aid = blamed[s]
             \/ \E t \in Callers : Correcting(t)
      BY <2>2 DEF FlagTold, FlagConcernsCached, Correcting
    <3>1. CASE cache' = cache
      <4>1. cache' # None /\ Signed(cache', clock')
        BY <1>2, <3>0, <3>1
      <4>2. CASE cache.aid = blamed[s]
        BY <2>2, <3>1, <4>1, <4>2
      <4>3. CASE \E t \in Callers : Correcting(t)
        <5>1. PICK t \in Callers : Correcting(t)
          BY <4>3
        <5>2. t \in Threads
          BY DEF Threads
        <5>3. Correcting(t)'
          BY <2>2, <3>0, <3>1, <5>1, <5>2, CorrectingGoesOn
        <5>. QED BY <4>1, <5>3
      <4>. QED BY <3>0, <4>2, <4>3
    <3>2. CASE cache' # cache
      <4>1. PICK t \in Threads : MayEnter(t) /\ (Save(t) \/ Unlink(t))
        BY <3>2, CacheWriters
      <4>2. Save(t)
        BY <2>2, <4>1 DEF Unlink, FlagTold
      <4>3. /\ pc[t] = "save" /\ Carrying(t) /\ job[t].token \in Tokens
            /\ job[t].op # "activate" => job[t].token.aid = job[t].aid
        BY <4>2 DEF Save, ControlOf, Carrying
      <4>4. cache' = job[t].token /\ cache' # None
        BY <3>2, <4>2, <4>3, NoneIsNothing DEF Save
      <4>5. Signed(cache', clock')
        <5>1. VerifyActivationAt(EntryOf(cache'), clock, TRUE) = "Ok"
          BY <4>3, <4>4 DEF FlagTold, Signed
        <5>. QED BY <4>3, <4>4, <5>1, StaysSigned
      <4>6. /\ pc'[t] = IF job[t].op = "activate" THEN "reset" ELSE "settle"
            /\ job'[t] = job[t]
        BY <4>2, GoToMoves DEF Save
      <4>7. CASE t \in Workers
        <5>1. cache'.aid = job[t].aid /\ cache.aid = job[t].aid
          BY <4>3, <4>4, <4>7 DEF CheckedStaysTrue, ControlOf, Threads
        <5>2. CASE cache.aid = blamed[s]
          BY <2>2, <4>4, <4>5, <5>1, <5>2
        <5>3. CASE \E u \in Callers : Correcting(u)
          <6>1. PICK u \in Callers : Correcting(u)
            BY <5>3
          <6>2. pc'[u] = pc[u] /\ job'[u] = job[u]
            <7>1. u \in Threads \ {t}
              BY <4>7, SdkAssumption DEF SdkAssumption, Threads
            <7>. QED BY <4>2, <7>1, GoToMoves DEF Save, Alone
          <6>3. Correcting(u)'
            BY <4>4, <5>1, <6>1, <6>2 DEF Correcting
          <6>. QED BY <4>4, <4>5, <6>3
        <5>. QED BY <3>0, <5>2, <5>3
      <4>8. CASE t \in Callers
        <5>1. Correcting(t)'
          BY <4>3, <4>4, <4>6, <4>8, SdkAssumption
          DEF SdkAssumption, Correcting, ControlOf, Carrying, Requests
        <5>. QED BY <4>4, <4>5, <4>8, <5>1
      <4>. QED BY <4>7, <4>8 DEF Threads
    <3>. QED BY <3>1, <3>2
  <2>. QED BY <1>5, <2>1, <2>2, FlagRaised
<1>6. FlagConcernsCached'
  BY <1>5 DEF FlagConcernsCached, Correcting, Threads
<1>. QED BY <1>1, <1>3, <1>4, <1>5, <1>6 DEF FlagTold

LEMMA InitTold == Init => FlagTold
BY SdkAssumption DEF SdkAssumption, Init, FlagTold, FlagConcernsCached, Carrying

\* http.py:183-186: with one Sdk on the file and a clock that is not set back, the
\* warning of in_grace_period is about the activation the file holds, whichever threads
\* activate, renew, deactivate and check meanwhile: a flag that a renewal of one
\* activation raised is never left standing over another.
THEOREM FlagHolds ==
  ASSUME NEW s, Sdks = {s}, ClockMayStepBack = FALSE
  PROVE  Spec => []FlagConcernsCached
<1>. DEFINE IInv == Typed /\ CacheLockExcludes /\ CheckedStaysTrue /\ FlagTold
<1>1. Init => IInv
  BY InitTyped, InitExcludes, InitChecked, InitTold
<1>2. IInv /\ [Next]_vars => IInv'
  BY NextTyped, NextExcludes, NextChecked, NextTold
<1>3. IInv => FlagConcernsCached
  BY DEF FlagTold
<1>. HIDE DEF IInv
<1>. QED BY <1>1, <1>2, <1>3, PTL DEF Spec
=============================================================================

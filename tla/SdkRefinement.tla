--------------------------- MODULE SdkRefinement ---------------------------
(***************************************************************************)
(* One Sdk implements HeldLicense: every call of any number of threads     *)
(* takes effect on the cache file in one step, or not at all.              *)
(***************************************************************************)
EXTENDS SdkProofs

NoCall == [op |-> "none", aid |-> None, token |-> None, verdict |-> "none"]

InFlightPCs == {"waiting", "guard", "save", "forget", "unlink"}

\* Pending by cases.
LEMMA PendingCases ==
  ASSUME NEW t \in Threads
  PROVE  /\ pc[t] \notin InFlightPCs => Pending(t) = NoCall
         /\ pc[t] \in InFlightPCs =>
              Pending(t) = [ op |-> job[t].op, aid |-> job[t].aid, token |-> job[t].token,
                             verdict |-> job[t].outcome ]
BY DEF Pending, NoCall, InFlightPCs

LEMMA PendingCasesNext ==
  ASSUME NEW t \in Threads
  PROVE  /\ pc'[t] \notin InFlightPCs => Pending(t)' = NoCall
         /\ pc'[t] \in InFlightPCs =>
              Pending(t)' = [ op |-> job'[t].op, aid |-> job'[t].aid, token |-> job'[t].token,
                              verdict |-> job'[t].outcome ]
BY DEF Pending, NoCall, InFlightPCs

LEMMA AloneKeeps ==
  ASSUME NEW t \in Threads, Alone(t)
  PROVE  \A u \in Threads \ {t} : Pending(u)' = Pending(u)
BY DEF Alone, Pending

-----------------------------------------------------------------------------
(* The four kinds of abstract step *)

LEMMA Loses ==
  ASSUME cache' = cache, \A u \in Threads : Pending(u)' \in {Pending(u), NoCall}
  PROVE  Abstract!Next
BY DEF Abstract!Next, Abstract!Lose, Abstract!Idle, NoCall

LEMMA Asks ==
  ASSUME NEW t \in Threads, cache' = cache,
         \A u \in Threads \ {t} : Pending(u)' = Pending(u),
         Pending(t) = NoCall,
         NEW op \in (IF t \in Workers THEN {"background"} ELSE {"activate", "renew", "deactivate"}),
         NEW a \in Activations \cup {None},
         Pending(t)' = [op |-> op, aid |-> a, token |-> None, verdict |-> "none"]
  PROVE  Abstract!Next
<1>. DEFINE calls == [u \in Threads |-> Pending(u)]
<1>1. calls'[t] = [op |-> op, aid |-> a, token |-> None, verdict |-> "none"] /\ calls[t] = NoCall
  OBVIOUS
<1>2. calls' = [calls EXCEPT ![t] = [NoCall EXCEPT !.op = op, !.aid = a]]
  BY <1>1 DEF NoCall
<1>3. Abstract!Ask(t)
  BY <1>1, <1>2 DEF Abstract!Ask, Abstract!Operations, Abstract!Idle, NoCall
<1>. QED BY <1>3 DEF Abstract!Next

LEMMA Answers ==
  ASSUME NEW t \in Threads, cache' = cache,
         \A u \in Threads \ {t} : Pending(u)' = Pending(u),
         NEW op, NEW a, NEW old, NEW tok, NEW verdict, op # "none",
         Pending(t)  = [op |-> op, aid |-> a, token |-> old, verdict |-> "none"],
         Pending(t)' = [op |-> op, aid |-> a, token |-> tok, verdict |-> verdict],
         \/ verdict = "ok" /\ IF op = "deactivate" THEN tok = None
                              ELSE tok \in Tokens /\ (op # "activate" => tok.aid = a)
         \/ verdict = "invalid" /\ op # "deactivate"
  PROVE  Abstract!Next
<1>. DEFINE calls == [u \in Threads |-> Pending(u)]
            before == [op |-> op, aid |-> a, token |-> old, verdict |-> "none"]
            after  == [op |-> op, aid |-> a, token |-> tok, verdict |-> verdict]
<1>1. /\ before.op = op /\ before.aid = a /\ before.verdict = "none"
      /\ after.token = tok /\ after.verdict = verdict
  OBVIOUS
<1>2. after = [op |-> before.op, aid |-> before.aid, token |-> after.token, verdict |-> after.verdict]
  BY <1>1
<1>3. calls[t] = before /\ calls'[t] = after /\ calls' = [calls EXCEPT ![t] = after]
  OBVIOUS
<1>. HIDE DEF before, after
<1>4. calls' = [calls EXCEPT ![t] = [ op |-> calls[t].op, aid |-> calls[t].aid,
                                      token |-> calls'[t].token, verdict |-> calls'[t].verdict ]]
  BY <1>1, <1>2, <1>3
<1>5. Abstract!Answer(t)
  BY <1>1, <1>3, <1>4 DEF Abstract!Answer
<1>. QED BY <1>5 DEF Abstract!Next

LEMMA Takes ==
  ASSUME NEW t \in Threads,
         \A u \in Threads \ {t} : Pending(u)' = Pending(u),
         Pending(t).verdict # "none", Pending(t)' = NoCall,
         t \in Workers => cache # None /\ cache.aid = Pending(t).aid,
         cache' = IF Pending(t).verdict = "ok" /\ Pending(t).op # "deactivate"
                  THEN Pending(t).token ELSE None
  PROVE  Abstract!Next
<1>. DEFINE calls == [u \in Threads |-> Pending(u)]
<1>1. calls[t] = Pending(t) /\ calls' = [calls EXCEPT ![t] = NoCall]
  OBVIOUS
<1>2. Abstract!TakeEffect(t)
  BY <1>1 DEF Abstract!TakeEffect, Abstract!Idle, NoCall
<1>. QED BY <1>2 DEF Abstract!Next

-----------------------------------------------------------------------------
(* The steps of the Sdk *)

LEMMA CallRefines ==
  ASSUME Typed, NEW t \in Callers, Call(t)
  PROVE  Abstract!Next
<1>. /\ t \in Threads /\ t \notin Workers
     /\ Alone(t) /\ pc[t] = "idle" /\ cache' = cache
  BY CallMoves
<1>1. Pending(t) = NoCall
  BY PendingCases DEF InFlightPCs
<1>2. CASE CheckLoad(t)
  <2>1. pc'[t] = "loaded"
    BY <1>2 DEF CheckLoad, GoTo, Typed, TypeOK
  <2>2. Pending(t)' = NoCall
    BY <2>1, PendingCasesNext DEF InFlightPCs
  <2>. QED BY <1>1, <2>2, AloneKeeps, Loses
<1>3. ASSUME NEW op \in {"activate", "renew", "deactivate"}, NEW a \in Activations \cup {None},
             pc'[t] = "waiting", job'[t].op = op, job'[t].aid = a, job'[t].token = None,
             job'[t].outcome = "none"
      PROVE  Abstract!Next
  <2>1. Pending(t)' = [op |-> op, aid |-> a, token |-> None, verdict |-> "none"]
    BY <1>3, PendingCasesNext DEF InFlightPCs
  <2>. QED BY <1>1, <2>1, AloneKeeps, Asks
<1>4. ASSUME NEW k \in Keys, Activate(t, k) PROVE Abstract!Next
  <2>. DEFINE j == [NoJob EXCEPT !.op = "activate", !.key = k]
  <2>1. j.op = "activate" /\ j.aid = None /\ j.token = None /\ j.outcome = "none"
    BY DEF NoJob
  <2>2. pc'[t] = "waiting" /\ job'[t] = j
    BY <1>4, RequestMoves DEF Activate
  <2>. HIDE DEF j
  <2>. QED BY <1>3, <2>1, <2>2
<1>5. ASSUME NEW a \in Activations, NEW op \in {"renew", "deactivate"},
             Request(t, [NoJob EXCEPT !.op = op, !.aid = a])
      PROVE  Abstract!Next
  <2>. DEFINE j == [NoJob EXCEPT !.op = op, !.aid = a]
  <2>1. j.op = op /\ j.aid = a /\ j.token = None /\ j.outcome = "none"
    BY DEF NoJob
  <2>2. pc'[t] = "waiting" /\ job'[t] = j
    BY <1>5, RequestMoves
  <2>. HIDE DEF j
  <2>. QED BY <1>3, <2>1, <2>2
<1>6. ASSUME NEW a \in Activations, Renew(t, a) \/ Deactivate(t, a) PROVE Abstract!Next
  BY <1>5, <1>6 DEF Renew, Deactivate
<1>. QED BY <1>2, <1>4, <1>6 DEF Call

LEMMA ProceedRefines ==
  ASSUME Typed, NEW t \in Threads, pc[t] = "waiting", cache' = cache,
         NEW tok \in Tokens \cup {None},
         NEW outcome \in {"ok", "invalid", "network", "error"},
         outcome = "ok" =>
           IF job[t].op = "deactivate" THEN tok = None
           ELSE tok \in Tokens /\ (job[t].op # "activate" => tok.aid = job[t].aid),
         Proceed(t, tok, outcome)
  PROVE  Abstract!Next
<1>. DEFINE op == job[t].op
            next == CASE outcome = "ok"      -> OnOk[op]
                      [] outcome = "invalid" -> OnInvalid[op]
                      [] OTHER               -> OnFailure[op]
            j == [job[t] EXCEPT !.token = tok, !.outcome = outcome]
<1>1. job[t] \in Jobs /\ op \in Requests /\ job[t].outcome = "none"
  BY DEF Typed, TypeOK, Control, ControlOf
<1>2. Alone(t)
  BY ProceedMoves
<1>3. pc'[t] = next /\ (next # "idle" => job'[t] = j)
  BY DEF Proceed, GoTo, Typed, TypeOK
<1>4. Pending(t) = [op |-> op, aid |-> job[t].aid, token |-> job[t].token, verdict |-> "none"]
  BY <1>1, PendingCases DEF InFlightPCs
<1>5. CASE next \in {"idle", "settle"}
  <2>1. Pending(t)' = NoCall
    BY <1>3, <1>5, PendingCasesNext DEF InFlightPCs
  <2>. QED BY <1>2, <2>1, AloneKeeps, Loses
<1>6. CASE next \in {"save", "forget", "guard"}
  <2>1. j.op = op /\ j.aid = job[t].aid /\ j.token = tok /\ j.outcome = outcome
    BY <1>1 DEF Jobs
  <2>2. Pending(t)' = [op |-> op, aid |-> job[t].aid, token |-> tok, verdict |-> outcome]
    BY <1>3, <1>6, <2>1, PendingCasesNext DEF InFlightPCs
  <2>3. op # "none" /\ (outcome = "ok" \/ (outcome = "invalid" /\ op # "deactivate"))
    BY <1>1, <1>6 DEF Requests, OnOk, OnInvalid, OnFailure
  <2>4. \A u \in Threads \ {t} : Pending(u)' = Pending(u)
    BY <1>2, AloneKeeps
  <2>. QED BY <1>4, <2>2, <2>3, <2>4, Answers
<1>7. next \in {"idle", "settle", "save", "forget", "guard"}
  BY <1>1 DEF Requests, OnOk, OnInvalid, OnFailure
<1>. QED BY <1>5, <1>6, <1>7

LEMMA NetworkRefines ==
  ASSUME Typed, NEW t \in Threads, Network(t)
  PROVE  Abstract!Next
<1>. pc[t] = "waiting" /\ cache' = cache
  BY NetworkMoves
<1>1. CASE Refused(t)
  BY <1>1, ProceedRefines DEF Refused
<1>2. CASE Unreachable(t)
  BY <1>2, ProceedRefines DEF Unreachable
<1>3. CASE Granted(t)
  <2>1. PICK issued \in MayIssue(t) :
          IF issued = None
          THEN Proceed(t, None, "ok")
          ELSE \E sort \in {"sound"} \cup Forgeries :
                 LET tok == [aid |-> issued, iat |-> clock, sort |-> sort]
                 IN  IF VerifyAndValidate(tok)
                     THEN Proceed(t, tok, "ok")
                     ELSE Proceed(t, None, "error")
    BY <1>3 DEF Granted
  <2>2. /\ job[t].op \in Requests /\ clock \in Nat
        /\ job[t].op # "activate" => job[t].aid \in Activations
    BY DEF Typed, TypeOK, Control, ControlOf
  <2>3. CASE issued = None
    <3>1. job[t].op = "deactivate"
      BY <2>1, <2>2, <2>3, NoneIsNothing DEF MayIssue
    <3>. QED BY <2>1, <2>3, <3>1, ProceedRefines
  <2>4. CASE issued # None
    <3>1. /\ issued \in Activations /\ job[t].op # "deactivate"
          /\ job[t].op # "activate" => issued = job[t].aid
      BY <2>1, <2>2, <2>4 DEF MayIssue
    <3>2. PICK sort \in {"sound"} \cup Forgeries :
                 LET tok == [aid |-> issued, iat |-> clock, sort |-> sort]
                 IN  IF VerifyAndValidate(tok)
                     THEN Proceed(t, tok, "ok")
                     ELSE Proceed(t, None, "error")
      BY <2>1, <2>4
    <3>. DEFINE tok == [aid |-> issued, iat |-> clock, sort |-> sort]
    <3>3. tok \in Tokens /\ tok.aid = issued
      BY <2>2, <3>1, SdkAssumption DEF SdkAssumption, Tokens
    <3>4. Proceed(t, tok, "ok") \/ Proceed(t, None, "error")
      BY <3>2
    <3>. HIDE DEF tok
    <3>. QED BY <3>1, <3>3, <3>4, ProceedRefines
  <2>. QED BY <2>3, <2>4
<1>. QED BY <1>1, <1>2, <1>3 DEF Network

\* The steps of a call after its answer, but for the two that write the file.
LEMMA QuietRefines ==
  ASSUME Typed, NEW t \in Threads,
         \/ CheckDecide(t) \/ Claim(t) \/ StartThreadFails(t)
         \/ Guard(t) \/ Reset(t) \/ Forget(t) \/ Settle(t) \/ Flag(t) \/ Finish(t)
  PROVE  Abstract!Next
<1>. DEFINE MovesOn == \E label : /\ GoTo(t, label) /\ UNCHANGED job
                                  /\ label \notin InFlightPCs \/ pc[t] \in InFlightPCs
            Stamps == GoTo(t, "due") /\ job' = [job EXCEPT ![t].stamp = clock]
<1>1. cache' = cache /\ (Return(t) \/ MovesOn \/ Stamps)
  <2>1. CASE CheckDecide(t)
    BY <2>1 DEF CheckDecide
  <2>2. CASE Claim(t) \/ Settle(t)
    <3>1. cache' = cache /\ (Return(t) \/ \E label \in {"starting", "flag"} : GoTo(t, label) /\ UNCHANGED job)
      BY <2>2 DEF Claim, Settle
    <3>. QED BY <3>1 DEF InFlightPCs
  <2>3. CASE Guard(t)
    BY <2>3 DEF Guard, InFlightPCs
  <2>4. CASE Forget(t)
    BY <2>4 DEF Forget, InFlightPCs
  <2>5. CASE Finish(t)
    BY <2>5 DEF Finish, InFlightPCs
  <2>6. CASE StartThreadFails(t) \/ Reset(t) \/ Flag(t)
    BY <2>6 DEF StartThreadFails, Reset, Flag
  <2>. QED BY <2>1, <2>2, <2>3, <2>4, <2>5, <2>6
<1>2. CASE Return(t)
  <2>1. Alone(t) /\ Pending(t)' = NoCall
    BY <1>2, ReturnMoves, PendingCasesNext DEF InFlightPCs
  <2>. QED BY <1>1, <2>1, AloneKeeps, Loses
<1>3. ASSUME NEW label, GoTo(t, label), UNCHANGED job, label \notin InFlightPCs \/ pc[t] \in InFlightPCs
      PROVE  Abstract!Next
  <2>1. Alone(t) /\ pc'[t] = label /\ job'[t] = job[t]
    BY <1>3, GoToMoves
  <2>2. Pending(t)' \in {Pending(t), NoCall}
    BY <1>3, <2>1, PendingCases, PendingCasesNext
  <2>. QED BY <1>1, <2>1, <2>2, AloneKeeps, Loses
<1>4. CASE GoTo(t, "due") /\ job' = [job EXCEPT ![t].stamp = clock]
  <2>1. Alone(t) /\ pc'[t] = "due"
    BY <1>4 DEF GoTo, Alone, Typed, TypeOK
  <2>2. Pending(t)' = NoCall
    BY <2>1, PendingCasesNext DEF InFlightPCs
  <2>. QED BY <1>1, <2>1, <2>2, AloneKeeps, Loses
<1>. QED BY <1>1, <1>2, <1>3, <1>4

LEMMA StartRefines ==
  ASSUME Typed, NEW t \in Threads, NEW w \in Workers, StartThread(t, w)
  PROVE  Abstract!Next
<1>. w \in Threads /\ w # t /\ pc[t] = "starting" /\ pc[w] = "idle" /\ cache' = cache
  BY DEF StartThread, Threads
<1>1. /\ pc'[w] = "waiting" /\ pc'[t] = "idle"
      /\ job'[w] = RenewalOf(job[t].token)
      /\ \A u \in Threads \ {t, w} : pc'[u] = pc[u] /\ job'[u] = job[u]
  BY DEF StartThread, Typed, TypeOK
<1>2. job[t].token.aid \in Activations
  BY DEF Typed, Control, ControlOf, Tokens
<1>3. Pending(t) = NoCall /\ Pending(t)' = NoCall /\ Pending(w) = NoCall
  BY <1>1, PendingCases, PendingCasesNext DEF InFlightPCs
<1>4. \A u \in Threads \ {w} : Pending(u)' = Pending(u)
  BY <1>1, <1>3 DEF Pending
<1>5. Pending(w)' = [op |-> "background", aid |-> job[t].token.aid, token |-> None, verdict |-> "none"]
  BY <1>1, PendingCasesNext DEF InFlightPCs, RenewalOf, NoJob
<1>. QED BY <1>2, <1>3, <1>4, <1>5, Asks

\* The write: where a call takes effect, if the disk lets it.
LEMMA SaveRefines ==
  ASSUME Typed, CheckedStaysTrue, NEW t \in Threads, Save(t)
  PROVE  Abstract!Next
<1>. ControlOf(t) /\ pc[t] = "save" /\ (cache' = job[t].token \/ cache' = cache)
  BY DEF Typed, Control, Save
<1>1. Alone(t) /\ pc'[t] \in {"reset", "settle"}
  BY GoToMoves DEF Save
<1>2. Pending(t)' = NoCall
  BY <1>1, PendingCasesNext DEF InFlightPCs
<1>3. CASE cache' = cache
  BY <1>1, <1>2, <1>3, AloneKeeps, Loses
<1>4. CASE cache' = job[t].token
  <2>1. /\ Pending(t).verdict = "ok" /\ Pending(t).op # "deactivate"
        /\ Pending(t).token = job[t].token /\ Pending(t).aid = job[t].aid
    BY PendingCases DEF InFlightPCs, ControlOf
  <2>2. t \in Workers => cache # None /\ cache.aid = job[t].aid
    BY DEF CheckedStaysTrue
  <2>. QED BY <1>1, <1>2, <1>4, <2>1, <2>2, AloneKeeps, Takes
<1>. QED BY <1>3, <1>4

\* The deletion, likewise.
LEMMA UnlinkRefines ==
  ASSUME Typed, CheckedStaysTrue, NEW t \in Threads, Unlink(t)
  PROVE  Abstract!Next
<1>. ControlOf(t) /\ pc[t] = "unlink" /\ (cache' = None \/ cache' = cache)
  BY DEF Typed, Control, Unlink
<1>1. Alone(t) /\ pc'[t] \in {"settle", "idle", "finish"}
  BY GoToMoves, ReturnMoves DEF Unlink
<1>2. Pending(t)' = NoCall
  BY <1>1, PendingCasesNext DEF InFlightPCs
<1>3. CASE cache' = cache
  BY <1>1, <1>2, <1>3, AloneKeeps, Loses
<1>4. CASE cache' = None
  <2>1. /\ Pending(t).verdict = IF job[t].op = "deactivate" THEN "ok" ELSE "invalid"
        /\ Pending(t).op = job[t].op /\ Pending(t).aid = job[t].aid
    BY PendingCases DEF InFlightPCs, ControlOf
  <2>2. t \in Workers => cache # None /\ cache.aid = job[t].aid
    BY DEF CheckedStaysTrue
  <2>. QED BY <1>1, <1>2, <1>4, <2>1, <2>2, AloneKeeps, Takes
<1>. QED BY <1>3, <1>4

LEMMA NextRefines ==
  ASSUME Typed, CheckedStaysTrue, [Next]_vars
  PROVE  [Abstract!Next]_<<cache, [t \in Threads |-> Pending(t)]>>
<1>1. ASSUME NEW t \in Callers, Call(t) PROVE Abstract!Next
  BY <1>1, CallRefines
<1>2. ASSUME NEW t \in Threads, Advance(t) PROVE Abstract!Next
  BY <1>2, QuietRefines, StartRefines, SaveRefines, UnlinkRefines DEF Advance
<1>3. ASSUME NEW t \in Threads, Network(t) PROVE Abstract!Next
  BY <1>3, NetworkRefines
<1>4. CASE Tick \/ StepBack \/ UNCHANGED vars
  BY <1>4, Loses DEF Tick, StepBack, vars, Pending
<1>5. ASSUME NEW s \in Sdks, Restart(s) PROVE Abstract!Next
  <2>1. cache' = cache
    BY <1>5 DEF Restart
  <2>2. ASSUME NEW u \in Threads PROVE Pending(u)' \in {Pending(u), NoCall}
    <3>1. (pc'[u] = pc[u] /\ job'[u] = job[u]) \/ pc'[u] = "idle"
      BY <1>5 DEF Restart
    <3>. QED BY <3>1, PendingCases, PendingCasesNext DEF InFlightPCs
  <2>. QED BY <2>1, <2>2, Loses
<1>. QED BY <1>1, <1>2, <1>3, <1>4, <1>5 DEF Next

LEMMA InitRefines == Init => Abstract!Init
BY DEF Init, Pending, Abstract!Init, Abstract!Idle

\* http.py:180-181, http.py:434: with one Sdk, any number of threads, any faults of the
\* disk, the network and the clock, and processes that die anywhere, each call acts on
\* the file in one step, and a background renewal only on its own activation.
THEOREM SdkImplementsHeldLicense ==
  ASSUME NEW s, Sdks = {s}
  PROVE  Spec => ActsAtOnce
<1>1. Spec => [](Typed /\ CheckedStaysTrue)
  BY InitTyped, NextTyped, InitExcludes, NextExcludes, InitChecked, NextChecked, PTL DEF Spec
<1>. QED
  BY <1>1, InitRefines, NextRefines, PTL DEF Spec, ActsAtOnce, Abstract!Spec
=============================================================================

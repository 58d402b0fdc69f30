----------------------------- MODULE SdkProofs -----------------------------
(***************************************************************************)
(* Proofs about the Sdk, for every number of Sdk objects, threads,         *)
(* activations and keys, and every value of the other constants.           *)
(***************************************************************************)
EXTENDS SdkProps, TLAPS

-----------------------------------------------------------------------------
(* What the types rest on *)

Requests == {"activate", "renew", "deactivate", "background"}

\* What t's locals hold at each point of its code.
ControlOf(t) ==
  LET j == job[t]
  IN  /\ pc[t] \in {"guard", "finish"} => t \in Workers
      /\ pc[t] \in {"loaded", "due", "starting", "reset"} => t \in Callers
      /\ pc[t] \in {"loaded", "due", "starting"} => j.op = "check" /\ j.token \in Tokens
      /\ pc[t] \in {"waiting", "guard", "save", "reset", "forget", "unlink", "settle", "flag"}
           => /\ j.op \in Requests
              /\ t \in Workers <=> j.op = "background"
              /\ j.op # "activate" => j.aid \in Activations
      /\ pc[t] = "waiting" => j.outcome = "none"
      /\ pc[t] = "guard" => j.outcome \in {"ok", "invalid"}
      /\ pc[t] = "save" => j.op # "deactivate" /\ j.outcome = "ok"
      /\ pc[t] = "reset" => j.op = "activate" /\ j.outcome = "ok"
      /\ pc[t] \in {"forget", "unlink"}
           => j.outcome = IF j.op = "deactivate" THEN "ok" ELSE "invalid"
      /\ pc[t] \in {"settle", "flag"}
           => /\ j.op \in {"renew", "background"}
              /\ j.outcome # "none"
              /\ j.op = "background" => j.outcome # "invalid"
      /\ pc[t] \in {"guard", "save", "settle", "flag"} /\ j.outcome = "ok"
           => /\ j.token \in Tokens /\ j.token.sort = "sound"
              /\ j.op # "activate" => j.token.aid = j.aid

\* What a call in progress carries agrees with where it stands: a token on its way into
\* the file is a sound one of the activation asked for, and a deletion follows from an
\* answer that allows it.
Control == \A t \in Threads : ControlOf(t)

\* The first layer of the inductive invariant: the types, and what every
\* thread's locals hold at each point of its code.
Typed == TypeOK /\ Control

LEMMA NoneIsNothing ==
  None \notin Tokens /\ None \notin Threads /\ None \notin Activations /\ None \notin Keys
BY SdkAssumption DEF SdkAssumption

LEMMA NoJobIsJob == NoJob \in Jobs
BY DEF NoJob, Jobs, Ops, Outcomes

\* A token that passes _verify_and_validate is the one the server signs for this
\* machine.
LEMMA ValidatedIsSound ==
  ASSUME NEW tok \in Tokens, VerifyAndValidate(tok)
  PROVE  tok.sort = "sound"
<1>1. SUFFICES ASSUME tok.sort \in {"foreign", "forged"} PROVE FALSE
  BY DEF Tokens
<1>2. CASE tok.sort = "forged"
  BY <1>2 DEF VerifyAndValidate, Accepted, CheckLicenseAt, VerifyActivationAt, EntryOf,
              ParseAndVerify
<1>3. CASE tok.sort = "foreign"
  BY <1>3, SdkAssumption DEF SdkAssumption, VerifyAndValidate, Accepted, CheckLicenseAt,
     EntryOf, ValidateAt, LicenseOf
<1>. QED BY <1>1, <1>2, <1>3

THEOREM InitTyped == Init => Typed
<1>. SUFFICES ASSUME Init PROVE TypeOK /\ Control BY DEF Typed
<1>1. TypeOK
  BY SdkAssumption, NoJobIsJob DEF SdkAssumption, Init, TypeOK, PCs
<1>2. Control
  BY DEF Init, Control, ControlOf, NoJob
<1>. QED BY <1>1, <1>2
\* The condition on one thread that a step of another one cannot disturb.
LEMMA OthersControlled ==
  ASSUME Typed, NEW t \in Threads,
         \A u \in Threads \ {t} : pc'[u] = pc[u] /\ job'[u] = job[u],
         ControlOf(t)'
  PROVE  Control'
BY DEF Typed, Control, ControlOf

LEMMA ProceedTyped ==
  ASSUME Typed, NEW t \in Threads, pc[t] = "waiting",
         NEW tok \in Tokens \cup {None},
         NEW outcome \in {"ok", "invalid", "network", "error"},
         outcome = "ok" =>
           IF job[t].op = "deactivate" THEN tok = None
           ELSE /\ tok \in Tokens /\ tok.sort = "sound"
                /\ job[t].op # "activate" => tok.aid = job[t].aid,
         Proceed(t, tok, outcome),
         UNCHANGED <<cache, clock, sdkVars, history>>
  PROVE  Typed'
<1>. DEFINE op == job[t].op
            j  == [job[t] EXCEPT !.token = tok, !.outcome = outcome]
            next == CASE outcome = "ok"      -> OnOk[op]
                      [] outcome = "invalid" -> OnInvalid[op]
                      [] OTHER               -> OnFailure[op]
<1>1. /\ job[t] \in Jobs
      /\ op \in Requests
      /\ t \in Workers <=> op = "background"
      /\ op # "activate" => job[t].aid \in Activations
  BY DEF Typed, TypeOK, Control, ControlOf
<1>2. /\ pc' = [pc EXCEPT ![t] = next]
      /\ job' = [job EXCEPT ![t] = IF next = "idle" THEN NoJob ELSE j]
  BY DEF Proceed, GoTo
<1>3. /\ j \in Jobs
      /\ j.op = op /\ j.aid = job[t].aid /\ j.token = tok /\ j.outcome = outcome
  BY <1>1 DEF Jobs, Outcomes
<1>4. next \in {"idle", "save", "forget", "guard", "settle"}
  BY <1>1 DEF OnOk, OnInvalid, OnFailure, Requests
<1>. HIDE DEF j
<1>5. TypeOK'
  BY <1>2, <1>3, <1>4, NoJobIsJob DEF Typed, TypeOK, PCs, sdkVars, history
<1>6. ControlOf(t)'
  <2>. /\ pc'[t] = next
       /\ job'[t] = IF next = "idle" THEN NoJob ELSE j
    BY <1>2 DEF Typed, TypeOK
  <2>1. CASE outcome = "ok"
    BY <2>1, <1>1, <1>3 DEF ControlOf, OnOk, Requests, NoJob
  <2>2. CASE outcome = "invalid"
    BY <2>2, <1>1, <1>3 DEF ControlOf, OnInvalid, Requests, NoJob
  <2>3. CASE outcome \in {"network", "error"}
    BY <2>3, <1>1, <1>3 DEF ControlOf, OnFailure, Requests, NoJob
  <2>. QED BY <2>1, <2>2, <2>3
<1>7. \A u \in Threads \ {t} : pc'[u] = pc[u] /\ job'[u] = job[u]
  BY <1>2 DEF Typed, TypeOK
<1>. QED BY <1>5, <1>6, <1>7, OthersControlled DEF Typed

\* A step of t that leaves the other threads' program counters and locals alone.
OnlyMoves(t, label, j) ==
  /\ pc' = [pc EXCEPT ![t] = label]
  /\ job' = [job EXCEPT ![t] = j]

LEMMA MoveControlled ==
  ASSUME Typed, NEW t \in Threads, NEW label, NEW j, OnlyMoves(t, label, j),
         (pc'[t] = label /\ job'[t] = j) => ControlOf(t)'
  PROVE  Control'
<1>1. \A u \in Threads \ {t} : pc'[u] = pc[u] /\ job'[u] = job[u]
  BY DEF OnlyMoves, Typed, TypeOK
<1>2. pc'[t] = label /\ job'[t] = j
  BY DEF OnlyMoves, Typed, TypeOK
<1>. QED BY <1>1, <1>2, OthersControlled

\* The steps that start a call.
LEMMA CallTyped ==
  ASSUME Typed, NEW t \in Callers, Call(t)
  PROVE  Typed'
<1>. t \in Threads /\ t \notin Workers
  BY SdkAssumption DEF SdkAssumption, Threads
<1>1. CASE CheckLoad(t)
  <2>. DEFINE j == [NoJob EXCEPT !.op = "check", !.token = cache]
  <2>1. cache \in Tokens
    BY <1>1 DEF CheckLoad, Typed, TypeOK
  <2>2. j \in Jobs /\ j.op = "check" /\ j.token = cache
    BY <2>1, NoJobIsJob DEF Jobs, NoJob, Ops
  <2>3. OnlyMoves(t, "loaded", j)
    BY <1>1 DEF CheckLoad, GoTo, OnlyMoves
  <2>. HIDE DEF j
  <2>4. TypeOK'
    BY <1>1, <2>2, <2>3 DEF CheckLoad, OnlyMoves, Typed, TypeOK, PCs, sdkVars, history
  <2>5. Control'
    BY <2>1, <2>2, <2>3, MoveControlled DEF ControlOf
  <2>. QED BY <2>4, <2>5 DEF Typed
<1>2. ASSUME NEW k \in Keys, Activate(t, k) PROVE Typed'
  <2>. DEFINE j == [NoJob EXCEPT !.op = "activate", !.key = k]
  <2>1. j \in Jobs /\ j.op = "activate" /\ j.outcome = "none"
    BY NoJobIsJob DEF Jobs, NoJob, Ops
  <2>2. OnlyMoves(t, "waiting", j)
    BY <1>2 DEF Activate, Request, GoTo, OnlyMoves
  <2>. HIDE DEF j
  <2>3. TypeOK'
    BY <1>2, <2>1, <2>2 DEF Activate, OnlyMoves, Typed, TypeOK, PCs, sdkVars, history
  <2>4. Control'
    BY <2>1, <2>2, MoveControlled DEF ControlOf, Requests
  <2>. QED BY <2>3, <2>4 DEF Typed
<1>3. ASSUME NEW a \in Activations, Renew(t, a) PROVE Typed'
  <2>. DEFINE j == [NoJob EXCEPT !.op = "renew", !.aid = a]
  <2>1. j \in Jobs /\ j.op = "renew" /\ j.aid = a /\ j.outcome = "none"
    BY NoJobIsJob DEF Jobs, NoJob, Ops
  <2>2. OnlyMoves(t, "waiting", j)
    BY <1>3 DEF Renew, Request, GoTo, OnlyMoves
  <2>. HIDE DEF j
  <2>3. TypeOK'
    BY <1>3, <2>1, <2>2 DEF Renew, OnlyMoves, Typed, TypeOK, PCs, history
  <2>4. Control'
    BY <2>1, <2>2, MoveControlled DEF ControlOf, Requests
  <2>. QED BY <2>3, <2>4 DEF Typed
<1>4. ASSUME NEW a \in Activations, Deactivate(t, a) PROVE Typed'
  <2>. DEFINE j == [NoJob EXCEPT !.op = "deactivate", !.aid = a]
  <2>1. j \in Jobs /\ j.op = "deactivate" /\ j.aid = a /\ j.outcome = "none"
    BY NoJobIsJob DEF Jobs, NoJob, Ops
  <2>2. OnlyMoves(t, "waiting", j)
    BY <1>4 DEF Deactivate, Request, GoTo, OnlyMoves
  <2>. HIDE DEF j
  <2>3. TypeOK'
    BY <1>4, <2>1, <2>2 DEF Deactivate, OnlyMoves, Typed, TypeOK, PCs, sdkVars, history
  <2>4. Control'
    BY <2>1, <2>2, MoveControlled DEF ControlOf, Requests
  <2>. QED BY <2>3, <2>4 DEF Typed
<1>. QED BY <1>1, <1>2, <1>3, <1>4 DEF Call

\* The steps in which a request ends.
LEMMA NetworkTyped ==
  ASSUME Typed, NEW t \in Threads, Network(t)
  PROVE  Typed'
<1>1. CASE Refused(t)
  <2>1. PICK outcome \in {"invalid", "error"} : Proceed(t, None, outcome)
    BY <1>1 DEF Refused
  <2>. QED BY <1>1, <2>1, ProceedTyped DEF Refused
<1>2. CASE Unreachable(t)
  BY <1>2, ProceedTyped DEF Unreachable
<1>3. CASE Granted(t)
  <2>. pc[t] = "waiting" /\ UNCHANGED <<cache, clock, sdkVars, history>>
    BY <1>3 DEF Granted
  <2>. /\ job[t] \in Jobs
       /\ job[t].op \in Requests
       /\ job[t].op # "activate" => job[t].aid \in Activations
    BY DEF Typed, TypeOK, Control, ControlOf
  <2>1. PICK issued \in MayIssue(t) :
          IF issued = None
          THEN Proceed(t, None, "ok")
          ELSE \E sort \in {"sound"} \cup Forgeries :
                 LET tok == [aid |-> issued, iat |-> clock, sort |-> sort]
                 IN  IF VerifyAndValidate(tok)
                     THEN Proceed(t, tok, "ok")
                     ELSE Proceed(t, None, "error")
    BY <1>3 DEF Granted
  <2>2. /\ issued = None <=> job[t].op = "deactivate"
        /\ issued # None => issued \in Activations
        /\ job[t].op \in {"renew", "background"} => issued = job[t].aid
    BY NoneIsNothing DEF MayIssue, Requests
  <2>3. CASE issued = None
    BY <2>1, <2>2, <2>3, ProceedTyped
  <2>4. CASE issued # None
    <3>1. PICK sort \in {"sound"} \cup Forgeries :
            LET tok == [aid |-> issued, iat |-> clock, sort |-> sort]
            IN  IF VerifyAndValidate(tok)
                THEN Proceed(t, tok, "ok")
                ELSE Proceed(t, None, "error")
      BY <2>1, <2>4
    <3>. DEFINE tok == [aid |-> issued, iat |-> clock, sort |-> sort]
    <3>2. tok \in Tokens /\ tok.aid = issued
      BY <2>2, <2>4, SdkAssumption DEF SdkAssumption, Tokens, Typed, TypeOK
    <3>. HIDE DEF tok
    <3>3. CASE VerifyAndValidate(tok)
      <4>1. Proceed(t, tok, "ok") BY <3>1, <3>3 DEF tok
      <4>2. tok.sort = "sound" BY <3>2, <3>3, ValidatedIsSound
      <4>. QED BY <2>2, <2>4, <3>2, <4>1, <4>2, ProceedTyped DEF Requests
    <3>4. CASE ~VerifyAndValidate(tok)
      BY <3>1, <3>4, ProceedTyped DEF tok
    <3>. QED BY <3>3, <3>4
  <2>. QED BY <2>3, <2>4
<1>. QED BY <1>1, <1>2, <1>3 DEF Network

\* Return, of an application thread and of a background one.
LEMMA ReturnTyped ==
  ASSUME Typed, NEW t \in Threads, Return(t),
         cache' \in Tokens \cup {None}, clock' \in Nat,
         lock' \in [Sdks -> Threads \cup {None}], inFlight' \in [Sdks -> BOOLEAN],
         lastAttempt' \in [Sdks -> Nat], renewalFailed' \in [Sdks -> BOOLEAN],
         released' \subseteq Activations, blamed' \in [Sdks -> Activations \cup {None}]
  PROVE  Typed'
<1>. DEFINE label == IF t \in Workers THEN "finish" ELSE "idle"
<1>1. OnlyMoves(t, label, NoJob)
  BY DEF Return, GoTo, OnlyMoves
<1>2. TypeOK'
  BY <1>1, NoJobIsJob DEF OnlyMoves, Typed, TypeOK, PCs
<1>3. Control'
  BY <1>1, MoveControlled DEF ControlOf, NoJob
<1>. QED BY <1>2, <1>3 DEF Typed

LEMMA HelpersTyped ==
  ASSUME Typed, NEW t \in Threads
  PROVE  /\ Hold(t) => lock' \in [Sdks -> Threads \cup {None}]
         /\ Leave(t) => lock' \in [Sdks -> Threads \cup {None}]
         /\ \A failed \in BOOLEAN :
              SetFailed(t, failed) => /\ renewalFailed' \in [Sdks -> BOOLEAN]
                                      /\ blamed' \in [Sdks -> Activations \cup {None}]
<1>. SdkOf[t] \in Sdks /\ job[t].aid \in Activations \cup {None}
  BY SdkAssumption DEF SdkAssumption, Typed, TypeOK, Jobs
<1>. QED BY DEF Hold, Leave, SetFailed, Typed, TypeOK

\* check and the start of a background renewal.
LEMMA CheckTyped ==
  ASSUME Typed, NEW t \in Callers,
         \/ CheckDecide(t) \/ Claim(t) \/ StartThreadFails(t)
         \/ \E w \in Workers : StartThread(t, w)
  PROVE  Typed'
<1>. t \in Threads /\ t \notin Workers /\ SdkOf[t] \in Sdks
  BY SdkAssumption DEF SdkAssumption, Threads
<1>1. CASE CheckDecide(t)
  <2>1. CASE StartsRenewal(EntryOf(job[t].token), Machine, clock)
    <3>. DEFINE j == [job[t] EXCEPT !.stamp = clock]
    <3>1. job[t] \in Jobs /\ job[t].op = "check" /\ job[t].token \in Tokens
      BY <1>1 DEF CheckDecide, Typed, TypeOK, Control, ControlOf
    <3>2. j \in Jobs /\ j.op = "check" /\ j.token \in Tokens
      BY <3>1 DEF Jobs, Typed, TypeOK
    <3>3. OnlyMoves(t, "due", j)
      BY <1>1, <2>1 DEF CheckDecide, GoTo, OnlyMoves
    <3>. HIDE DEF j
    <3>4. TypeOK'
      BY <1>1, <3>2, <3>3 DEF CheckDecide, OnlyMoves, Typed, TypeOK, PCs, sdkVars, history
    <3>5. Control'
      BY <3>2, <3>3, MoveControlled DEF ControlOf
    <3>. QED BY <3>4, <3>5 DEF Typed
  <2>2. CASE ~StartsRenewal(EntryOf(job[t].token), Machine, clock)
    BY <1>1, <2>2, ReturnTyped DEF CheckDecide, Typed, TypeOK, sdkVars, history
  <2>. QED BY <2>1, <2>2
<1>2. CASE Claim(t)
  <2>1. CASE MustWait(t)
    BY <1>2, <2>1, ReturnTyped DEF Claim, Typed, TypeOK, history
  <2>2. CASE ~MustWait(t)
    <3>1. job[t] \in Jobs /\ job[t].op = "check" /\ job[t].token \in Tokens
      BY <1>2 DEF Claim, Typed, TypeOK, Control, ControlOf
    <3>2. /\ pc' = [pc EXCEPT ![t] = "starting"] /\ UNCHANGED job
          /\ inFlight' = [inFlight EXCEPT ![SdkOf[t]] = TRUE]
          /\ lastAttempt' = [lastAttempt EXCEPT ![SdkOf[t]] = job[t].stamp]
      BY <1>2, <2>2 DEF Claim, GoTo
    <3>3. TypeOK'
      BY <1>2, <3>1, <3>2 DEF Claim, Typed, TypeOK, PCs, Jobs, history
    <3>4. ControlOf(t)'
      BY <3>1, <3>2 DEF ControlOf, Typed, TypeOK
    <3>5. \A u \in Threads \ {t} : pc'[u] = pc[u] /\ job'[u] = job[u]
      BY <3>2 DEF Typed, TypeOK
    <3>. QED BY <3>3, <3>4, <3>5, OthersControlled DEF Typed
  <2>. QED BY <2>1, <2>2
<1>3. CASE StartThreadFails(t)
  BY <1>3, ReturnTyped DEF StartThreadFails, Typed, TypeOK, sdkVars, history
<1>4. ASSUME NEW w \in Workers, StartThread(t, w) PROVE Typed'
  <2>. w \in Threads /\ w \notin Callers /\ w # t
    BY SdkAssumption DEF SdkAssumption, Threads
  <2>. DEFINE j == RenewalOf(job[t].token)
  <2>1. job[t].token \in Tokens
    BY <1>4 DEF StartThread, Typed, Control, ControlOf
  <2>2. j \in Jobs /\ j.op = "background" /\ j.aid \in Activations /\ j.outcome = "none"
    BY <2>1, NoJobIsJob DEF RenewalOf, Jobs, NoJob, Ops, Tokens
  <2>3. /\ pc' = [pc EXCEPT ![t] = "idle", ![w] = "waiting"]
        /\ job' = [job EXCEPT ![t] = NoJob, ![w] = j]
    BY <1>4 DEF StartThread
  <2>. HIDE DEF j
  <2>4. TypeOK'
    BY <1>4, <2>2, <2>3, NoJobIsJob DEF StartThread, Typed, TypeOK, PCs, sdkVars, history
  <2>5. Control'
    <3>1. \A u \in Threads \ {t, w} : pc'[u] = pc[u] /\ job'[u] = job[u]
      BY <2>3 DEF Typed, TypeOK
    <3>2. \A u \in Threads \ {t, w} : ControlOf(u)'
      BY <3>1 DEF Typed, Control, ControlOf
    <3>3. pc'[t] = "idle" /\ pc'[w] = "waiting" /\ job'[w] = j
      BY <2>3 DEF Typed, TypeOK
    <3>4. ControlOf(t)' /\ ControlOf(w)'
      BY <2>2, <3>3 DEF ControlOf, Requests
    <3>. QED BY <3>2, <3>4 DEF Control
  <2>. QED BY <2>4, <2>5 DEF Typed
<1>. QED BY <1>1, <1>2, <1>3, <1>4

\* A thread goes on to label with the job it has.
LEMMA GoOnControlled ==
  ASSUME Typed, NEW t \in Threads, NEW label, GoTo(t, label), UNCHANGED job,
         pc'[t] = label /\ job'[t] = job[t] => ControlOf(t)'
  PROVE  Control'
<1>1. \A u \in Threads \ {t} : pc'[u] = pc[u] /\ job'[u] = job[u]
  BY DEF GoTo, Typed, TypeOK
<1>2. pc'[t] = label /\ job'[t] = job[t]
  BY DEF GoTo, Typed, TypeOK
<1>. QED BY <1>1, <1>2, OthersControlled

\* What follows a response.
LEMMA AfterTyped ==
  ASSUME Typed, NEW t \in Threads,
         \/ Guard(t) \/ Save(t) \/ Reset(t) \/ Forget(t) \/ Unlink(t)
         \/ Settle(t) \/ Flag(t) \/ Finish(t)
  PROVE  Typed'
<1>. SdkOf[t] \in Sdks
  BY SdkAssumption DEF SdkAssumption
<1>. job[t] \in Jobs /\ ControlOf(t)
  BY DEF Typed, TypeOK, Control
<1>1. CASE Guard(t)
  <2>1. CASE CacheHolds(job[t].aid)
    <3>. DEFINE label == IF job[t].outcome = "ok" THEN "save" ELSE "forget"
    <3>1. GoTo(t, label) /\ Hold(t) /\ UNCHANGED job
      BY <1>1, <2>1 DEF Guard
    <3>2. TypeOK'
      BY <1>1, <3>1, HelpersTyped DEF Guard, GoTo, Typed, TypeOK, PCs, history
    <3>3. Control'
      BY <1>1, <3>1, GoOnControlled DEF Guard, ControlOf, Requests
    <3>. QED BY <3>2, <3>3 DEF Typed
  <2>2. CASE ~CacheHolds(job[t].aid)
    BY <1>1, <2>2, ReturnTyped DEF Guard, Typed, TypeOK, history
  <2>. QED BY <2>1, <2>2
<1>2. CASE Save(t)
  <2>. DEFINE label == IF job[t].op = "activate" THEN "reset" ELSE "settle"
  <2>1. job[t].token \in Tokens
    BY <1>2 DEF Save, ControlOf
  <2>2. GoTo(t, label) /\ UNCHANGED job
    BY <1>2 DEF Save
  <2>3. TypeOK'
    BY <1>2, <2>1, <2>2 DEF Save, GoTo, Typed, TypeOK, PCs, sdkVars
  <2>4. Control'
    BY <1>2, <2>2, SdkAssumption, GoOnControlled
    DEF SdkAssumption, Save, ControlOf, Requests, Threads
  <2>. QED BY <2>3, <2>4 DEF Typed
<1>3. CASE Reset(t)
  BY <1>3, HelpersTyped, ReturnTyped DEF Reset, Typed, TypeOK
<1>4. CASE Forget(t)
  <2>1. GoTo(t, "unlink") /\ UNCHANGED job /\ Hold(t) /\ SetFailed(t, FALSE)
    BY <1>4 DEF Forget
  <2>2. TypeOK'
    BY <1>4, <2>1, HelpersTyped DEF Forget, GoTo, Typed, TypeOK, PCs
  <2>3. Control'
    BY <1>4, <2>1, GoOnControlled DEF Forget, ControlOf
  <2>. QED BY <2>2, <2>3 DEF Typed
<1>5. CASE Unlink(t)
  <2>1. /\ lock' \in [Sdks -> Threads \cup {None}]
        /\ released' \subseteq Activations
        /\ cache' \in Tokens \cup {None}
    BY <1>5, HelpersTyped DEF Unlink, ControlOf, Typed, TypeOK
  <2>2. CASE job[t].op = "renew"
    <3>1. GoTo(t, "settle") /\ UNCHANGED job
      BY <1>5, <2>2 DEF Unlink
    <3>2. TypeOK'
      BY <1>5, <2>1, <3>1 DEF Unlink, GoTo, Typed, TypeOK, PCs
    <3>3. Control'
      BY <1>5, <2>2, <3>1, GoOnControlled DEF Unlink, ControlOf
    <3>. QED BY <3>2, <3>3 DEF Typed
  <2>3. CASE job[t].op # "renew"
    BY <1>5, <2>1, <2>3, ReturnTyped DEF Unlink, Typed, TypeOK
  <2>. QED BY <2>2, <2>3
<1>6. CASE Settle(t)
  <2>1. CASE CacheHolds(job[t].aid)
    <3>1. GoTo(t, "flag") /\ Hold(t) /\ UNCHANGED job
      BY <1>6, <2>1 DEF Settle
    <3>2. TypeOK'
      BY <1>6, <3>1, HelpersTyped DEF Settle, GoTo, Typed, TypeOK, PCs, history
    <3>3. Control'
      BY <1>6, <3>1, GoOnControlled DEF Settle, ControlOf
    <3>. QED BY <3>2, <3>3 DEF Typed
  <2>2. CASE ~CacheHolds(job[t].aid)
    BY <1>6, <2>2, HelpersTyped, ReturnTyped DEF Settle, Typed, TypeOK, history
  <2>. QED BY <2>1, <2>2
<1>7. CASE Flag(t)
  BY <1>7, HelpersTyped, ReturnTyped DEF Flag, Typed, TypeOK
<1>8. CASE Finish(t)
  <2>1. GoTo(t, "idle") /\ UNCHANGED job
    BY <1>8 DEF Finish
  <2>2. TypeOK'
    BY <1>8, <2>1 DEF Finish, GoTo, Typed, TypeOK, PCs, history
  <2>3. Control'
    BY <2>1, GoOnControlled DEF ControlOf
  <2>. QED BY <2>2, <2>3 DEF Typed
<1>. QED BY <1>1, <1>2, <1>3, <1>4, <1>5, <1>6, <1>7, <1>8

LEMMA RestartTyped ==
  ASSUME Typed, NEW s \in Sdks, Restart(s)
  PROVE  Typed'
<1>1. TypeOK'
  BY NoJobIsJob DEF Restart, Typed, TypeOK, PCs
<1>2. \A t \in Threads : ControlOf(t)'
  <2>. SUFFICES ASSUME NEW t \in Threads PROVE ControlOf(t)' OBVIOUS
  <2>1. CASE SdkOf[t] = s
    BY <2>1 DEF Restart, ControlOf, NoJob
  <2>2. CASE SdkOf[t] # s
    BY <2>2 DEF Restart, ControlOf, Typed, Control
  <2>. QED BY <2>1, <2>2
<1>. QED BY <1>1, <1>2 DEF Typed, Control

\* A worker takes no step of check, and only an application thread makes a call.
LEMMA WhoChecks ==
  ASSUME Typed, NEW t \in Threads,
         \/ CheckDecide(t) \/ Claim(t) \/ StartThreadFails(t)
         \/ \E w \in Workers : StartThread(t, w)
  PROVE  t \in Callers
BY DEF CheckDecide, Claim, StartThreadFails, StartThread, Typed, Control, ControlOf

LEMMA NextTyped == Typed /\ [Next]_vars => Typed'
<1>. SUFFICES ASSUME Typed, [Next]_vars PROVE Typed' OBVIOUS
<1>1. ASSUME NEW t \in Callers, Call(t) PROVE Typed'
  BY <1>1, CallTyped
<1>2. ASSUME NEW t \in Threads, Advance(t) PROVE Typed'
  BY <1>2, WhoChecks, CheckTyped, AfterTyped DEF Advance
<1>3. ASSUME NEW t \in Threads, Network(t) PROVE Typed'
  BY <1>3, NetworkTyped
<1>4. CASE Tick \/ StepBack
  BY <1>4, SdkAssumption DEF SdkAssumption, Tick, StepBack, Typed, TypeOK, Control, ControlOf, sdkVars, history
<1>5. ASSUME NEW s \in Sdks, Restart(s) PROVE Typed'
  BY <1>5, RestartTyped
<1>6. CASE UNCHANGED vars
  BY <1>6 DEF vars, Typed, TypeOK, Control, ControlOf, sdkVars, history
<1>. QED BY <1>1, <1>2, <1>3, <1>4, <1>5, <1>6 DEF Next

\* Type correctness, and the condition on every thread's locals: every call carries
\* the verdict it acts on, whatever the interleaving and the faults.
THEOREM TypeCorrect == Spec => [](TypeOK /\ Control)
<1>1. Spec => []Typed
  BY InitTyped, NextTyped, PTL DEF Spec
<1>2. Typed => TypeOK /\ Control
  BY DEF Typed
<1>. QED BY <1>1, <1>2, PTL

\* The type invariant by itself.
THEOREM TypesHold == Spec => []TypeOK
BY TypeCorrect, PTL

-----------------------------------------------------------------------------
(* Mutual exclusion.  The three ways in which a step can treat the lock. *)

\* Only t moves.
Alone(t) == \A u \in Threads \ {t} : pc'[u] = pc[u] /\ job'[u] = job[u]

LEMMA OutsideKept ==
  ASSUME NEW u \in Threads, pc'[u] = pc[u], job'[u] = job[u]
  PROVE  InCriticalSection(u)' <=> InCriticalSection(u)
BY DEF InCriticalSection

LEMMA LockUntouched ==
  ASSUME CacheLockExcludes, UNCHANGED lock,
         \A u \in Threads : InCriticalSection(u)' <=> InCriticalSection(u)
  PROVE  CacheLockExcludes'
BY DEF CacheLockExcludes

LEMMA LockTaken ==
  ASSUME Typed, CacheLockExcludes, NEW t \in Threads, MayEnter(t), Hold(t), Alone(t),
         InCriticalSection(t)'
  PROVE  CacheLockExcludes'
<1>. SUFFICES ASSUME NEW s \in Sdks, NEW u \in Threads
              PROVE  lock'[s] = u <=> SdkOf[u] = s /\ InCriticalSection(u)'
  BY DEF CacheLockExcludes
<1>. SdkOf[t] \in Sdks
  BY SdkAssumption DEF SdkAssumption
<1>1. CASE s # SdkOf[t]
  BY <1>1, OutsideKept DEF Hold, Alone, CacheLockExcludes, Typed, TypeOK
<1>2. CASE s = SdkOf[t]
  <2>1. lock'[s] = t
    BY <1>2 DEF Hold, Typed, TypeOK
  <2>2. u # t /\ SdkOf[u] = s => ~InCriticalSection(u)
    BY <1>2, NoneIsNothing DEF MayEnter, CacheLockExcludes
  <2>. QED BY <1>2, <2>1, <2>2, OutsideKept DEF Alone
<1>. QED BY <1>1, <1>2

LEMMA LockReleased ==
  ASSUME Typed, CacheLockExcludes, NEW t \in Threads, MayEnter(t), Leave(t), Alone(t),
         ~InCriticalSection(t)'
  PROVE  CacheLockExcludes'
<1>. SUFFICES ASSUME NEW s \in Sdks, NEW u \in Threads
              PROVE  lock'[s] = u <=> SdkOf[u] = s /\ InCriticalSection(u)'
  BY DEF CacheLockExcludes
<1>. SdkOf[t] \in Sdks
  BY SdkAssumption DEF SdkAssumption
<1>1. CASE s # SdkOf[t]
  BY <1>1, OutsideKept DEF Leave, Alone, CacheLockExcludes, Typed, TypeOK
<1>2. CASE s = SdkOf[t]
  <2>1. lock'[s] = None
    BY <1>2 DEF Leave, Typed, TypeOK
  <2>2. u # t /\ SdkOf[u] = s => ~InCriticalSection(u)
    BY <1>2, NoneIsNothing DEF MayEnter, CacheLockExcludes
  <2>. QED BY <1>2, <2>1, <2>2, NoneIsNothing, OutsideKept DEF Alone
<1>. QED BY <1>1, <1>2

\* A thread inside is its own obstacle only.
LEMMA HolderMayEnter ==
  ASSUME CacheLockExcludes, NEW t \in Threads, InCriticalSection(t)
  PROVE  MayEnter(t)
BY SdkAssumption DEF SdkAssumption, CacheLockExcludes, MayEnter

LEMMA ReturnMoves ==
  ASSUME Typed, NEW t \in Threads, Return(t)
  PROVE  Alone(t) /\ ~InCriticalSection(t)' /\ pc'[t] \in {"idle", "finish"}
BY DEF Return, GoTo, Alone, InCriticalSection, Typed, TypeOK

LEMMA GoToMoves ==
  ASSUME Typed, NEW t \in Threads, NEW label, GoTo(t, label), UNCHANGED job
  PROVE  Alone(t) /\ pc'[t] = label /\ job'[t] = job[t]
BY DEF GoTo, Alone, Typed, TypeOK

LEMMA RequestMoves ==
  ASSUME Typed, NEW t \in Threads, NEW j, Request(t, j)
  PROVE  Alone(t) /\ pc'[t] = "waiting" /\ job'[t] = j
BY DEF Request, GoTo, Alone, Typed, TypeOK

LEMMA CallMoves ==
  ASSUME Typed, NEW t \in Callers, Call(t)
  PROVE  /\ t \in Threads /\ t \notin Workers
         /\ Alone(t) /\ pc[t] = "idle" /\ pc'[t] \in {"loaded", "waiting"}
         /\ UNCHANGED <<cache, clock, lock, inFlight, renewalFailed, history>>
<1>. t \in Threads /\ t \notin Workers
  BY SdkAssumption DEF SdkAssumption, Threads
<1>1. pc[t] = "idle" /\ UNCHANGED <<cache, clock, lock, inFlight, renewalFailed, history>>
  BY DEF Call, CheckLoad, Activate, Renew, Deactivate, sdkVars
<1>2. Alone(t) /\ pc'[t] \in {"loaded", "waiting"}
  BY RequestMoves
  DEF Call, CheckLoad, Activate, Renew, Deactivate, GoTo, Alone, Typed, TypeOK
<1>. QED BY <1>1, <1>2

\* No response takes a thread straight into a critical section.
LEMMA ProceedMoves ==
  ASSUME Typed, NEW t \in Threads, pc[t] = "waiting", NEW tok,
         NEW outcome \in {"ok", "invalid", "network", "error"}, Proceed(t, tok, outcome)
  PROVE  Alone(t) /\ ~InCriticalSection(t)' /\ pc'[t] \in {"idle", "save", "forget", "guard", "settle"}
<1>. DEFINE op == job[t].op
            next == CASE outcome = "ok"      -> OnOk[op]
                      [] outcome = "invalid" -> OnInvalid[op]
                      [] OTHER               -> OnFailure[op]
<1>1. /\ job[t] \in Jobs
      /\ op \in Requests
      /\ t \in Workers <=> op = "background"
  BY DEF Typed, TypeOK, Control, ControlOf
<1>2. /\ pc' = [pc EXCEPT ![t] = next]
      /\ job' = [job EXCEPT ![t] = IF next = "idle" THEN NoJob
                                   ELSE [job[t] EXCEPT !.token = tok, !.outcome = outcome]]
  BY DEF Proceed, GoTo
<1>3. Alone(t) /\ pc'[t] = next
  BY <1>2 DEF Alone, Typed, TypeOK
<1>4. next # "idle" => job'[t].outcome = outcome
  BY <1>1, <1>2 DEF Typed, TypeOK, Jobs
<1>5. CASE outcome = "ok"
  BY <1>1, <1>3, <1>5 DEF OnOk, Requests, InCriticalSection
<1>6. CASE outcome = "invalid"
  BY <1>1, <1>3, <1>6 DEF OnInvalid, Requests, InCriticalSection
<1>7. CASE outcome \in {"network", "error"}
  BY <1>1, <1>3, <1>4, <1>7 DEF OnFailure, Requests, InCriticalSection
<1>. QED BY <1>5, <1>6, <1>7

LEMMA NetworkMoves ==
  ASSUME Typed, NEW t \in Threads, Network(t)
  PROVE  /\ Alone(t) /\ pc[t] = "waiting" /\ UNCHANGED <<cache, clock, sdkVars, history>>
         /\ ~InCriticalSection(t)' /\ pc'[t] \in {"idle", "save", "forget", "guard", "settle"}
<1>. /\ pc[t] = "waiting"
     /\ UNCHANGED <<cache, clock, sdkVars, history>>
  BY DEF Network, Refused, Unreachable, Granted
<1>1. CASE Refused(t)
  BY <1>1, ProceedMoves DEF Refused
<1>2. CASE Unreachable(t)
  BY <1>2, ProceedMoves DEF Unreachable
<1>3. CASE Granted(t)
  <2>1. PICK tok : Proceed(t, tok, "ok") \/ Proceed(t, tok, "error")
    BY <1>3 DEF Granted
  <2>. QED BY <2>1, ProceedMoves
<1>. QED BY <1>1, <1>2, <1>3 DEF Network

LEMMA NextExcludes == Typed /\ CacheLockExcludes /\ [Next]_vars => CacheLockExcludes'
<1>. SUFFICES ASSUME Typed, CacheLockExcludes, [Next]_vars PROVE CacheLockExcludes' OBVIOUS
\* A step of t alone from outside to outside.
<1>q. ASSUME NEW t \in Threads, Alone(t), UNCHANGED lock,
             ~InCriticalSection(t), ~InCriticalSection(t)'
      PROVE  CacheLockExcludes'
  BY <1>q, OutsideKept, LockUntouched DEF Alone
<1>1. ASSUME NEW t \in Callers, Call(t) PROVE CacheLockExcludes'
  BY <1>1, CallMoves, <1>q DEF InCriticalSection
<1>2. ASSUME NEW t \in Threads, Network(t) PROVE CacheLockExcludes'
  <2>1. ~InCriticalSection(t)
    BY <1>2, NetworkMoves DEF InCriticalSection
  <2>. QED BY <1>2, <2>1, <1>q, NetworkMoves DEF sdkVars
<1>3. ASSUME NEW t \in Threads, Advance(t) PROVE CacheLockExcludes'
  <2>. ControlOf(t)
    BY DEF Typed, Control
  <2>1. CASE CheckDecide(t) \/ Claim(t) \/ StartThreadFails(t)
    <3>1. Alone(t) /\ ~InCriticalSection(t)' /\ UNCHANGED lock /\ ~InCriticalSection(t)
      BY <2>1, ReturnMoves
      DEF CheckDecide, Claim, StartThreadFails, GoTo, Alone, InCriticalSection,
          Typed, TypeOK, sdkVars
    <3>. QED BY <3>1, <1>q
  <2>2. ASSUME NEW w \in Workers, StartThread(t, w) PROVE CacheLockExcludes'
    <3>1. /\ pc[t] = "starting" /\ pc[w] = "idle" /\ UNCHANGED lock
          /\ pc' = [pc EXCEPT ![t] = "idle", ![w] = "waiting"]
          /\ job' = [job EXCEPT ![t] = NoJob, ![w] = RenewalOf(job[t].token)]
      BY <2>2 DEF StartThread, sdkVars
    <3>2. \A u \in Threads : InCriticalSection(u)' <=> InCriticalSection(u)
      BY <3>1 DEF InCriticalSection, Threads, Typed, TypeOK
    <3>. QED BY <3>1, <3>2, LockUntouched
  <2>3. CASE Guard(t)
    <3>1. t \in Workers /\ job[t].outcome \in {"ok", "invalid"}
      BY <2>3 DEF Guard, ControlOf
    <3>2. CASE CacheHolds(job[t].aid)
      <4>1. /\ MayEnter(t) /\ Hold(t) /\ UNCHANGED job
            /\ GoTo(t, IF job[t].outcome = "ok" THEN "save" ELSE "forget")
        BY <2>3, <3>2 DEF Guard
      <4>. QED BY <3>1, <4>1, GoToMoves, LockTaken DEF InCriticalSection
    <3>3. CASE ~CacheHolds(job[t].aid)
      BY <2>3, <3>3, ReturnMoves, <1>q DEF Guard, InCriticalSection
    <3>. QED BY <3>2, <3>3
  <2>4. CASE Save(t)
    <3>1. /\ pc[t] = "save" /\ UNCHANGED <<lock, job>>
          /\ GoTo(t, IF job[t].op = "activate" THEN "reset" ELSE "settle")
      BY <2>4 DEF Save, sdkVars
    <3>2. /\ job[t].outcome = "ok" /\ job[t].op \in Requests
          /\ t \in Workers <=> job[t].op = "background"
      BY <3>1 DEF ControlOf
    <3>3. /\ Alone(t) /\ job'[t] = job[t]
          /\ pc'[t] = IF job[t].op = "activate" THEN "reset" ELSE "settle"
      BY <3>1, GoToMoves
    <3>4. InCriticalSection(t)' <=> InCriticalSection(t)
      BY <3>1, <3>2, <3>3 DEF InCriticalSection
    <3>. QED BY <3>1, <3>3, <3>4, OutsideKept, LockUntouched DEF Alone
  <2>5. CASE Reset(t) \/ Finish(t)
    <3>1. UNCHANGED lock /\ ~InCriticalSection(t)
      BY <2>5 DEF Reset, Finish, InCriticalSection
    <3>2. Return(t) \/ (GoTo(t, "idle") /\ UNCHANGED job)
      BY <2>5 DEF Reset, Finish
    <3>3. Alone(t) /\ ~InCriticalSection(t)'
      BY <3>2, ReturnMoves, GoToMoves DEF InCriticalSection
    <3>. QED BY <3>1, <3>3, <1>q
  <2>6. CASE Forget(t)
    BY <2>6, GoToMoves, LockTaken DEF Forget, InCriticalSection
  <2>7. CASE Unlink(t)
    <3>1. MayEnter(t) /\ Leave(t)
      BY <2>7, HolderMayEnter DEF Unlink, InCriticalSection
    <3>2. CASE job[t].op = "renew"
      <4>1. GoTo(t, "settle") /\ UNCHANGED job
        BY <2>7, <3>2 DEF Unlink
      <4>2. t \notin Workers
        BY <2>7, <3>2 DEF Unlink, ControlOf
      <4>. QED BY <3>1, <4>1, <4>2, GoToMoves, LockReleased DEF InCriticalSection
    <3>3. CASE job[t].op # "renew"
      BY <2>7, <3>1, <3>3, ReturnMoves, LockReleased DEF Unlink
    <3>. QED BY <3>2, <3>3
  <2>8. CASE Settle(t)
    <3>1. CASE CacheHolds(job[t].aid)
      BY <2>8, <3>1, GoToMoves, LockTaken DEF Settle, InCriticalSection
    <3>2. CASE ~CacheHolds(job[t].aid)
      BY <2>8, <3>2, ReturnMoves, LockReleased DEF Settle
    <3>. QED BY <3>1, <3>2
  <2>9. CASE Flag(t)
    <3>1. MayEnter(t) /\ Leave(t) /\ Return(t)
      BY <2>9, HolderMayEnter DEF Flag, InCriticalSection
    <3>. QED BY <3>1, ReturnMoves, LockReleased
  <2>. QED BY <1>3, <2>1, <2>2, <2>3, <2>4, <2>5, <2>6, <2>7, <2>8, <2>9 DEF Advance
<1>4. CASE Tick \/ StepBack
  BY <1>4 DEF Tick, StepBack, CacheLockExcludes, InCriticalSection, sdkVars
<1>5. ASSUME NEW s \in Sdks, Restart(s) PROVE CacheLockExcludes'
  <2>1. /\ lock' = [lock EXCEPT ![s] = None]
        /\ \A u \in Threads : /\ SdkOf[u] = s => pc'[u] = "idle"
                              /\ SdkOf[u] # s => pc'[u] = pc[u] /\ job'[u] = job[u]
    BY <1>5 DEF Restart
  <2>. SUFFICES ASSUME NEW r \in Sdks, NEW u \in Threads
                PROVE  lock'[r] = u <=> SdkOf[u] = r /\ InCriticalSection(u)'
    BY DEF CacheLockExcludes
  <2>2. CASE SdkOf[u] = s
    <3>1. ~InCriticalSection(u)'
      BY <2>1, <2>2 DEF InCriticalSection
    <3>2. lock'[r] # u
      BY <2>1, <2>2, NoneIsNothing DEF CacheLockExcludes, Typed, TypeOK
    <3>. QED BY <3>1, <3>2
  <2>3. CASE SdkOf[u] # s
    BY <2>1, <2>3, NoneIsNothing, OutsideKept DEF CacheLockExcludes, Typed, TypeOK
  <2>. QED BY <2>2, <2>3
<1>6. CASE UNCHANGED vars
  BY <1>6 DEF vars, CacheLockExcludes, InCriticalSection, sdkVars
<1>. QED BY <1>1, <1>2, <1>3, <1>4, <1>5, <1>6 DEF Next

LEMMA InitExcludes == Init => CacheLockExcludes
BY NoneIsNothing DEF Init, CacheLockExcludes, InCriticalSection

\* _cache_lock excludes, for any number of threads and Sdk objects and whatever
\* fails: between taking and releasing it a thread is its only holder.
THEOREM MutualExclusion == Spec => []CacheLockExcludes
BY InitTyped, NextTyped, InitExcludes, NextExcludes, PTL DEF Spec

-----------------------------------------------------------------------------
(* One background renewal at a time. *)

Renewing(t) == pc[t] = "starting" \/ (t \in Workers /\ pc[t] # "idle")

\* A step that starts no renewal and leaves _renew_in_flight alone.
LEMMA NoneStarted ==
  ASSUME OneRenewalAtATime, UNCHANGED inFlight,
         \A u \in Threads : Renewing(u)' => Renewing(u)
  PROVE  OneRenewalAtATime'
BY DEF OneRenewalAtATime, Renewals, Renewing

LEMMA NextOneRenewal == Typed /\ OneRenewalAtATime /\ [Next]_vars => OneRenewalAtATime'
<1>. SUFFICES ASSUME Typed, OneRenewalAtATime, [Next]_vars PROVE OneRenewalAtATime' OBVIOUS
<1>q. ASSUME NEW t \in Threads, Alone(t), UNCHANGED inFlight, Renewing(t)' => Renewing(t)
      PROVE  OneRenewalAtATime'
  BY <1>q, NoneStarted DEF Alone, Renewing
<1>1. ASSUME NEW t \in Callers, Call(t) PROVE OneRenewalAtATime'
  BY <1>1, CallMoves, <1>q DEF Renewing
<1>2. ASSUME NEW t \in Threads, Network(t) PROVE OneRenewalAtATime'
  <2>1. Renewing(t)' => Renewing(t)
    BY <1>2, NetworkMoves DEF Renewing
  <2>. QED BY <1>2, <2>1, <1>q, NetworkMoves DEF sdkVars
<1>3. ASSUME NEW t \in Threads, Advance(t) PROVE OneRenewalAtATime'
  <2>. SdkOf[t] \in Sdks /\ ControlOf(t)
    BY SdkAssumption DEF SdkAssumption, Typed, Control
  <2>1. CASE CheckDecide(t)
    <3>1. Alone(t) /\ pc[t] = "loaded" /\ t \notin Workers /\ pc'[t] # "starting"
      BY <2>1, ReturnMoves, SdkAssumption
      DEF SdkAssumption, CheckDecide, GoTo, Alone, Typed, TypeOK, ControlOf
    <3>. QED BY <2>1, <3>1, <1>q DEF CheckDecide, Renewing, sdkVars
  <2>2. CASE Claim(t)
    <3>1. pc[t] = "due" /\ t \notin Workers
      BY <2>2, SdkAssumption DEF SdkAssumption, Claim, ControlOf
    <3>2. CASE MustWait(t)
      BY <2>2, <3>1, <3>2, ReturnMoves, <1>q DEF Claim, Renewing
    <3>3. CASE ~MustWait(t)
      <4>1. /\ GoTo(t, "starting") /\ UNCHANGED job
            /\ inFlight' = [inFlight EXCEPT ![SdkOf[t]] = TRUE]
            /\ ~inFlight[SdkOf[t]]
        BY <2>2, <3>3 DEF Claim, MustWait
      <4>2. Alone(t) /\ pc'[t] = "starting"
        BY <4>1, GoToMoves
      <4>3. Renewals(SdkOf[t]) = {}
        BY <4>1 DEF OneRenewalAtATime
      <4>4. /\ Renewals(SdkOf[t])' = {t}
            /\ inFlight'[SdkOf[t]]
            /\ \A s \in Sdks \ {SdkOf[t]} :
                 Renewals(s)' = Renewals(s) /\ inFlight'[s] = inFlight[s]
        BY <4>1, <4>2, <4>3 DEF Renewals, Alone, Typed, TypeOK
      <4>. QED BY <4>4 DEF OneRenewalAtATime
    <3>. QED BY <3>2, <3>3
  <2>3. CASE StartThreadFails(t)
    BY <2>3, ReturnMoves, <1>q DEF StartThreadFails, Renewing, sdkVars
  <2>4. ASSUME NEW w \in Workers, StartThread(t, w) PROVE OneRenewalAtATime'
    <3>. w \in Threads
      BY DEF Threads
    <3>1. /\ pc[t] = "starting" /\ pc[w] = "idle" /\ SdkOf[w] = SdkOf[t]
          /\ pc' = [pc EXCEPT ![t] = "idle", ![w] = "waiting"]
          /\ UNCHANGED inFlight
      BY <2>4 DEF StartThread, sdkVars
    <3>2. t \in Renewals(SdkOf[t])
      BY <3>1 DEF Renewals
    <3>3. Renewals(SdkOf[t]) = {t} /\ inFlight[SdkOf[t]]
      BY <3>2 DEF OneRenewalAtATime
    <3>4. /\ Renewals(SdkOf[t])' = {w}
          /\ \A s \in Sdks \ {SdkOf[t]} : Renewals(s)' = Renewals(s)
      BY <3>1, <3>3 DEF Renewals, Typed, TypeOK
    <3>. QED BY <3>1, <3>3, <3>4 DEF OneRenewalAtATime
  <2>5. CASE Guard(t) \/ Save(t) \/ Reset(t) \/ Forget(t) \/ Unlink(t) \/ Settle(t) \/ Flag(t)
    <3>1. /\ UNCHANGED inFlight
          /\ pc[t] \in {"guard", "save", "reset", "forget", "unlink", "settle", "flag"}
          /\ \/ Return(t)
             \/ \E label \in {"save", "forget", "reset", "settle", "unlink", "flag"} :
                  GoTo(t, label) /\ UNCHANGED job
      BY <2>5 DEF Guard, Save, Reset, Forget, Unlink, Settle, Flag, sdkVars
    <3>2. Alone(t) /\ pc'[t] # "starting"
      BY <3>1, ReturnMoves, GoToMoves
    <3>. QED BY <3>1, <3>2, <1>q DEF Renewing
  <2>6. CASE Finish(t)
    <3>1. /\ pc[t] = "finish" /\ t \in Workers
          /\ inFlight' = [inFlight EXCEPT ![SdkOf[t]] = FALSE]
      BY <2>6 DEF Finish, ControlOf
    <3>2. Alone(t) /\ pc'[t] = "idle"
      BY <2>6, GoToMoves DEF Finish
    <3>3. Renewals(SdkOf[t]) \subseteq {t}
      BY <3>1 DEF OneRenewalAtATime, Renewals
    <3>4. Renewals(SdkOf[t])' = {}
      BY <3>2, <3>3 DEF Renewals, Alone
    <3>5. \A s \in Sdks \ {SdkOf[t]} : Renewals(s)' = Renewals(s)
      BY <3>2 DEF Renewals, Alone
    <3>6. \A s \in Sdks \ {SdkOf[t]} : inFlight'[s] = inFlight[s]
      BY <3>1 DEF Typed, TypeOK
    <3>. QED BY <3>4, <3>5, <3>6 DEF OneRenewalAtATime
  <2>. QED BY <1>3, <2>1, <2>2, <2>3, <2>4, <2>5, <2>6 DEF Advance
<1>4. CASE Tick \/ StepBack
  BY <1>4 DEF Tick, StepBack, OneRenewalAtATime, Renewals, sdkVars
<1>5. ASSUME NEW s \in Sdks, Restart(s) PROVE OneRenewalAtATime'
  <2>1. /\ Renewals(s)' = {}
        /\ \A r \in Sdks \ {s} : Renewals(r)' = Renewals(r) /\ inFlight'[r] = inFlight[r]
    BY <1>5 DEF Restart, Renewals, Typed, TypeOK
  <2>. QED BY <2>1 DEF OneRenewalAtATime
<1>6. CASE UNCHANGED vars
  BY <1>6 DEF vars, OneRenewalAtATime, Renewals, sdkVars
<1>. QED BY <1>1, <1>2, <1>3, <1>4, <1>5, <1>6 DEF Next

LEMMA InitOneRenewal == Init => OneRenewalAtATime
BY DEF Init, OneRenewalAtATime, Renewals

\* At most one background renewal of an Sdk runs at any time, with any number of
\* threads calling check, and _renew_in_flight is set while it does.
THEOREM SingleRenewal == Spec => []OneRenewalAtATime
BY InitTyped, NextTyped, InitOneRenewal, NextOneRenewal, PTL DEF Spec

-----------------------------------------------------------------------------
(* Who changes the file, and why. *)

\* Only _save_to_cache and _clear_cache change the file, under the lock.
LEMMA CacheWriters ==
  ASSUME Typed, CacheLockExcludes, [Next]_vars, cache' # cache
  PROVE  \E t \in Threads : MayEnter(t) /\ (Save(t) \/ Unlink(t))
<1>1. PICK t \in Threads : Save(t) \/ Unlink(t)
  BY DEF Next, Call, Advance, Network, vars, CheckLoad, Activate, Renew, Deactivate,
         CheckDecide, Claim, StartThread, StartThreadFails, Refused, Unreachable, Granted,
         Guard, Reset, Forget, Settle, Flag, Finish, Tick, StepBack, Restart
<1>2. Unlink(t) => MayEnter(t)
  BY HolderMayEnter DEF Unlink, InCriticalSection
<1>. QED BY <1>1, <1>2 DEF Save

\* The cached file is deleted only after an answer of the server that says the
\* activation is gone or released, by the thread that holds the lock.
THEOREM DropNeedsVerdict == Spec => DroppedOnlyOnVerdict
<1>. DEFINE Verdict ==
       cache # None /\ cache' = None
         => \E t \in Threads :
              /\ lock[SdkOf[t]] = t
              /\ \/ job[t].op = "deactivate" /\ job[t].outcome = "ok"
                 \/ job[t].op # "deactivate" /\ job[t].outcome = "invalid"
<1>1. Typed /\ CacheLockExcludes /\ [Next]_vars => [Verdict]_cache
  <2>. SUFFICES ASSUME Typed, CacheLockExcludes, [Next]_vars, cache' # cache, cache' = None
                PROVE  Verdict
    OBVIOUS
  <2>1. PICK t \in Threads : Save(t) \/ Unlink(t)
    BY CacheWriters
  <2>2. ControlOf(t) /\ SdkOf[t] \in Sdks
    BY SdkAssumption DEF SdkAssumption, Typed, Control
  <2>3. ~Save(t)
    BY <2>2, NoneIsNothing DEF Save, ControlOf
  <2>4. pc[t] = "unlink"
    BY <2>1, <2>3 DEF Unlink
  <2>5. lock[SdkOf[t]] = t
    BY <2>2, <2>4 DEF CacheLockExcludes, InCriticalSection
  <2>. QED BY <2>2, <2>4, <2>5 DEF ControlOf
<1>. HIDE DEF Verdict
<1>2. Spec => [][Verdict]_cache
  BY <1>1, InitTyped, NextTyped, InitExcludes, NextExcludes, PTL DEF Spec
<1>. QED BY <1>2 DEF DroppedOnlyOnVerdict, Verdict

\* Whatever the server sends, the file holds what it held at the start or a token
\* that verified and validated for this machine.
THEOREM OnlySoundSaved == Spec => []OnlySoundTokensSaved
<1>1. Init => OnlySoundTokensSaved
  BY DEF Init, OnlySoundTokensSaved
<1>2. Typed /\ CacheLockExcludes /\ OnlySoundTokensSaved /\ [Next]_vars => OnlySoundTokensSaved'
  <2>. SUFFICES ASSUME Typed, CacheLockExcludes, OnlySoundTokensSaved, [Next]_vars,
                       cache' # cache
                PROVE  OnlySoundTokensSaved'
    BY DEF OnlySoundTokensSaved
  <2>1. PICK t \in Threads : Save(t) \/ Unlink(t)
    BY CacheWriters
  <2>2. ControlOf(t)
    BY DEF Typed, Control
  <2>3. CASE Save(t)
    BY <2>2, <2>3 DEF Save, ControlOf, OnlySoundTokensSaved
  <2>4. CASE Unlink(t)
    BY <2>4 DEF Unlink, OnlySoundTokensSaved
  <2>. QED BY <2>1, <2>3, <2>4
<1>. QED BY <1>1, <1>2, InitTyped, NextTyped, InitExcludes, NextExcludes, PTL DEF Spec

-----------------------------------------------------------------------------
(* The check-then-write, for one Sdk object. *)

\* What a step of the system does to one thread: nothing, a step of its own, the
\* start of a background thread, or the end of its process.
LEMMA Moves ==
  ASSUME Typed, [Next]_vars, NEW u \in Threads
  PROVE  \/ pc'[u] = pc[u] /\ job'[u] = job[u]
         \/ u \in Callers /\ Call(u)
         \/ Advance(u)
         \/ Network(u)
         \/ u \in Workers /\ pc'[u] = "waiting" /\ cache' = cache
         \/ pc'[u] = "idle" /\ \E s \in Sdks : Restart(s)
<1>. DEFINE Same == pc'[u] = pc[u] /\ job'[u] = job[u]
<1>1. ASSUME NEW t \in Callers, Call(t), t # u PROVE Same
  BY <1>1, CallMoves DEF Alone
<1>2. ASSUME NEW t \in Threads, Network(t), t # u PROVE Same
  BY <1>2, NetworkMoves DEF Alone
<1>3. ASSUME NEW t \in Threads, Advance(t), t # u
      PROVE  Same \/ (u \in Workers /\ pc'[u] = "waiting" /\ cache' = cache)
  <2>1. CASE \/ CheckDecide(t) \/ Claim(t) \/ StartThreadFails(t)
             \/ Guard(t) \/ Save(t) \/ Reset(t) \/ Forget(t) \/ Unlink(t)
             \/ Settle(t) \/ Flag(t) \/ Finish(t)
    <3>1. Return(t) \/ (\E label : GoTo(t, label) /\ UNCHANGED job)
                    \/ (GoTo(t, "due") /\ job' = [job EXCEPT ![t].stamp = clock])
      BY <2>1 DEF CheckDecide, Claim, StartThreadFails, Guard, Save, Reset, Forget, Unlink,
                  Settle, Flag, Finish
    <3>2. CASE Return(t)
      BY <1>3, <3>2, ReturnMoves DEF Alone
    <3>3. CASE \E label : GoTo(t, label) /\ UNCHANGED job
      BY <1>3, <3>3, GoToMoves DEF Alone
    <3>4. CASE GoTo(t, "due") /\ job' = [job EXCEPT ![t].stamp = clock]
      BY <1>3, <3>4 DEF GoTo, Typed, TypeOK
    <3>. QED BY <3>1, <3>2, <3>3, <3>4
  <2>2. ASSUME NEW w \in Workers, StartThread(t, w)
        PROVE  Same \/ (u \in Workers /\ pc'[u] = "waiting" /\ cache' = cache)
    BY <1>3, <2>2 DEF StartThread, Typed, TypeOK
  <2>. QED BY <1>3, <2>1, <2>2 DEF Advance
<1>4. CASE Tick \/ StepBack \/ UNCHANGED vars
  BY <1>4 DEF Tick, StepBack, vars
<1>5. ASSUME NEW s \in Sdks, Restart(s)
      PROVE  Same \/ pc'[u] = "idle"
  BY <1>5 DEF Restart
<1>. QED BY <1>1, <1>2, <1>3, <1>4, <1>5 DEF Next, Threads

\* A clock that is not set back goes on.
LEMMA OnlyForward ==
  ASSUME ClockMayStepBack = FALSE, Typed, [Next]_vars
  PROVE  clock' \in Nat /\ clock <= clock'
<1>. clock \in Nat
  BY DEF Typed, TypeOK
<1>1. ASSUME NEW t \in Callers, Call(t) PROVE clock' = clock
  BY <1>1, CallMoves
<1>2. ASSUME NEW t \in Threads, Network(t) PROVE clock' = clock
  BY <1>2, NetworkMoves
<1>3. ASSUME NEW t \in Threads, Advance(t) PROVE clock' = clock
  BY <1>3 DEF Advance, CheckDecide, Claim, StartThread, StartThreadFails, Guard, Save, Reset,
              Forget, Unlink, Settle, Flag, Finish
<1>4. CASE Tick
  BY <1>4 DEF Tick
<1>5. ASSUME NEW s \in Sdks, Restart(s) PROVE clock' = clock
  BY <1>5 DEF Restart
<1>6. ~StepBack
  BY DEF StepBack
<1>7. UNCHANGED vars => clock' = clock
  BY DEF vars
<1>. QED BY <1>1, <1>2, <1>3, <1>4, <1>5, <1>6, <1>7 DEF Next

\* t has checked what the file holds and is about to act on it.
Relying(t) == pc[t] = "flag" \/ (t \in Workers /\ pc[t] \in {"save", "forget", "unlink"})

Holding(t) == cache # None /\ cache.aid = job[t].aid /\ cache.sort # "forged"

LEMMA HeldIsSigned ==
  ASSUME Typed, NEW a, CacheHolds(a)
  PROVE  cache # None /\ cache.aid = a /\ cache.sort # "forged"
<1>1. VerifyActivationAt(EntryOf(cache), clock, TRUE) = "Ok" /\ cache # None /\ cache.aid = a
  BY Zenon DEF CacheHolds
<1>2. cache.sort # "forged"
  BY <1>1 DEF VerifyActivationAt, EntryOf, ParseAndVerify
<1>. QED BY <1>1, <1>2

\* A thread gets to where it relies on the file by looking at it.
LEMMA EntersRelying ==
  ASSUME Typed, [Next]_vars, NEW u \in Threads, Relying(u)',
         ~(pc'[u] = pc[u] /\ job'[u] = job[u])
  PROVE  /\ cache' = cache /\ job'[u] = job[u]
         /\ CacheHolds(job[u].aid) \/ Relying(u)
<1>. ControlOf(u)
  BY DEF Typed, Control
<1>1. ~(u \in Callers /\ Call(u))
  BY CallMoves DEF Relying
<1>2. ~Network(u)
  <2>. SUFFICES ASSUME Network(u) PROVE FALSE OBVIOUS
  <2>1. ~InCriticalSection(u)'
    BY NetworkMoves
  <2>. QED BY <2>1 DEF Relying, InCriticalSection
<1>3. Advance(u)
  BY <1>1, <1>2, Moves DEF Relying
<1>4. CASE CheckDecide(u) \/ Claim(u) \/ StartThreadFails(u)
  BY <1>4, ReturnMoves
  DEF CheckDecide, Claim, StartThreadFails, GoTo, Relying, Typed, TypeOK
<1>5. ASSUME NEW w \in Workers, StartThread(u, w) PROVE FALSE
  BY <1>5 DEF StartThread, Relying, Typed, TypeOK
<1>6. CASE Guard(u)
  BY <1>6, ReturnMoves, GoToMoves DEF Guard, Relying
<1>7. CASE Save(u) \/ Reset(u) \/ Flag(u) \/ Finish(u)
  <2>1. \/ Return(u)
        \/ \E label \in {"reset", "settle", "idle"} : GoTo(u, label) /\ UNCHANGED job
    BY <1>7 DEF Save, Reset, Flag, Finish
  <2>. QED BY <2>1, ReturnMoves, GoToMoves DEF Relying
<1>8. CASE Forget(u)
  BY <1>8, GoToMoves DEF Forget, Relying
<1>9. CASE Unlink(u)
  BY <1>9, ReturnMoves, GoToMoves DEF Unlink, Relying
<1>10. CASE Settle(u)
  BY <1>10, ReturnMoves, GoToMoves DEF Settle, Relying
<1>. QED BY <1>3, <1>4, <1>5, <1>6, <1>7, <1>8, <1>9, <1>10 DEF Advance

\* With one Sdk, whoever relies on the file holds the one lock there is.
LEMMA OneWriter ==
  ASSUME NEW s, Sdks = {s}, Typed, CacheLockExcludes, [Next]_vars, cache' # cache,
         NEW u \in Threads, InCriticalSection(u)
  PROVE  Save(u) \/ Unlink(u)
<1>1. PICK t \in Threads : MayEnter(t) /\ (Save(t) \/ Unlink(t))
  BY CacheWriters
<1>2. lock[s] = u /\ SdkOf[t] = s
  BY SdkAssumption DEF SdkAssumption, CacheLockExcludes
<1>3. u = t
  BY <1>1, <1>2, NoneIsNothing DEF MayEnter
<1>. QED BY <1>1, <1>3

LEMMA NextChecked ==
  ASSUME NEW s, Sdks = {s}, Typed, CacheLockExcludes, CheckedStaysTrue, [Next]_vars
  PROVE  CheckedStaysTrue'
<1>. SUFFICES ASSUME NEW u \in Threads, Relying(u)' PROVE Holding(u)'
  BY DEF CheckedStaysTrue, Relying, Holding
<1>0. Relying(u) => Holding(u) /\ InCriticalSection(u)
  BY DEF CheckedStaysTrue, Relying, Holding, InCriticalSection
<1>1. CASE pc'[u] = pc[u] /\ job'[u] = job[u]
  <2>1. Relying(u)
    BY <1>1 DEF Relying
  <2>2. ~Save(u) /\ ~Unlink(u)
    BY <1>1 DEF Save, Unlink, GoTo, Return, Typed, TypeOK
  <2>3. cache' = cache
    BY <1>0, <2>1, <2>2, OneWriter
  <2>. QED BY <1>0, <1>1, <2>1, <2>3 DEF Holding
<1>2. CASE ~(pc'[u] = pc[u] /\ job'[u] = job[u])
  BY <1>0, <1>2, EntersRelying, HeldIsSigned DEF Holding
<1>. QED BY <1>1, <1>2

LEMMA InitChecked == Init => CheckedStaysTrue
BY DEF Init, CheckedStaysTrue

\* http.py:180-181 for one Sdk object: a background renewal's check-then-write is
\* atomic against deactivate, renew and activate of any number of threads.
THEOREM CheckThenWrite ==
  ASSUME NEW s, Sdks = {s}
  PROVE  Spec => []CheckedStaysTrue
BY InitTyped, NextTyped, InitExcludes, NextExcludes, InitChecked, NextChecked, PTL DEF Spec

-----------------------------------------------------------------------------
(* deactivate is not undone, for one Sdk whose application leaves renewing to *)
(* check, on a file system that does what it is told.                         *)

\* A call keeps its operation until it ends.
LEMMA OperationKept ==
  ASSUME Typed, NEW u \in Threads, Advance(u) \/ Network(u)
  PROVE  job'[u].op \in {job[u].op, "none"}
<1>. job[u] \in Jobs /\ NoJob.op = "none"
  BY DEF Typed, TypeOK, NoJob
<1>1. CASE Network(u)
  <2>1. ASSUME NEW tok, NEW outcome, Proceed(u, tok, outcome)
        PROVE  job'[u].op \in {job[u].op, "none"}
    <3>. DEFINE j == [job[u] EXCEPT !.token = tok, !.outcome = outcome]
    <3>1. job'[u] = NoJob \/ job'[u] = j
      BY <2>1 DEF Proceed, Typed, TypeOK
    <3>2. j.op = job[u].op
      BY DEF Jobs
    <3>. QED BY <3>1, <3>2
  <2>2. CASE Refused(u) \/ Unreachable(u)
    BY <2>1, <2>2 DEF Refused, Unreachable
  <2>3. CASE Granted(u)
    <3>1. PICK tok : Proceed(u, tok, "ok") \/ Proceed(u, tok, "error")
      BY <2>3 DEF Granted
    <3>. QED BY <2>1, <3>1
  <2>. QED BY <1>1, <2>2, <2>3 DEF Network
<1>2. CASE Advance(u)
  <2>1. \/ Return(u) \/ UNCHANGED job
        \/ job' = [job EXCEPT ![u].stamp = clock]
        \/ \E w \in Workers : StartThread(u, w)
    BY <1>2 DEF Advance, CheckDecide, Claim, StartThreadFails, Guard, Save, Reset, Forget,
                Unlink, Settle, Flag, Finish
  <2>2. CASE Return(u)
    BY <2>2 DEF Return, Typed, TypeOK
  <2>3. CASE job' = [job EXCEPT ![u].stamp = clock]
    BY <2>3 DEF Typed, TypeOK, Jobs
  <2>4. ASSUME NEW w \in Workers, StartThread(u, w)
        PROVE  job'[u].op \in {job[u].op, "none"}
    <3>. w \in Threads /\ w # u
      BY <2>4 DEF StartThread, Threads
    <3>. QED BY <2>4 DEF StartThread, Typed, TypeOK
  <2>. QED BY <2>1, <2>2, <2>3, <2>4
<1>. QED BY <1>1, <1>2

NoManualRenew == \A t \in Callers : job[t].op # "renew"

LEMMA NextNoManualRenew ==
  ASSUME "renew" \notin Calls, Typed, NoManualRenew, [Next]_vars
  PROVE  NoManualRenew'
<1>. SUFFICES ASSUME NEW u \in Callers PROVE job'[u].op # "renew"
  BY DEF NoManualRenew
<1>. u \in Threads /\ u \notin Workers /\ job[u].op # "renew"
  BY SdkAssumption DEF SdkAssumption, Threads, NoManualRenew
<1>1. CASE Call(u)
  <2>1. job'[u].op \in {"check", "activate", "deactivate"}
    BY <1>1, NoJobIsJob
    DEF Call, CheckLoad, Activate, Renew, Deactivate, Request, Typed, TypeOK, NoJob
  <2>. QED BY <2>1
<1>2. CASE Advance(u) \/ Network(u)
  BY <1>2, OperationKept
<1>3. ASSUME NEW s \in Sdks, Restart(s) PROVE job'[u].op # "renew"
  BY <1>3 DEF Restart, NoJob
<1>. QED BY <1>1, <1>2, <1>3, Moves

LEMMA NextReleased ==
  ASSUME NEW s, Sdks = {s}, "renew" \notin Calls, IoMayFail = FALSE,
         Typed, CacheLockExcludes, CheckedStaysTrue, NoManualRenew, ReleasedNotCached,
         [Next]_vars
  PROVE  ReleasedNotCached'
<1>1. CASE \E t \in Threads : Save(t)
  <2>1. PICK t \in Threads : Save(t)
    BY <1>1
  <2>2. /\ ControlOf(t)
        /\ cache' = job[t].token
        /\ released' = IF job[t].op = "activate" THEN released \ {job[t].token.aid}
                       ELSE released
    BY <2>1 DEF Save, Typed, Control
  <2>3. CASE job[t].op = "activate"
    BY <2>2, <2>3 DEF ReleasedNotCached
  <2>4. CASE job[t].op # "activate"
    <3>1. t \in Workers /\ job[t].token.aid = job[t].aid
      BY <2>1, <2>2, <2>4 DEF Save, ControlOf, NoManualRenew, Threads, Requests
    <3>2. cache # None /\ cache.aid = job[t].aid
      BY <2>1, <3>1 DEF Save, CheckedStaysTrue
    <3>. QED BY <2>2, <2>4, <3>1, <3>2 DEF ReleasedNotCached
  <2>. QED BY <2>3, <2>4
<1>2. CASE \E t \in Threads : Unlink(t)
  BY <1>2 DEF Unlink, ReleasedNotCached
<1>3. CASE ~(\E t \in Threads : Save(t) \/ Unlink(t))
  <2>1. cache' = cache
    BY <1>3, CacheWriters
  <2>2. released' = released
    BY <1>3, CallMoves, NetworkMoves
    DEF Next, Advance, vars, history, CheckDecide, Claim, StartThread, StartThreadFails,
        Guard, Reset, Forget, Settle, Flag, Finish, Tick, StepBack, Restart
  <2>. QED BY <2>1, <2>2 DEF ReleasedNotCached
<1>. QED BY <1>1, <1>2, <1>3

\* http.py:288: what deactivate has reported released does not come back into the
\* file before the next activate, with any number of checks and background
\* renewals under way, and whenever the process dies.
THEOREM DeactivateStands ==
  ASSUME NEW s, Sdks = {s}, "renew" \notin Calls, IoMayFail = FALSE
  PROVE  Spec => []ReleasedNotCached
<1>1. Init => NoManualRenew /\ ReleasedNotCached
  BY DEF Init, NoManualRenew, ReleasedNotCached, NoJob, Threads
<1>. QED
  BY <1>1, InitTyped, NextTyped, InitExcludes, NextExcludes, InitChecked, NextChecked,
     NextNoManualRenew, NextReleased, PTL DEF Spec
=============================================================================

-------------------------------- MODULE Sdk --------------------------------
(***************************************************************************)
(* latte.http.Sdk: several application threads call activate, renew,       *)
(* deactivate and check on one Sdk object, check starts background renewal *)
(* threads, and all of them share one cache file, perhaps with the Sdk of  *)
(* another process.  The license server, the clock and the file system are *)
(* modelled as the code sees them.                                         *)
(*                                                                         *)
(* Steps.  A thread's local work is one step with the access to shared     *)
(* state it leads up to.  Every access to the cache file, every critical   *)
(* section of _renew_lock and every network call is a step of its own.     *)
(* _cache_lock is held across steps: taking it is one step with the first  *)
(* action it protects, releasing it one with the last.  A response is      *)
(* verified in the step it arrives in: its flight time is far below the    *)
(* unit of the clock.                                                      *)
(***************************************************************************)
EXTENDS LicenseCheck

CONSTANTS
  Sdks,           \* the Sdk objects sharing the cache file
  Callers,        \* application threads
  Workers,        \* identities for background renewal threads
  SdkOf,          \* the Sdk a thread belongs to
  Activations,    \* activation ids
  Keys,           \* license keys, normalized
  KeyOf,          \* the key an activation was made with
  LicenseEnd,     \* the end date of an activation's license
  Machine,        \* this machine's derived ID
  Grace,          \* the grace window the server signs into tokens
  ChainLife,      \* how long the certs above the daily one last
  MinInterval,    \* _MIN_RENEW_INTERVAL_SECS, five minutes
  Start,          \* the time at which the model starts
  MaxClock,       \* bound on the clock, for TLC
  None,           \* no file, no token, no activation, no key, no thread
  InitialFiles,   \* what the cache file may hold at the start
  Calls,          \* the calls the application makes
  Forgeries,      \* sorts of unusable token the server may send by mistake
  IoMayFail,      \* the file system may raise OSError
  StartMayFail,   \* Thread.start may raise RuntimeError
  CrashMay,       \* a process may die and start again
  ClockMayStepBack  \* the system's clock may be set back

Threads == Callers \cup Workers

\* A token: whose activation, when issued, and whether it is what the server
\* signs for this machine, for another one, or something that does not verify.
Tokens == [aid : Activations, iat : Nat, sort : {"sound", "foreign", "forged"}]

ASSUME SdkAssumption ==
  /\ Callers \cap Workers = {}
  /\ SdkOf \in [Threads -> Sdks]
  /\ KeyOf \in [Activations -> Keys]
  /\ LicenseEnd \in [Activations -> Nat]
  /\ Machine \in STRING \ {"elsewhere"}
  /\ Grace \in Nat /\ ChainLife \in Nat
  /\ MinInterval \in Nat \ {0} /\ Start \in Nat /\ MinInterval <= Start
  /\ MaxClock \in Nat
  /\ None \notin Tokens \cup Threads \cup Activations \cup Keys
  /\ InitialFiles \subseteq Tokens \cup {None}
  /\ Calls \subseteq {"activate", "renew", "deactivate", "check"}
  /\ Forgeries \subseteq {"foreign", "forged"}
  /\ {IoMayFail, StartMayFail, CrashMay, ClockMayStepBack} \subseteq BOOLEAN

\* The signed entry a token stands for, as the server issues it.
EntryOf(tok) ==
  LET Link(signer, key, exp) ==
        [ form |-> "good", signedBy |-> signer, iss |-> Issuer, iat |-> tok.iat,
          nbf |-> Absent, exp |-> exp, carries |-> key, pid |-> Absent ]
  IN  [ submaster |-> Link(MasterKeys[1], "submaster", tok.iat + ChainLife),
        project   |-> Link("submaster", "project", tok.iat + ChainLife),
        daily     |-> Link("project", "daily", tok.iat + 1),
        token     |->
          [ form |-> "good",
            signedBy   |-> IF tok.sort = "forged" THEN "unknown" ELSE "daily",
            iss        |-> Issuer,
            sub |-> KeyOf[tok.aid], alias |-> "", aid |-> tok.aid, pid |-> "project",
            mid |-> IF tok.sort = "foreign" THEN "elsewhere" ELSE Machine,
            iat |-> tok.iat, exp |-> LicenseEnd[tok.aid], grc |-> Grace, lex |-> Absent,
            ent |-> Absent ] ]

-----------------------------------------------------------------------------
VARIABLES
  cache,          \* the cache file: a token (with its chain), or None
  clock,          \* time.time()
  lock,           \* lock[s]: the thread holding _cache_lock, or None
  inFlight,       \* _renew_in_flight
  lastAttempt,    \* _last_renew_attempt
  renewalFailed,  \* _renewal_failed
  pc,             \* what each thread does next
  job,            \* each thread's arguments and locals
  released,       \* history: activations deactivate has reported released,
                  \*   and that have not been activated again
  blamed          \* history: the activation whose renewal set renewalFailed

sdkVars == <<lock, inFlight, lastAttempt, renewalFailed>>
history == <<released, blamed>>
vars == <<cache, clock, sdkVars, pc, job, history>>

Ops == {"none", "check", "activate", "renew", "deactivate", "background"}

\* ok: a 2xx the call can use.  invalid: an _INVALIDATING_ERRORS status.
\* network: no response.  error: every other one.
Outcomes == {"none", "ok", "invalid", "network", "error"}

Jobs == [ op : Ops, aid : Activations \cup {None}, key : Keys \cup {None},
          token : Tokens \cup {None}, stamp : Nat, outcome : Outcomes ]

NoJob == [ op |-> "none", aid |-> None, key |-> None,
           token |-> None, stamp |-> 0, outcome |-> "none" ]

PCs == { "idle", "loaded", "due", "starting", "waiting", "guard", "save",
         "reset", "forget", "unlink", "settle", "flag", "finish" }

TypeOK ==
  /\ cache \in Tokens \cup {None}
  /\ clock \in Nat
  /\ lock \in [Sdks -> Threads \cup {None}]
  /\ inFlight \in [Sdks -> BOOLEAN]
  /\ lastAttempt \in [Sdks -> Nat]
  /\ renewalFailed \in [Sdks -> BOOLEAN]
  /\ pc \in [Threads -> PCs]
  /\ job \in [Threads -> Jobs]
  /\ released \subseteq Activations
  /\ blamed \in [Sdks -> Activations \cup {None}]

Init ==
  /\ cache \in InitialFiles
  /\ clock = Start
  /\ lock = [s \in Sdks |-> None]
  /\ inFlight = [s \in Sdks |-> FALSE]
  /\ lastAttempt = [s \in Sdks |-> 0]
  /\ renewalFailed = [s \in Sdks |-> FALSE]
  /\ pc = [t \in Threads |-> "idle"]
  /\ job = [t \in Threads |-> NoJob]
  /\ released = {}
  /\ blamed = [s \in Sdks |-> None]

-----------------------------------------------------------------------------
(* Helpers *)

GoTo(t, label) == pc' = [pc EXCEPT ![t] = label]

\* Mutant: a return that skips the finally clause.
ReturnAtOnce(t) == GoTo(t, "idle") /\ job' = [job EXCEPT ![t] = NoJob]

\* The call returns or raises; a background thread comes to its finally clause.
Return(t) ==
  /\ GoTo(t, IF t \in Workers THEN "finish" ELSE "idle")
  /\ job' = [job EXCEPT ![t] = NoJob]

\* Mutants: no lock at all, and a Lock in place of the RLock.
MayAlwaysEnter(t)  == TRUE
MayEnterOnce(t)    == lock[SdkOf[t]] = None

\* _cache_lock is an RLock: its holder may take it again.
MayEnter(t) == lock[SdkOf[t]] \in {None, t}

Hold(t)  == lock' = [lock EXCEPT ![SdkOf[t]] = t]
Leave(t) == lock' = [lock EXCEPT ![SdkOf[t]] = None]

\* Mutant: the file is not looked at again.
CacheHoldsUnasked(a) == TRUE

\* _cache_holds: a signed token for a, even one whose certs have expired.  (The
\* quantifier binds the entry where TLC, under ENABLED, builds a LET's anew at each use.)
CacheHolds(a) ==
  /\ cache # None
  /\ cache.aid = a
  /\ \E entry \in {EntryOf(cache)} : VerifyActivationAt(entry, clock, TRUE) = "Ok"

SetFailed(t, failed) ==
  /\ renewalFailed' = [renewalFailed EXCEPT ![SdkOf[t]] = failed]
  /\ blamed' = [blamed EXCEPT ![SdkOf[t]] = IF failed THEN job[t].aid ELSE None]

-----------------------------------------------------------------------------
(* check *)

\* check reads the file.  With no file it raises, which changes nothing.
CheckLoad(t) ==
  /\ pc[t] = "idle" /\ "check" \in Calls
  /\ cache # None
  /\ GoTo(t, "loaded")
  /\ job' = [job EXCEPT ![t] = [NoJob EXCEPT !.op = "check", !.token = cache]]
  /\ UNCHANGED <<cache, clock, sdkVars, history>>

\* It reads the clock and the flag, and verifies what it read.  A token that is
\* due for renewal takes the thread on to _renew_in_background, whether check is
\* about to return the license or to raise because it has lapsed.
CheckDecide(t) ==
  /\ pc[t] = "loaded"
  /\ IF \E entry \in {EntryOf(job[t].token)} : StartsRenewal(entry, Machine, clock)
     THEN /\ GoTo(t, "due")
          /\ job' = [job EXCEPT ![t].stamp = clock]
     ELSE Return(t)
  /\ UNCHANGED <<cache, clock, sdkVars, history>>

\* Mutants: one half of the test each.
MustWaitForInterval(t) == job[t].stamp - lastAttempt[SdkOf[t]] < MinInterval
MustWaitForRenewal(t)  == inFlight[SdkOf[t]]

\* A renewal is running, or the last attempt was too short a time ago.
MustWait(t) ==
  LET s == SdkOf[t]
  IN  inFlight[s] \/ job[t].stamp - lastAttempt[s] < MinInterval

\* The critical section of _renew_in_background, with the time check read.
Claim(t) ==
  LET s == SdkOf[t]
  IN  /\ pc[t] = "due"
      /\ IF MustWait(t)
         THEN Return(t) /\ UNCHANGED <<inFlight, lastAttempt>>
         ELSE /\ GoTo(t, "starting")
              /\ inFlight' = [inFlight EXCEPT ![s] = TRUE]
              /\ lastAttempt' = [lastAttempt EXCEPT ![s] = job[t].stamp]
              /\ UNCHANGED job
      /\ UNCHANGED <<cache, clock, lock, renewalFailed, history>>

\* Mutant: the thread's two arguments swapped.
RenewalOfSwapped(tok) == [NoJob EXCEPT !.op = "background", !.aid = KeyOf[tok.aid]]

RenewalOf(tok) == [NoJob EXCEPT !.op = "background", !.aid = tok.aid]

\* Mutant: the target is called where it ought to be passed.
RunInline(t, w) ==
  /\ pc[t] = "starting"
  /\ GoTo(t, "waiting")
  /\ job' = [job EXCEPT ![t] = RenewalOf(job[t].token)]
  /\ UNCHANGED <<cache, clock, sdkVars, history>>

\* Outside the lock: Thread(...).start(), for the activation of the signed token.
StartThread(t, w) ==
  /\ pc[t] = "starting"
  /\ pc[w] = "idle" /\ SdkOf[w] = SdkOf[t]
  /\ pc' = [pc EXCEPT ![t] = "idle", ![w] = "waiting"]
  /\ job' = [job EXCEPT ![t] = NoJob,
                        ![w] = RenewalOf(job[t].token)]
  /\ UNCHANGED <<cache, clock, sdkVars, history>>

\* start() raises "can't start new thread", out of check.
StartThreadFails(t) ==
  /\ StartMayFail
  /\ pc[t] = "starting"
  /\ Return(t)
  /\ UNCHANGED <<cache, clock, sdkVars, history>>

-----------------------------------------------------------------------------
(* The calls that go over the network *)

Request(t, request) ==
  /\ GoTo(t, "waiting")
  /\ job' = [job EXCEPT ![t] = request]

\* _cached_license, and the comparison activate makes of its key.
CachedFor(k) ==
  /\ cache # None
  /\ Accepted(EntryOf(cache), Machine, clock)
  /\ KeyOf[cache.aid] = k

\* activate returns a valid cached license for the same key without a call, which
\* changes nothing; otherwise it posts.
Activate(t, k) ==
  /\ pc[t] = "idle" /\ "activate" \in Calls
  /\ ~CachedFor(k)
  /\ Request(t, [NoJob EXCEPT !.op = "activate", !.key = k])
  /\ UNCHANGED <<cache, clock, sdkVars, history>>

\* Mutant: renew leaves the schedule alone.
RenewUncounted(t, a) ==
  /\ pc[t] = "idle" /\ "renew" \in Calls
  /\ Request(t, [NoJob EXCEPT !.op = "renew", !.aid = a])
  /\ UNCHANGED <<cache, clock, sdkVars, history>>

\* renew counts as an attempt before it posts.
Renew(t, a) ==
  /\ pc[t] = "idle" /\ "renew" \in Calls
  /\ lastAttempt' = [lastAttempt EXCEPT ![SdkOf[t]] = clock]
  /\ Request(t, [NoJob EXCEPT !.op = "renew", !.aid = a])
  /\ UNCHANGED <<cache, clock, lock, inFlight, renewalFailed, history>>

Deactivate(t, a) ==
  /\ pc[t] = "idle" /\ "deactivate" \in Calls
  /\ Request(t, [NoJob EXCEPT !.op = "deactivate", !.aid = a])
  /\ UNCHANGED <<cache, clock, sdkVars, history>>

\* Mutant: activate clears the cache on every failure.
OnFailureForget == [ activate |-> "forget", renew |-> "settle",
                     deactivate |-> "idle",   background |-> "settle" ]

\* What each call does next when its request has succeeded, when the server has
\* said that the activation is gone, and when it has failed in any other way.
OnOk      == [ activate |-> "save",   renew |-> "save",
               deactivate |-> "forget", background |-> "guard" ]
OnInvalid == [ activate |-> "forget", renew |-> "forget",
               deactivate |-> "idle",   background |-> "guard" ]
OnFailure == [ activate |-> "idle",   renew |-> "settle",
               deactivate |-> "idle",   background |-> "settle" ]

Proceed(t, tok, outcome) ==
  LET op   == job[t].op
      next == CASE outcome = "ok"      -> OnOk[op]
                [] outcome = "invalid" -> OnInvalid[op]
                [] OTHER               -> OnFailure[op]
  IN  /\ GoTo(t, next)
      /\ job' = [job EXCEPT ![t] =
                   IF next = "idle" THEN NoJob
                   ELSE [job[t] EXCEPT !.token = tok, !.outcome = outcome]]

\* A response with an error status, from _decode, or a 2xx with no usable body.
\* deactivate has statuses of its own but treats them alike.
Refused(t) ==
  /\ pc[t] = "waiting"
  /\ \E status \in {200, 401, 403, 404, 409, 500} :
       Proceed(t, None, IF status \in {401, 403, 404} THEN "invalid" ELSE "error")
  /\ UNCHANGED <<cache, clock, sdkVars, history>>

\* No response arrives before the timeout, whether or not the server has acted.
Unreachable(t) ==
  /\ pc[t] = "waiting"
  /\ Proceed(t, None, "network")
  /\ UNCHANGED <<cache, clock, sdkVars, history>>

\* Mutant: the signatures are verified, and no more.
VerifyOnly(tok) == VerifyActivationAt(EntryOf(tok), clock, FALSE) = "Ok"

\* _verify_and_validate, on a token the server has just sent.
VerifyAndValidate(tok) == Accepted(EntryOf(tok), Machine, clock)

\* What the server may sign a token for: an activation made with the key it is
\* given, or the one it is asked to renew unless that has been released.
MayIssue(t) ==
  CASE job[t].op = "activate"   -> { a \in Activations : KeyOf[a] = job[t].key }
    [] job[t].op = "deactivate" -> {None}
    [] OTHER                    -> {job[t].aid} \ released

\* The server grants the request.  A token is verified and validated on the spot;
\* one that fails is a ServerError like any other.
Granted(t) ==
  /\ pc[t] = "waiting"
  /\ \E issued \in MayIssue(t) :
       IF issued = None
       THEN Proceed(t, None, "ok")
       ELSE \E sort \in {"sound"} \cup Forgeries :
              LET tok == [aid |-> issued, iat |-> clock, sort |-> sort]
              IN  IF VerifyAndValidate(tok)
                  THEN Proceed(t, tok, "ok")
                  ELSE Proceed(t, None, "error")
  /\ UNCHANGED <<cache, clock, sdkVars, history>>

-----------------------------------------------------------------------------
(* What follows a response *)

\* _background_renew takes _cache_lock and goes on only if the file still holds
\* the activation it renewed.
Guard(t) ==
  /\ pc[t] = "guard"
  /\ MayEnter(t)
  /\ IF CacheHolds(job[t].aid)
     THEN /\ GoTo(t, IF job[t].outcome = "ok" THEN "save" ELSE "forget")
          /\ Hold(t)
          /\ UNCHANGED job
     ELSE Return(t) /\ UNCHANGED lock
  /\ UNCHANGED <<cache, clock, inFlight, lastAttempt, renewalFailed, history>>

\* _save_to_cache, under _cache_lock; an OSError is swallowed.
Save(t) ==
  /\ pc[t] = "save"
  /\ MayEnter(t)
  /\ \/ cache' = job[t].token
     \/ IoMayFail /\ UNCHANGED cache
  /\ released' = IF job[t].op = "activate" THEN released \ {job[t].token.aid}
                 ELSE released
  /\ GoTo(t, IF job[t].op = "activate" THEN "reset" ELSE "settle")
  /\ UNCHANGED <<clock, sdkVars, job, blamed>>

\* activate ends with _reset_renewal_failed, under _renew_lock alone.
Reset(t) ==
  /\ pc[t] = "reset"
  /\ SetFailed(t, FALSE)
  /\ Return(t)
  /\ UNCHANGED <<cache, clock, lock, inFlight, lastAttempt, released>>

\* _clear_cache, first half: take _cache_lock and reset the flag.
Forget(t) ==
  /\ pc[t] = "forget"
  /\ MayEnter(t)
  /\ SetFailed(t, FALSE)
  /\ Hold(t)
  /\ GoTo(t, "unlink")
  /\ UNCHANGED <<cache, clock, inFlight, lastAttempt, job, released>>

\* Second half: delete the file and release the lock; an OSError is swallowed.
\* renew then notes its failure, deactivate reports the release.
Unlink(t) ==
  /\ pc[t] = "unlink"
  /\ \/ cache' = None
     \/ IoMayFail /\ UNCHANGED cache
  /\ Leave(t)
  /\ IF job[t].op = "renew" THEN GoTo(t, "settle") /\ UNCHANGED job ELSE Return(t)
  /\ released' = IF job[t].op = "deactivate" THEN released \cup {job[t].aid} ELSE released
  /\ UNCHANGED <<clock, inFlight, lastAttempt, renewalFailed, blamed>>

\* _set_renewal_failed, first half: under _cache_lock, does the file still hold
\* the activation?  A background thread that saved holds the lock already and
\* releases it after this.
Settle(t) ==
  /\ pc[t] = "settle"
  /\ MayEnter(t)
  /\ IF CacheHolds(job[t].aid)
     THEN GoTo(t, "flag") /\ Hold(t) /\ UNCHANGED job
     ELSE Return(t) /\ Leave(t)
  /\ UNCHANGED <<cache, clock, inFlight, lastAttempt, renewalFailed, history>>

\* Second half: only a transport failure sets the flag, anything else clears it.
Flag(t) ==
  /\ pc[t] = "flag"
  /\ SetFailed(t, job[t].outcome = "network")
  /\ Leave(t)
  /\ Return(t)
  /\ UNCHANGED <<cache, clock, inFlight, lastAttempt, released>>

\* The finally clause of _background_renew; the thread ends.
Finish(t) ==
  /\ pc[t] = "finish"
  /\ inFlight' = [inFlight EXCEPT ![SdkOf[t]] = FALSE]
  /\ GoTo(t, "idle")
  /\ UNCHANGED <<cache, clock, lock, lastAttempt, renewalFailed, job, history>>

-----------------------------------------------------------------------------
(* The environment *)

Tick ==
  /\ clock < MaxClock
  /\ clock' = clock + 1
  /\ UNCHANGED <<cache, sdkVars, pc, job, history>>

\* time.time() is the wall clock: somebody may set it back.
StepBack ==
  /\ ClockMayStepBack
  /\ clock' \in Start..(clock - 1)
  /\ UNCHANGED <<cache, sdkVars, pc, job, history>>

\* The process ends, wherever its threads are, and a new one builds its Sdk.
Restart(s) ==
  /\ CrashMay
  /\ lock' = [lock EXCEPT ![s] = None]
  /\ inFlight' = [inFlight EXCEPT ![s] = FALSE]
  /\ lastAttempt' = [lastAttempt EXCEPT ![s] = 0]
  /\ renewalFailed' = [renewalFailed EXCEPT ![s] = FALSE]
  /\ blamed' = [blamed EXCEPT ![s] = None]
  /\ pc' = [t \in Threads |-> IF SdkOf[t] = s THEN "idle" ELSE pc[t]]
  /\ job' = [t \in Threads |-> IF SdkOf[t] = s THEN NoJob ELSE job[t]]
  /\ UNCHANGED <<cache, clock, released>>

-----------------------------------------------------------------------------
\* The steps by which an application thread starts a call.
Call(t) ==
  \/ CheckLoad(t)
  \/ \E k \in Keys : Activate(t, k)
  \/ \E a \in Activations : Renew(t, a) \/ Deactivate(t, a)

\* The steps by which a call, once started, goes on without the network.
Advance(t) ==
  \/ CheckDecide(t) \/ Claim(t) \/ StartThreadFails(t)
  \/ \E w \in Workers : StartThread(t, w)
  \/ Guard(t) \/ Save(t) \/ Reset(t) \/ Forget(t) \/ Unlink(t)
  \/ Settle(t) \/ Flag(t) \/ Finish(t)

Network(t) == Refused(t) \/ Unreachable(t) \/ Granted(t)

Next ==
  \/ \E t \in Callers : Call(t)
  \/ \E t \in Threads : Advance(t) \/ Network(t)
  \/ Tick \/ StepBack
  \/ \E s \in Sdks : Restart(s)

Spec == Init /\ [][Next]_vars
=============================================================================

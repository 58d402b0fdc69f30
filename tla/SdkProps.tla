------------------------------ MODULE SdkProps ------------------------------
(***************************************************************************)
(* What latte.http.Sdk promises, stated on the model of Sdk.tla, and the   *)
(* fairness its liveness needs.                                            *)
(***************************************************************************)
EXTENDS Sdk, FiniteSets

\* t is inside a section _cache_lock protects.
InCriticalSection(t) ==
  \/ pc[t] \in {"unlink", "flag"}
  \/ t \in Workers /\ pc[t] \in {"save", "forget"}
  \/ t \in Workers /\ pc[t] = "settle" /\ job[t].outcome = "ok"

\* http.py:180: _cache_lock excludes: the thread inside a critical section is
\* the holder of its Sdk's lock, and the lock has no other holder, so it is
\* never held by a thread that waits for the network.
CacheLockExcludes ==
  \A s \in Sdks, t \in Threads :
    lock[s] = t <=> SdkOf[t] = s /\ InCriticalSection(t)

\* http.py:180-181, the check-then-write of a background renewal: from the check
\* that the file holds its activation to the write, the deletion or the change of
\* the flag that the check allows, the file goes on holding that activation.
CheckedStaysTrue ==
  \A t \in Threads :
    \/ pc[t] = "flag"
    \/ t \in Workers /\ pc[t] \in {"save", "forget", "unlink"}
    => cache # None /\ cache.aid = job[t].aid /\ cache.sort # "forged"

\* The renewals of s under way: claimed and about to start, or running.
Renewals(s) ==
  { t \in Threads : /\ SdkOf[t] = s
                    /\ \/ pc[t] = "starting"
                       \/ t \in Workers /\ pc[t] # "idle" }

\* http.py:21: never a background renewal while another one is running, and
\* _renew_in_flight is set for as long as there is one.
OneRenewalAtATime ==
  \A s \in Sdks : \A t, u \in Renewals(s) : t = u /\ inFlight[s]

\* http.py:420: _renew_in_background starts a renewal if none is running, so
\* _renew_in_flight is set only while there is one.
InFlightMeansRunning ==
  \A s \in Sdks : inFlight[s] => Renewals(s) # {}

\* http.py:371: the cached file is deleted only by a deactivate the server
\* answered, or after a status that says the activation is gone: a timeout, a
\* refused connection or a server error never costs the user the licence.
DroppedOnlyOnVerdict ==
  [][ cache # None /\ cache' = None
        => \E t \in Threads :
             /\ lock[SdkOf[t]] = t
             /\ \/ job[t].op = "deactivate" /\ job[t].outcome = "ok"
                \/ job[t].op # "deactivate" /\ job[t].outcome = "invalid" ]_cache

\* http.py:225: whatever the server sends, a token gets into the file only if it
\* verified and validated for this machine.
OnlySoundTokensSaved ==
  cache \in InitialFiles \cup {None} \/ cache.sort = "sound"

\* http.py:288: once deactivate has reported an activation released, the file
\* does not hold it again until the next activate: no renewal, however late its
\* answer, brings the token back.
ReleasedNotCached ==
  \A a \in released : cache = None \/ cache.aid # a

\* http.py:183-186: the renewal that set _renewal_failed is one of the activation
\* the file holds, except for the moment in which a thread that has just stored
\* another one is about to correct the flag.
FlagConcernsCached ==
  \A s \in Sdks :
    renewalFailed[s] =>
      \/ cache # None /\ cache.aid = blamed[s]
      \/ \E t \in Callers :
           /\ SdkOf[t] = s
           /\ \/ pc[t] = "reset"
              \/ /\ pc[t] \in {"settle", "flag"} /\ job[t].op = "renew"
                 /\ job[t].outcome = "ok"
                 /\ cache # None /\ cache.aid = job[t].aid

-----------------------------------------------------------------------------
(* Refinement *)

\* What is left of t's call as long as it has had no effect on the file.
Pending(t) ==
  IF pc[t] \in {"waiting", "guard", "save", "forget", "unlink"}
  THEN [op |-> job[t].op, aid |-> job[t].aid, token |-> job[t].token, verdict |-> job[t].outcome]
  ELSE [op |-> "none", aid |-> None, token |-> None, verdict |-> "none"]

Abstract == INSTANCE HeldLicense
              WITH held <- cache, calls <- [t \in Threads |-> Pending(t)],
                   Background <- Workers, InitiallyHeld <- InitialFiles

\* http.py:180-181 and http.py:434: every call takes effect on the file in one step, at
\* its write or deletion, and a background renewal only while the file still holds its
\* activation, although several threads take their steps in between.
ActsAtOnce == Abstract!Spec

-----------------------------------------------------------------------------
(* Liveness *)

\* A call that is not waiting for the network or for a lock runs on.
CallersRun == \A t \in Callers : WF_vars(Advance(t))

\* So does a background thread, and every request ends: with a response, an error, or
\* the timeout.
WorkersRun  == \A t \in Workers : WF_vars(Advance(t))
RequestsEnd == \A t \in Threads : WF_vars(Network(t))

LiveSpec == Spec /\ CallersRun

\* http.py:21: check never waits.  It returns on the strength of its own steps: not
\* for the network, and not for a renewal thread that holds a lock, neither of which
\* need ever go on.
CheckReturns ==
  \A t \in Callers : pc[t] = "loaded" ~> pc[t] = "idle"

\* Once the application stops calling, every call returns, every renewal thread
\* ends, no lock is held and the next check may start a renewal: nothing is left
\* waiting for anything, provided that requests end and background threads run.
Quiet ==
  /\ \A t \in Threads : pc[t] = "idle"
  /\ \A s \in Sdks : lock[s] = None /\ ~inFlight[s]

ComesToRest ==
  /\ WorkersRun /\ RequestsEnd
  /\ <>[][\A t \in Callers : ~Call(t)]_vars
  => <>[]Quiet
=============================================================================

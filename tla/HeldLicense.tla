----------------------------- MODULE HeldLicense -----------------------------
(***************************************************************************)
(* What the Sdk promises about the license a machine holds, without locks, *)
(* files or clocks: a call asks, is answered, and takes effect in one      *)
(* step, or not at all.  activate and renew replace whatever is held by    *)
(* the token they got, deactivate gives it up, and an answer that the      *)
(* license is gone does too; but a background renewal has an effect only   *)
(* while the activation it renewed is the one held.                        *)
(***************************************************************************)
CONSTANTS Tokens, Activations, Threads, Background, InitiallyHeld, None

VARIABLES
  held,   \* the token the machine holds, or None
  calls   \* each thread's call that has had no effect yet

Idle == [op |-> "none", aid |-> None, token |-> None, verdict |-> "none"]

Init ==
  /\ held \in InitiallyHeld
  /\ calls = [t \in Threads |-> Idle]

Operations(t) == IF t \in Background THEN {"background"} ELSE {"activate", "renew", "deactivate"}

Ask(t) ==
  LET request == calls'[t]
  IN  /\ calls[t] = Idle
      /\ UNCHANGED held
      /\ request.op \in Operations(t) /\ request.aid \in Activations \cup {None}
      /\ calls' = [calls EXCEPT ![t] = [Idle EXCEPT !.op = request.op, !.aid = request.aid]]

\* The server grants the request, with a token of the activation in question, or says
\* that the license is gone.
Answer(t) ==
  LET call == calls[t]
      answered == calls'[t]
  IN  /\ call.op # "none" /\ call.verdict = "none"
      /\ UNCHANGED held
      /\ \/ /\ answered.verdict = "ok"
            /\ IF call.op = "deactivate"
               THEN answered.token = None
               ELSE /\ answered.token \in Tokens
                    /\ call.op # "activate" => answered.token.aid = call.aid
         \/ answered.verdict = "invalid" /\ call.op # "deactivate"
      /\ calls' = [calls EXCEPT ![t] = [ op |-> call.op, aid |-> call.aid,
                                         token |-> answered.token, verdict |-> answered.verdict ]]

TakeEffect(t) ==
  LET call == calls[t]
  IN  /\ call.verdict # "none"
      /\ t \in Background => held # None /\ held.aid = call.aid
      /\ held' = IF call.verdict = "ok" /\ call.op # "deactivate" THEN call.token ELSE None
      /\ calls' = [calls EXCEPT ![t] = Idle]

\* Calls fail, find another activation, cannot write, or their process dies.
Lose ==
  /\ UNCHANGED held
  /\ calls' = [t \in Threads |-> IF calls'[t] = Idle THEN Idle ELSE calls[t]]

Next == Lose \/ \E t \in Threads : Ask(t) \/ Answer(t) \/ TakeEffect(t)

Spec == Init /\ [][Next]_<<held, calls>>
=============================================================================

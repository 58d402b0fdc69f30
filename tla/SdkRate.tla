------------------------------- MODULE SdkRate -------------------------------
(***************************************************************************)
(* The Sdk with a history of its renewals: when each background renewal of *)
(* an Sdk was decided and by which reading of the clock, and when renew    *)
(* was last called, to say what the schedule of _renew_in_background       *)
(* bounds; and whether a renewal thread wrote the file, to say in which    *)
(* order they do.                                                          *)
(***************************************************************************)
EXTENDS SdkProps, Sequences

VARIABLES
  attempts,  \* history: the background renewals of s decided on since it was built,
             \*   each with the time check had read and the time of the decision
  renewed,   \* history: when renew was last called on s since it was built, or 0
  author     \* history: "background" if a renewal thread wrote what the file holds

rateVars == <<vars, attempts, renewed, author>>

\* This step is one in which s decides to start a background renewal.
Decides(s) == inFlight'[s] /\ ~inFlight[s]

\* It is one in which t calls renew.
Renews(t) == pc[t] = "idle" /\ pc'[t] = "waiting" /\ job'[t].op = "renew"

\* An Sdk that has made no attempt has just been built.
NoteAttempts ==
  attempts' = [s \in Sdks |->
                 IF lastAttempt'[s] = 0 THEN << >>
                 ELSE IF Decides(s)
                 THEN Append(attempts[s], [read |-> lastAttempt'[s], at |-> clock])
                 ELSE attempts[s]]

NoteRenew ==
  renewed' = [s \in Sdks |->
                IF lastAttempt'[s] = 0 THEN 0
                ELSE IF \E t \in Callers : SdkOf[t] = s /\ Renews(t) THEN clock
                ELSE renewed[s]]

NoteAuthor ==
  author' = IF cache' = cache THEN author
            ELSE IF \E w \in Workers : pc[w] = "save" /\ pc'[w] # "save" THEN "background"
            ELSE "caller"

RateInit ==
  /\ Init
  /\ attempts = [s \in Sdks |-> << >>]
  /\ renewed = [s \in Sdks |-> 0]
  /\ author = "caller"
RateNext == Next /\ NoteAttempts /\ NoteRenew /\ NoteAuthor
RateSpec == RateInit /\ [][RateNext]_rateVars

\* What the schedule of http.py:424-428 keeps to.  From the time on which one background
\* renewal was decided, the n-th after it is at least n intervals away, however long
\* the Sdk was idle before, and however checks are suspended on the way.  That time
\* is the one check had read: a check that is suspended before it decides counts from
\* the past, and so the next renewal may come sooner after it than an interval.
RenewalRateBounded ==
  \A s \in Sdks : \A i, j \in DOMAIN attempts[s] :
    i < j => attempts[s][i].read + (j - i) * MinInterval <= attempts[s][j].at

\* README.md:113: renew "counts as an attempt for this schedule".  No background renewal
\* of an Sdk is decided on within an interval of a renew, also by a check that had
\* read the time before it.
RenewCounts ==
  [][ \A s \in Sdks : Decides(s) /\ renewed[s] # 0 => clock - renewed[s] >= MinInterval ]_rateVars

\* README.md:102 and http.py:21: a background renewal starts "at most once every five
\* minutes", and README.md:111: the next attempt "is at least five minutes away".
AttemptsApart ==
  \A s \in Sdks : \A i, j \in DOMAIN attempts[s] :
    i < j => attempts[s][i].at + MinInterval <= attempts[s][j].at

\* http.py:452: a renewal thread asks whether the file still holds its activation, not
\* whether it holds a newer token.  What keeps an old answer from replacing a newer
\* one is that the renewal threads of an Sdk run one after the other: a token one of
\* them stored is never followed by an older one of the next.
NewestKept ==
  [][ author = "background" /\ author' = "background" /\ cache # None /\ cache' # None
        => cache'.iat >= cache.iat ]_rateVars
=============================================================================

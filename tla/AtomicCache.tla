----------------------------- MODULE AtomicCache -----------------------------
(***************************************************************************)
(* What storage.py promises of the cache file: one atomic register.  A     *)
(* save takes effect at one moment or not at all, a load answers with the  *)
(* register's value at one moment, and nothing else changes anything.      *)
(***************************************************************************)
CONSTANTS
  Clients,   \* the threads, of any process, that use the file
  Records,   \* a token with its chain
  Torn,      \* content that is no record: incomplete, corrupt or foreign
  None       \* no file, no record

VARIABLES
  value,     \* what the file holds
  pending,   \* pending[c]: the record c is saving
  seen       \* seen[c]: what c's last load answered, or will answer

vars == <<value, pending, seen>>

Init ==
  /\ value \in Records \cup {Torn, None}
  /\ pending = [c \in Clients |-> None]
  /\ seen = [c \in Clients |-> None]

Begin(c, r) ==
  /\ pending[c] = None
  /\ pending' = [pending EXCEPT ![c] = r]
  /\ UNCHANGED <<value, seen>>

Commit(c) ==
  /\ pending[c] # None
  /\ value' = pending[c]
  /\ pending' = [pending EXCEPT ![c] = None]
  /\ UNCHANGED seen

\* The save fails, or the process dies and nobody waits for answers any more.
Abandon(c) ==
  /\ pending' = [pending EXCEPT ![c] = None]
  /\ seen' = seen \/ seen' = [seen EXCEPT ![c] = None]
  /\ UNCHANGED value

Clear == value' = None /\ UNCHANGED <<pending, seen>>

\* A file that is no record, or that cannot be read, is answered like no file.
Load(c) ==
  /\ \E answer \in {value, None} :
       /\ answer \in Records \cup {None}
       /\ seen' = [seen EXCEPT ![c] = answer]
  /\ UNCHANGED <<value, pending>>

Next ==
  \/ Clear
  \/ \E c \in Clients :
       Commit(c) \/ Abandon(c) \/ Load(c) \/ \E r \in Records : Begin(c, r)

Spec == Init /\ [][Next]_vars
=============================================================================

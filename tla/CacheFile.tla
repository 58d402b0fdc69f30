------------------------------ MODULE CacheFile ------------------------------
(***************************************************************************)
(* storage.py: the cache file under concurrent save, load and clear calls  *)
(* from the threads of several processes.  A directory maps names to       *)
(* inodes, an open file stays bound to its inode whatever becomes of the   *)
(* name, and a rename is atomic.  Each call of the file system is a step.  *)
(***************************************************************************)
CONSTANTS
  Clients,    \* the threads, of any process, that use the file
  Records,    \* a token with its chain
  Torn,       \* content that is no record: incomplete, corrupt or foreign
  None,       \* no inode, no record, no name
  Cache,      \* the name of the cache file
  Tmps,       \* names for temporary files
  Inodes,
  IoMayFail,  \* the file system may raise OSError
  CrashMay    \* a process may die

Names == Tmps \cup {Cache}

ASSUME CacheFileAssumption ==
  /\ Cache \notin Tmps
  /\ None \notin Records \cup Names \cup Inodes \cup {Torn}
  /\ Torn \notin Records
  /\ {IoMayFail, CrashMay} \subseteq BOOLEAN

VARIABLES
  dir,      \* dir[n]: the inode name n stands for, or None
  data,     \* data[i]: what inode i holds
  pc,       \* what each client does next
  rec,      \* the record a client is saving
  tmp,      \* the name of its temporary file
  fd,       \* the inode it has open
  answer,   \* what its last load returned
  litter    \* history: temporary files a dead process or a failed unlink left

vars == <<dir, data, pc, rec, tmp, fd, answer, litter>>

CacheTypeOK ==
  /\ dir \in [Names -> Inodes \cup {None}]
  /\ data \in [Inodes -> Records \cup {Torn}]
  /\ pc \in [Clients -> {"idle", "create", "write", "rename", "cleanup", "read"}]
  /\ rec \in [Clients -> Records \cup {None}]
  /\ tmp \in [Clients -> Tmps \cup {None}]
  /\ fd \in [Clients -> Inodes \cup {None}]
  /\ answer \in [Clients -> Records \cup {None}]
  /\ litter \subseteq Tmps

\* No file, or one that holds a record or anything else.
Init ==
  /\ \E i \in Inodes \cup {None}, content \in Records \cup {Torn} :
       /\ dir = [n \in Names |-> IF n = Cache THEN i ELSE None]
       /\ data = [j \in Inodes |-> IF j = i THEN content ELSE Torn]
  /\ pc = [c \in Clients |-> "idle"]
  /\ rec = [c \in Clients |-> None]
  /\ tmp = [c \in Clients |-> None]
  /\ fd = [c \in Clients |-> None]
  /\ answer = [c \in Clients |-> None]
  /\ litter = {}

-----------------------------------------------------------------------------
GoTo(c, label) == pc' = [pc EXCEPT ![c] = label]

\* The call is over, for whatever reason.
Done(c) ==
  /\ GoTo(c, "idle")
  /\ rec' = [rec EXCEPT ![c] = None]
  /\ tmp' = [tmp EXCEPT ![c] = None]
  /\ fd' = [fd EXCEPT ![c] = None]

FreeInodes ==
  { i \in Inodes : (\A n \in Names : dir[n] # i) /\ (\A c \in Clients : fd[c] # i) }

\* Mutant: one name for all.
FreshTmpsShared == {CHOOSE n \in Tmps : TRUE}

\* uuid4: a name no file has and no other call uses.
FreshTmps == { n \in Tmps : dir[n] = None /\ \A c \in Clients : tmp[c] # n }

\* save: the directory is there, the name is chosen.  When mkdir fails the call
\* is over before it has done anything.
Save(c, r) ==
  /\ pc[c] = "idle"
  /\ \E n \in FreshTmps : tmp' = [tmp EXCEPT ![c] = n]
  /\ rec' = [rec EXCEPT ![c] = r]
  /\ GoTo(c, "create")
  /\ UNCHANGED <<dir, data, fd, answer, litter>>

\* write_text opens the temporary file, which creates or truncates it ...
CreateTmp(c) ==
  /\ pc[c] = "create"
  /\ \E i \in IF dir[tmp[c]] # None THEN {dir[tmp[c]]} ELSE FreeInodes :
       /\ dir' = [dir EXCEPT ![tmp[c]] = i]
       /\ data' = [data EXCEPT ![i] = Torn]
       /\ fd' = [fd EXCEPT ![c] = i]
  /\ GoTo(c, "write")
  /\ UNCHANGED <<rec, tmp, answer, litter>>

\* ... and writes and closes it.
WriteTmp(c) ==
  /\ pc[c] = "write"
  /\ data' = [data EXCEPT ![fd[c]] = rec[c]]
  /\ fd' = [fd EXCEPT ![c] = None]
  /\ GoTo(c, "rename")
  /\ UNCHANGED <<dir, rec, tmp, answer, litter>>

Replace(c) ==
  /\ pc[c] = "rename"
  /\ dir[tmp[c]] # None
  /\ dir' = [dir EXCEPT ![Cache] = dir[tmp[c]], ![tmp[c]] = None]
  /\ Done(c)
  /\ UNCHANGED <<data, answer, litter>>

\* Mutant: the error leaves save with no clean-up.
FailAtOnce(c) ==
  /\ IoMayFail
  /\ pc[c] \in {"create", "write", "rename"}
  /\ Done(c)
  /\ UNCHANGED <<dir, data, answer, litter>>

\* Any of the three raises, the write perhaps half-way.
Fail(c) ==
  /\ IoMayFail
  /\ pc[c] \in {"create", "write", "rename"}
  /\ GoTo(c, "cleanup")
  /\ fd' = [fd EXCEPT ![c] = None]
  /\ UNCHANGED <<dir, data, rec, tmp, answer, litter>>

\* The temporary file is deleted if there is one, and the error raised again.
CleanUp(c) ==
  /\ pc[c] = "cleanup"
  /\ \/ dir' = [dir EXCEPT ![tmp[c]] = None] /\ UNCHANGED litter
     \/ UNCHANGED dir /\ litter' = litter \cup {tmp[c]}
  /\ Done(c)
  /\ UNCHANGED <<data, answer>>

\* clear; when it fails, nothing has happened.
Clear(c) ==
  /\ pc[c] = "idle"
  /\ dir' = [dir EXCEPT ![Cache] = None]
  /\ UNCHANGED <<data, pc, rec, tmp, fd, answer, litter>>

\* load opens the file.  When there is none, or it cannot be opened, it returns
\* None.
Load(c) ==
  /\ pc[c] = "idle"
  /\ \/ /\ dir[Cache] # None
        /\ fd' = [fd EXCEPT ![c] = dir[Cache]]
        /\ GoTo(c, "read")
        /\ UNCHANGED answer
     \/ /\ dir[Cache] = None \/ IoMayFail
        /\ answer' = [answer EXCEPT ![c] = None]
        /\ UNCHANGED <<pc, fd>>
  /\ UNCHANGED <<dir, data, rec, tmp, litter>>

\* Mutant: what was read is taken for a record.
ParsedAsIs(content) == content

\* What load makes of the text: a record, or None on any problem.
Parsed(content) == IF content \in Records THEN content ELSE None

Read(c) ==
  /\ pc[c] = "read"
  /\ answer' = [answer EXCEPT ![c] = Parsed(data[fd[c]])]
  /\ Done(c)
  /\ UNCHANGED <<dir, data, litter>>

\* c's process dies.
Die(c) ==
  /\ CrashMay
  /\ pc[c] # "idle"
  /\ litter' = litter \cup {n \in {tmp[c]} \cap Tmps : dir[n] # None}
  /\ answer' = [answer EXCEPT ![c] = None]
  /\ Done(c)
  /\ UNCHANGED <<dir, data>>

Next ==
  \E c \in Clients :
    \/ \E r \in Records : Save(c, r)
    \/ CreateTmp(c) \/ WriteTmp(c) \/ Replace(c) \/ Fail(c) \/ CleanUp(c)
    \/ Clear(c) \/ Load(c) \/ Read(c) \/ Die(c)

Spec == Init /\ [][Next]_vars

-----------------------------------------------------------------------------
(* Properties *)

\* A load that is under way will answer with what it has open.
Answering(c) == IF pc[c] = "read" THEN Parsed(data[fd[c]]) ELSE answer[c]

Seen == [c \in Clients |-> Answering(c)]

Value == IF dir[Cache] = None THEN None ELSE data[dir[Cache]]

Register == INSTANCE AtomicCache WITH value <- Value, pending <- rec, seen <- Seen

\* storage.py:71-76: readers only ever see the previous complete version or the
\* new one, whatever saves run at once, fail half-way or die with their process:
\* the file is one atomic register.
Atomic == Register!Spec

\* storage.py:92: a save that is over, in whatever way, leaves no temporary file
\* behind, unless its process died or deleting the file failed.
NothingLeftBehind ==
  \A n \in Tmps :
    dir[n] # None => n \in litter \/ \E c \in Clients : tmp[c] = n
=============================================================================

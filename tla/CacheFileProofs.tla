--------------------------- MODULE CacheFileProofs ---------------------------
(***************************************************************************)
(* CacheFile implements AtomicCache, for any number of clients, records,   *)
(* names and inodes.                                                       *)
(***************************************************************************)
EXTENDS CacheFile, TLAPS

Saving == {"create", "write", "rename", "cleanup"}

\* Two names never stand for one inode, and two calls never share a name.
Distinct ==
  /\ \A m, n \in Names : dir[m] = dir[n] /\ dir[m] # None => m = n
  /\ \A c, d \in Clients : tmp[c] = tmp[d] /\ tmp[c] # None => c = d

\* What c's locals hold at each point of its code.
LocalsOf(c) ==
  /\ pc[c] \in Saving <=> tmp[c] # None
  /\ pc[c] \in Saving <=> rec[c] # None
  /\ pc[c] \in {"write", "read"} <=> fd[c] # None

\* The temporary file of a save is c's own from its creation to its renaming, and
\* a reader never has one open.
FilesOf(c) ==
  /\ pc[c] = "create" => dir[tmp[c]] = None
  /\ pc[c] = "write" => dir[tmp[c]] = fd[c]
  /\ pc[c] = "rename" => dir[tmp[c]] # None /\ data[dir[tmp[c]]] = rec[c]
  /\ pc[c] = "read" => \A n \in Tmps : dir[n] # fd[c]

Inv ==
  /\ CacheTypeOK
  /\ Distinct
  /\ \A c \in Clients : LocalsOf(c) /\ FilesOf(c)

LEMMA InitInv == Init => Inv
BY CacheFileAssumption
DEF CacheFileAssumption, Init, Inv, CacheTypeOK, Distinct, LocalsOf, FilesOf, Names, Saving

\* The names and inodes of different files are different things.
LEMMA Apart ==
  ASSUME Inv, NEW c \in Clients
  PROVE  /\ Cache \in Names /\ Cache \notin Tmps /\ Cache # None
         /\ pc[c] \in Saving => tmp[c] \in Tmps /\ tmp[c] \in Names /\ tmp[c] # Cache
                                /\ rec[c] \in Records
         /\ \A n \in Names : dir[n] # None => dir[n] \in Inodes
         /\ \A r \in Records : r # None /\ r # Torn
         /\ \A i \in Inodes : i # None
BY CacheFileAssumption
DEF CacheFileAssumption, Inv, CacheTypeOK, LocalsOf, Names, Saving

\* Calls that save at once use different names.
LEMMA OwnNames ==
  ASSUME Inv, NEW c \in Clients, NEW d \in Clients, d # c, pc[d] \in Saving
  PROVE  tmp[d] # tmp[c] /\ tmp[d] \in Names /\ tmp[d] # Cache
<1>1. tmp[d] # None
  BY DEF Inv, LocalsOf
<1>2. tmp[d] # tmp[c]
  BY <1>1 DEF Inv, Distinct
<1>. QED BY <1>2, Apart

LEMMA DoneMoves ==
  ASSUME Inv, NEW c \in Clients, Done(c)
  PROVE  /\ pc'[c] = "idle" /\ rec'[c] = None /\ tmp'[c] = None /\ fd'[c] = None
         /\ \A d \in Clients \ {c} : /\ pc'[d] = pc[d] /\ rec'[d] = rec[d]
                                     /\ tmp'[d] = tmp[d] /\ fd'[d] = fd[d]
         /\ pc' \in [Clients -> {"idle", "create", "write", "rename", "cleanup", "read"}]
         /\ rec' \in [Clients -> Records \cup {None}]
         /\ tmp' \in [Clients -> Tmps \cup {None}]
         /\ fd' \in [Clients -> Inodes \cup {None}]
BY DEF Inv, CacheTypeOK, Done, GoTo

LEMMA SaveInv ==
  ASSUME Inv, NEW c \in Clients, NEW r \in Records, Save(c, r)
  PROVE  Inv'
<1>. USE DEF Save, GoTo, FreshTmps
<1>1. PICK n \in Tmps : /\ dir[n] = None /\ (\A d \in Clients : tmp[d] # n)
                        /\ tmp' = [tmp EXCEPT ![c] = n]
  OBVIOUS
<1>2. n # None /\ r # None
  BY CacheFileAssumption DEF CacheFileAssumption, Names
<1>3. CacheTypeOK'
  BY <1>1 DEF Inv, CacheTypeOK
<1>4. Distinct'
  BY <1>1 DEF Inv, CacheTypeOK, Distinct
<1>5. ASSUME NEW d \in Clients PROVE LocalsOf(d)' /\ FilesOf(d)'
  BY <1>1, <1>2 DEF Inv, CacheTypeOK, LocalsOf, FilesOf, Saving
<1>. QED BY <1>3, <1>4, <1>5 DEF Inv

\* A new temporary file gets an inode nobody has open and no name stands for.
LEMMA CreateTmpFresh ==
  ASSUME Inv, NEW c \in Clients, CreateTmp(c)
  PROVE  /\ tmp[c] \in Tmps /\ tmp[c] # Cache
         /\ \E i \in Inodes :
              /\ \A n \in Names : dir[n] # i
              /\ \A d \in Clients : fd[d] # i
              /\ dir' = [dir EXCEPT ![tmp[c]] = i]
              /\ data' = [data EXCEPT ![i] = Torn]
              /\ fd' = [fd EXCEPT ![c] = i]
<1>1. pc[c] \in Saving /\ dir[tmp[c]] = None
  BY DEF CreateTmp, Inv, FilesOf, Saving
<1>. QED BY <1>1, Apart DEF CreateTmp, FreeInodes

LEMMA CreateTmpInv ==
  ASSUME Inv, NEW c \in Clients, CreateTmp(c)
  PROVE  Inv'
<1>1. PICK i \in Inodes :
        /\ \A n \in Names : dir[n] # i
        /\ \A d \in Clients : fd[d] # i
        /\ dir' = [dir EXCEPT ![tmp[c]] = i]
        /\ data' = [data EXCEPT ![i] = Torn]
        /\ fd' = [fd EXCEPT ![c] = i]
  BY CreateTmpFresh
<1>2. tmp[c] \in Tmps /\ tmp[c] \in Names /\ i # None
  BY CreateTmpFresh, CacheFileAssumption DEF Names, CacheFileAssumption
<1>3. pc[c] = "create" /\ pc' = [pc EXCEPT ![c] = "write"] /\ UNCHANGED <<rec, tmp, answer, litter>>
  BY DEF CreateTmp, GoTo
<1>4. CacheTypeOK'
  BY <1>1, <1>2, <1>3 DEF Inv, CacheTypeOK
<1>5. Distinct'
  BY <1>1, <1>2, <1>3 DEF Inv, CacheTypeOK, Distinct
<1>6. ASSUME NEW d \in Clients PROVE LocalsOf(d)'
  BY <1>1, <1>2, <1>3 DEF Inv, CacheTypeOK, LocalsOf, Saving
<1>7. ASSUME NEW d \in Clients PROVE FilesOf(d)'
  <2>1. CASE d = c
    BY <2>1, <1>1, <1>2, <1>3 DEF Inv, CacheTypeOK, FilesOf
  <2>2. CASE d # c
    <3>1. pc[d] \in Saving => tmp[d] # tmp[c] /\ tmp[d] \in Names
      BY <2>2, OwnNames
    <3>2. pc'[d] = pc[d] /\ fd'[d] = fd[d] /\ tmp'[d] = tmp[d] /\ rec'[d] = rec[d]
      BY <2>2, <1>1, <1>3 DEF Inv, CacheTypeOK
    <3>3. pc[d] \in Saving => dir'[tmp[d]] = dir[tmp[d]]
      BY <3>1, <1>1, <1>2 DEF Inv, CacheTypeOK
    <3>4. pc[d] = "rename" => data'[dir[tmp[d]]] = data[dir[tmp[d]]]
      BY <3>1, <1>1, Apart DEF Inv, CacheTypeOK, FilesOf, Saving
    <3>5. pc[d] = "read" => \A n \in Tmps : dir'[n] # fd[d]
      BY <1>1, <1>2 DEF Inv, CacheTypeOK, FilesOf, Names
    <3>. QED BY <3>2, <3>3, <3>4, <3>5 DEF Inv, FilesOf, Saving
  <2>. QED BY <2>1, <2>2
<1>. QED BY <1>4, <1>5, <1>6, <1>7 DEF Inv

\* A write goes to the writer's own temporary file: to no other's, to nothing a
\* reader has open, and not to the cache file.
LEMMA WriteTmpOwn ==
  ASSUME Inv, NEW c \in Clients, WriteTmp(c)
  PROVE  /\ fd[c] \in Inodes /\ fd[c] = dir[tmp[c]] /\ tmp[c] \in Tmps
         /\ dir[Cache] # fd[c]
         /\ \A d \in Clients : d # c /\ pc[d] = "rename" => dir[tmp[d]] # fd[c]
         /\ \A d \in Clients : pc[d] = "read" => fd[d] # fd[c]
<1>1. pc[c] = "write"
  BY DEF WriteTmp
<1>2. fd[c] \in Inodes /\ fd[c] = dir[tmp[c]] /\ tmp[c] \in Tmps /\ tmp[c] \in Names
      /\ tmp[c] # Cache /\ fd[c] # None
  BY <1>1, Apart DEF Inv, CacheTypeOK, LocalsOf, FilesOf, Saving
<1>3. dir[Cache] # fd[c]
  BY <1>2, Apart DEF Inv, Distinct
<1>4. ASSUME NEW d \in Clients, d # c, pc[d] = "rename" PROVE dir[tmp[d]] # fd[c]
  <2>1. tmp[d] \in Names /\ tmp[d] # tmp[c]
    BY <1>4, OwnNames DEF Saving
  <2>. QED BY <1>2, <2>1 DEF Inv, Distinct
<1>5. ASSUME NEW d \in Clients, pc[d] = "read" PROVE fd[d] # fd[c]
  BY <1>2, <1>5 DEF Inv, FilesOf
<1>. QED BY <1>2, <1>3, <1>4, <1>5

LEMMA WriteTmpInv ==
  ASSUME Inv, NEW c \in Clients, WriteTmp(c)
  PROVE  Inv'
<1>1. /\ pc[c] = "write" /\ pc' = [pc EXCEPT ![c] = "rename"]
      /\ data' = [data EXCEPT ![fd[c]] = rec[c]] /\ fd' = [fd EXCEPT ![c] = None]
      /\ UNCHANGED <<dir, rec, tmp, answer, litter>>
  BY DEF WriteTmp, GoTo
<1>2. rec[c] \in Records /\ fd[c] \in Inodes
  BY <1>1, Apart, WriteTmpOwn DEF Saving
<1>3. CacheTypeOK'
  BY <1>1, <1>2 DEF Inv, CacheTypeOK
<1>4. Distinct'
  BY <1>1 DEF Inv, Distinct
<1>5. ASSUME NEW d \in Clients PROVE LocalsOf(d)'
  BY <1>1 DEF Inv, CacheTypeOK, LocalsOf, Saving
<1>6. ASSUME NEW d \in Clients PROVE FilesOf(d)'
  <2>1. CASE d = c
    <3>1. dir[tmp[c]] = fd[c] /\ fd[c] # None
      BY <1>2, WriteTmpOwn, Apart
    <3>. QED BY <2>1, <3>1, <1>1, <1>2 DEF Inv, CacheTypeOK, FilesOf
  <2>2. CASE d # c
    <3>1. pc'[d] = pc[d] /\ fd'[d] = fd[d]
      BY <2>2, <1>1 DEF Inv, CacheTypeOK
    <3>2. pc[d] = "rename" => data'[dir[tmp[d]]] = data[dir[tmp[d]]]
      <4>1. pc[d] = "rename" => dir[tmp[d]] # fd[c] /\ dir[tmp[d]] \in Inodes
        BY <2>2, WriteTmpOwn, Apart DEF Inv, FilesOf, Saving
      <4>. QED BY <4>1, <1>1, <1>2 DEF Inv, CacheTypeOK
    <3>. QED BY <3>1, <3>2, <1>1 DEF Inv, FilesOf
  <2>. QED BY <2>1, <2>2
<1>. QED BY <1>3, <1>4, <1>5, <1>6 DEF Inv

LEMMA ReplaceInv ==
  ASSUME Inv, NEW c \in Clients, Replace(c)
  PROVE  Inv'
<1>1. /\ pc[c] = "rename" /\ dir[tmp[c]] # None
      /\ dir' = [dir EXCEPT ![Cache] = dir[tmp[c]], ![tmp[c]] = None]
      /\ Done(c) /\ UNCHANGED <<data, answer, litter>>
  BY DEF Replace
<1>2. tmp[c] \in Tmps /\ tmp[c] \in Names /\ tmp[c] # Cache /\ Cache \in Names
  BY <1>1, Apart DEF Saving
<1>3. \A n \in Names : dir'[n] = IF n = Cache THEN dir[tmp[c]]
                                 ELSE IF n = tmp[c] THEN None ELSE dir[n]
  BY <1>1, <1>2 DEF Inv, CacheTypeOK
<1>4. CacheTypeOK'
  <2>1. dir' \in [Names -> Inodes \cup {None}]
    BY <1>1, <1>2 DEF Inv, CacheTypeOK
  <2>. QED BY <2>1, <1>1, DoneMoves DEF Inv, CacheTypeOK
<1>5. Distinct'
  <2>1. \A m, n \in Names : dir'[m] = dir'[n] /\ dir'[m] # None => m = n
    BY <1>2, <1>3 DEF Inv, Distinct
  <2>2. \A d, e \in Clients : tmp'[d] = tmp'[e] /\ tmp'[d] # None => d = e
    BY <1>1, DoneMoves DEF Inv, Distinct
  <2>. QED BY <2>1, <2>2 DEF Distinct
<1>6. ASSUME NEW d \in Clients PROVE LocalsOf(d)' /\ FilesOf(d)'
  <2>1. CASE d = c
    BY <2>1, <1>1, DoneMoves DEF LocalsOf, FilesOf, Saving
  <2>2. CASE d # c
    <3>1. pc'[d] = pc[d] /\ fd'[d] = fd[d] /\ tmp'[d] = tmp[d] /\ rec'[d] = rec[d]
      BY <2>2, <1>1, DoneMoves
    <3>2. pc[d] \in Saving => tmp[d] \in Names /\ tmp[d] # Cache /\ tmp[d] # tmp[c]
      BY <2>2, OwnNames
    <3>3. pc[d] \in Saving => dir'[tmp[d]] = dir[tmp[d]]
      BY <3>2, <1>3
    <3>4. pc[d] = "read" => \A n \in Tmps : dir'[n] # fd[d]
      <4>1. pc[d] = "read" => fd[d] # None
        BY DEF Inv, LocalsOf
      <4>. QED BY <4>1, <1>3, Apart DEF Inv, FilesOf, Names
    <3>. QED BY <3>1, <3>3, <3>4, <1>1 DEF Inv, LocalsOf, FilesOf, Saving
  <2>. QED BY <2>1, <2>2
<1>. QED BY <1>4, <1>5, <1>6 DEF Inv

LEMMA FailInv ==
  ASSUME Inv, NEW c \in Clients, Fail(c)
  PROVE  Inv'
<1>1. /\ pc[c] \in {"create", "write", "rename"} /\ pc' = [pc EXCEPT ![c] = "cleanup"]
      /\ fd' = [fd EXCEPT ![c] = None] /\ UNCHANGED <<dir, data, rec, tmp, answer, litter>>
  BY DEF Fail, GoTo
<1>2. CacheTypeOK' /\ Distinct'
  BY <1>1 DEF Inv, CacheTypeOK, Distinct
<1>3. ASSUME NEW d \in Clients PROVE LocalsOf(d)' /\ FilesOf(d)'
  BY <1>1 DEF Inv, CacheTypeOK, LocalsOf, FilesOf, Saving
<1>. QED BY <1>2, <1>3 DEF Inv

\* A call that ends, deleting at most the temporary file that was its own.
LEMMA EndInv ==
  ASSUME Inv, NEW c \in Clients, Done(c), UNCHANGED data,
         answer' \in [Clients -> Records \cup {None}], litter' \subseteq Tmps,
         \/ UNCHANGED dir
         \/ tmp[c] \in Tmps /\ dir' = [dir EXCEPT ![tmp[c]] = None]
  PROVE  Inv'
<1>1. /\ dir' \in [Names -> Inodes \cup {None}]
      /\ \A n \in Names : dir'[n] = dir[n] \/ (n = tmp[c] /\ dir'[n] = None)
  BY DEF Inv, CacheTypeOK
<1>2. CacheTypeOK'
  BY <1>1, DoneMoves DEF Inv, CacheTypeOK
<1>3. Distinct'
  <2>1. \A m, n \in Names : dir'[m] = dir'[n] /\ dir'[m] # None => m = n
    BY <1>1 DEF Inv, Distinct
  <2>2. \A d, e \in Clients : tmp'[d] = tmp'[e] /\ tmp'[d] # None => d = e
    BY DoneMoves DEF Inv, Distinct
  <2>. QED BY <2>1, <2>2 DEF Distinct
<1>4. ASSUME NEW d \in Clients PROVE LocalsOf(d)' /\ FilesOf(d)'
  <2>1. CASE d = c
    BY <2>1, DoneMoves DEF LocalsOf, FilesOf, Saving
  <2>2. CASE d # c
    <3>1. pc'[d] = pc[d] /\ fd'[d] = fd[d] /\ tmp'[d] = tmp[d] /\ rec'[d] = rec[d]
      BY <2>2, DoneMoves
    <3>2. pc[d] \in Saving => tmp[d] \in Names /\ tmp[d] # tmp[c]
      BY <2>2, OwnNames
    <3>3. pc[d] \in Saving => dir'[tmp[d]] = dir[tmp[d]]
      BY <3>2, <1>1
    <3>4. pc[d] = "read" => \A n \in Tmps : dir'[n] # fd[d]
      <4>1. pc[d] = "read" => fd[d] # None
        BY DEF Inv, LocalsOf
      <4>. QED BY <4>1, <1>1 DEF Inv, FilesOf, Names
    <3>. QED BY <3>1, <3>3, <3>4 DEF Inv, LocalsOf, FilesOf, Saving
  <2>. QED BY <2>1, <2>2
<1>. QED BY <1>2, <1>3, <1>4 DEF Inv

LEMMA CleanUpInv ==
  ASSUME Inv, NEW c \in Clients, CleanUp(c)
  PROVE  Inv'
<1>1. tmp[c] \in Tmps
  BY Apart DEF CleanUp, Saving
<1>2. answer' \in [Clients -> Records \cup {None}] /\ litter' \subseteq Tmps
  BY <1>1 DEF CleanUp, Inv, CacheTypeOK
<1>. QED BY <1>1, <1>2, EndInv DEF CleanUp

LEMMA ReadInv ==
  ASSUME Inv, NEW c \in Clients, Read(c)
  PROVE  Inv'
<1>1. Parsed(data[fd[c]]) \in Records \cup {None}
  BY DEF Parsed
<1>2. answer' \in [Clients -> Records \cup {None}] /\ litter' \subseteq Tmps
  BY <1>1 DEF Read, Inv, CacheTypeOK
<1>. QED BY <1>2, EndInv DEF Read

LEMMA DieInv ==
  ASSUME Inv, NEW c \in Clients, Die(c)
  PROVE  Inv'
<1>1. answer' \in [Clients -> Records \cup {None}] /\ litter' \subseteq Tmps
  BY DEF Die, Inv, CacheTypeOK
<1>. QED BY <1>1, EndInv DEF Die

LEMMA ClearInv ==
  ASSUME Inv, NEW c \in Clients, Clear(c)
  PROVE  Inv'
<1>1. /\ dir' = [dir EXCEPT ![Cache] = None]
      /\ UNCHANGED <<data, pc, rec, tmp, fd, answer, litter>>
  BY DEF Clear
<1>2. CacheTypeOK'
  BY <1>1 DEF Inv, CacheTypeOK
<1>3. \A n \in Names : dir'[n] = IF n = Cache THEN None ELSE dir[n]
  BY <1>1 DEF Inv, CacheTypeOK
<1>4. Distinct'
  BY <1>1, <1>3 DEF Inv, Distinct
<1>5. ASSUME NEW d \in Clients PROVE LocalsOf(d)' /\ FilesOf(d)'
  <2>1. pc[d] \in Saving => dir'[tmp[d]] = dir[tmp[d]]
    BY <1>3, Apart
  <2>2. \A n \in Tmps : dir'[n] = dir[n]
    BY <1>3, Apart DEF Names
  <2>. QED BY <2>1, <2>2, <1>1 DEF Inv, LocalsOf, FilesOf, Saving
<1>. QED BY <1>2, <1>4, <1>5 DEF Inv

LEMMA LoadInv ==
  ASSUME Inv, NEW c \in Clients, Load(c)
  PROVE  Inv'
<1>1. UNCHANGED <<dir, data, rec, tmp, litter>>
  BY DEF Load
<1>2. CASE /\ dir[Cache] # None /\ pc[c] = "idle"
           /\ fd' = [fd EXCEPT ![c] = dir[Cache]] /\ pc' = [pc EXCEPT ![c] = "read"]
           /\ UNCHANGED answer
  <2>1. CacheTypeOK'
    BY <1>1, <1>2, Apart DEF Inv, CacheTypeOK
  <2>2. Distinct'
    BY <1>1 DEF Inv, Distinct
  <2>3. \A n \in Tmps : dir[n] # dir[Cache]
    BY <1>2, Apart DEF Inv, Distinct, Names
  <2>4. ASSUME NEW d \in Clients PROVE LocalsOf(d)' /\ FilesOf(d)'
    BY <1>1, <1>2, <2>3 DEF Inv, CacheTypeOK, LocalsOf, FilesOf, Saving
  <2>. QED BY <2>1, <2>2, <2>4 DEF Inv
<1>3. CASE answer' = [answer EXCEPT ![c] = None] /\ UNCHANGED <<pc, fd>>
  BY <1>1, <1>3 DEF Inv, CacheTypeOK, Distinct, LocalsOf, FilesOf
<1>. QED BY <1>2, <1>3 DEF Load, GoTo

LEMMA NextInv == Inv /\ [Next]_vars => Inv'
<1>1. ASSUME Inv, UNCHANGED vars PROVE Inv'
  BY <1>1 DEF vars, Inv, CacheTypeOK, Distinct, LocalsOf, FilesOf
<1>2. ASSUME Inv, Next PROVE Inv'
  BY <1>2, SaveInv, CreateTmpInv, WriteTmpInv, ReplaceInv, FailInv, CleanUpInv, ClearInv,
     LoadInv, ReadInv, DieInv DEF Next
<1>. QED BY <1>1, <1>2

LEMMA InvHolds == Spec => []Inv
BY InitInv, NextInv, PTL DEF Spec

-----------------------------------------------------------------------------
(* Every step of CacheFile is a step of AtomicCache or none. *)

\* What a step shows of the register and of the loads.
Shows(c) == Answering(c)' = Answering(c)

LEMMA SeenStays ==
  ASSUME \A d \in Clients : Shows(d)
  PROVE  Seen' = Seen
BY DEF Seen, Shows

LEMMA SeenSet ==
  ASSUME NEW c \in Clients, NEW r, Answering(c)' = r, \A d \in Clients \ {c} : Shows(d)
  PROVE  Seen' = [Seen EXCEPT ![c] = r]
BY DEF Seen, Shows

LEMMA InitImplements == Init => Register!Init
<1>1. ASSUME Init PROVE Register!Init
  <2>1. \A c \in Clients : Answering(c) = None
    BY <1>1 DEF Init, Answering
  <2>2. Seen = [c \in Clients |-> None]
    BY <2>1 DEF Seen
  <2>3. Value \in Records \cup {Torn, None}
    BY <1>1 DEF Init, Value, Names
  <2>. QED BY <2>2, <2>3, <1>1 DEF Register!Init, Init
<1>. QED BY <1>1

LEMMA SaveImplements ==
  ASSUME Inv, NEW c \in Clients, NEW r \in Records, Save(c, r)
  PROVE  Register!Begin(c, r)
<1>1. /\ pc[c] = "idle" /\ pc' = [pc EXCEPT ![c] = "create"]
      /\ rec' = [rec EXCEPT ![c] = r] /\ UNCHANGED <<dir, data, fd, answer>>
  BY DEF Save, GoTo
<1>2. rec[c] = None
  BY <1>1 DEF Inv, LocalsOf, Saving
<1>3. ASSUME NEW d \in Clients PROVE Shows(d)
  BY <1>1 DEF Inv, CacheTypeOK, Shows, Answering
<1>4. Value' = Value
  BY <1>1 DEF Value
<1>. QED BY <1>1, <1>2, <1>3, <1>4, SeenStays DEF Register!Begin

LEMMA CreateTmpImplements ==
  ASSUME Inv, NEW c \in Clients, CreateTmp(c)
  PROVE  UNCHANGED Register!vars
<1>1. PICK i \in Inodes :
        /\ \A n \in Names : dir[n] # i
        /\ \A d \in Clients : fd[d] # i
        /\ dir' = [dir EXCEPT ![tmp[c]] = i]
        /\ data' = [data EXCEPT ![i] = Torn]
        /\ fd' = [fd EXCEPT ![c] = i]
  BY CreateTmpFresh
<1>2. tmp[c] # Cache /\ Cache \in Names
  BY CreateTmpFresh, Apart
<1>3. pc[c] = "create" /\ pc' = [pc EXCEPT ![c] = "write"] /\ UNCHANGED <<rec, answer>>
  BY DEF CreateTmp, GoTo
<1>4. dir'[Cache] = dir[Cache] /\ dir[Cache] # i
  BY <1>1, <1>2 DEF Inv, CacheTypeOK
<1>5. Value' = Value
  BY <1>1, <1>2, <1>4, Apart DEF Value, Inv, CacheTypeOK
<1>6. ASSUME NEW d \in Clients PROVE Shows(d)
  <2>1. CASE d = c
    BY <2>1, <1>3 DEF Inv, CacheTypeOK, Shows, Answering
  <2>2. CASE d # c
    <3>1. pc'[d] = pc[d] /\ fd'[d] = fd[d] /\ answer'[d] = answer[d]
      BY <2>2, <1>1, <1>3 DEF Inv, CacheTypeOK
    <3>2. pc[d] = "read" => fd[d] \in Inodes
      BY DEF Inv, CacheTypeOK, LocalsOf
    <3>3. pc[d] = "read" => data'[fd[d]] = data[fd[d]]
      BY <3>2, <1>1 DEF Inv, CacheTypeOK
    <3>. QED BY <3>1, <3>3 DEF Shows, Answering
  <2>. QED BY <2>1, <2>2
<1>. QED BY <1>3, <1>5, <1>6, SeenStays DEF Register!vars

LEMMA WriteTmpImplements ==
  ASSUME Inv, NEW c \in Clients, WriteTmp(c)
  PROVE  UNCHANGED Register!vars
<1>1. /\ pc[c] = "write" /\ pc' = [pc EXCEPT ![c] = "rename"]
      /\ data' = [data EXCEPT ![fd[c]] = rec[c]] /\ fd' = [fd EXCEPT ![c] = None]
      /\ UNCHANGED <<dir, rec, tmp, answer, litter>>
  BY DEF WriteTmp, GoTo
<1>2. fd[c] \in Inodes /\ dir[Cache] # fd[c]
  BY WriteTmpOwn
<1>3. Value' = Value
  BY <1>1, <1>2, Apart DEF Value, Inv, CacheTypeOK
<1>4. ASSUME NEW d \in Clients PROVE Shows(d)
  <2>1. CASE d = c
    BY <2>1, <1>1 DEF Inv, CacheTypeOK, Shows, Answering
  <2>2. CASE d # c
    <3>1. pc'[d] = pc[d] /\ fd'[d] = fd[d] /\ answer'[d] = answer[d]
      BY <2>2, <1>1 DEF Inv, CacheTypeOK
    <3>2. pc[d] = "read" => fd[d] \in Inodes /\ fd[d] # fd[c]
      BY WriteTmpOwn DEF Inv, CacheTypeOK, LocalsOf
    <3>3. pc[d] = "read" => data'[fd[d]] = data[fd[d]]
      BY <3>2, <1>1 DEF Inv, CacheTypeOK
    <3>. QED BY <3>1, <3>3 DEF Shows, Answering
  <2>. QED BY <2>1, <2>2
<1>. QED BY <1>1, <1>3, <1>4, SeenStays DEF Register!vars

\* The rename is the moment a save takes effect.
LEMMA ReplaceImplements ==
  ASSUME Inv, NEW c \in Clients, Replace(c)
  PROVE  Register!Commit(c)
<1>1. /\ pc[c] = "rename" /\ dir[tmp[c]] # None
      /\ dir' = [dir EXCEPT ![Cache] = dir[tmp[c]], ![tmp[c]] = None]
      /\ Done(c) /\ UNCHANGED <<data, answer, litter>>
  BY DEF Replace
<1>2. tmp[c] \in Names /\ tmp[c] # Cache /\ Cache \in Names /\ rec[c] # None
  BY <1>1, Apart DEF Saving
<1>3. dir'[Cache] = dir[tmp[c]]
  BY <1>1, <1>2 DEF Inv, CacheTypeOK
<1>4. Value' = rec[c]
  BY <1>1, <1>3 DEF Value, Inv, FilesOf
<1>5. ASSUME NEW d \in Clients PROVE Shows(d)
  BY <1>1, DoneMoves DEF Shows, Answering
<1>6. rec' = [rec EXCEPT ![c] = None]
  BY <1>1 DEF Done
<1>. QED BY <1>2, <1>4, <1>5, <1>6, SeenStays DEF Register!Commit

LEMMA FailImplements ==
  ASSUME Inv, NEW c \in Clients, Fail(c)
  PROVE  UNCHANGED Register!vars
<1>1. /\ pc[c] \in {"create", "write", "rename"} /\ pc' = [pc EXCEPT ![c] = "cleanup"]
      /\ fd' = [fd EXCEPT ![c] = None] /\ UNCHANGED <<dir, data, rec, answer>>
  BY DEF Fail, GoTo
<1>2. ASSUME NEW d \in Clients PROVE Shows(d)
  BY <1>1 DEF Inv, CacheTypeOK, Shows, Answering
<1>3. Value' = Value
  BY <1>1 DEF Value
<1>. QED BY <1>1, <1>2, <1>3, SeenStays DEF Register!vars

LEMMA CleanUpImplements ==
  ASSUME Inv, NEW c \in Clients, CleanUp(c)
  PROVE  Register!Abandon(c)
<1>1. tmp[c] # Cache /\ Cache \in Names
  BY Apart DEF CleanUp, Saving
<1>2. pc[c] = "cleanup" /\ Done(c) /\ UNCHANGED <<data, answer>>
  BY DEF CleanUp
<1>3. dir'[Cache] = dir[Cache]
  BY <1>1 DEF CleanUp, Inv, CacheTypeOK
<1>4. Value' = Value
  BY <1>2, <1>3 DEF Value
<1>5. ASSUME NEW d \in Clients PROVE Shows(d)
  BY <1>2, DoneMoves DEF Shows, Answering
<1>6. rec' = [rec EXCEPT ![c] = None]
  BY <1>2 DEF Done
<1>. QED BY <1>4, <1>5, <1>6, SeenStays DEF Register!Abandon

LEMMA ClearImplements ==
  ASSUME Inv, NEW c \in Clients, Clear(c)
  PROVE  Register!Clear
<1>1. dir' = [dir EXCEPT ![Cache] = None] /\ UNCHANGED <<data, pc, rec, fd, answer>>
  BY DEF Clear
<1>2. Value' = None
  BY <1>1, Apart DEF Value, Inv, CacheTypeOK
<1>3. ASSUME NEW d \in Clients PROVE Shows(d)
  BY <1>1 DEF Shows, Answering
<1>. QED BY <1>1, <1>2, <1>3, SeenStays DEF Register!Clear

\* The open is the moment a load reads the register.
LEMMA LoadImplements ==
  ASSUME Inv, NEW c \in Clients, Load(c)
  PROVE  Register!Load(c)
<1>1. pc[c] = "idle" /\ UNCHANGED <<dir, data, rec>>
  BY DEF Load
<1>2. Value' = Value
  BY <1>1 DEF Value
<1>3. CASE /\ dir[Cache] # None /\ fd' = [fd EXCEPT ![c] = dir[Cache]]
           /\ pc' = [pc EXCEPT ![c] = "read"] /\ UNCHANGED answer
  <2>1. Answering(c)' = Parsed(Value)
    BY <1>1, <1>3 DEF Inv, CacheTypeOK, Answering, Value
  <2>2. ASSUME NEW d \in Clients \ {c} PROVE Shows(d)
    BY <1>1, <1>3 DEF Inv, CacheTypeOK, Shows, Answering
  <2>3. Seen' = [Seen EXCEPT ![c] = Parsed(Value)]
    BY <2>1, <2>2, SeenSet
  <2>4. Parsed(Value) \in {Value, None} /\ Parsed(Value) \in Records \cup {None}
    BY DEF Parsed
  <2>. QED BY <1>1, <1>2, <2>3, <2>4 DEF Register!Load
<1>4. CASE answer' = [answer EXCEPT ![c] = None] /\ UNCHANGED <<pc, fd>>
  <2>1. Answering(c)' = None
    BY <1>1, <1>4 DEF Inv, CacheTypeOK, Answering
  <2>2. ASSUME NEW d \in Clients \ {c} PROVE Shows(d)
    BY <1>1, <1>4 DEF Inv, CacheTypeOK, Shows, Answering
  <2>3. Seen' = [Seen EXCEPT ![c] = None]
    BY <2>1, <2>2, SeenSet
  <2>. QED BY <1>1, <1>2, <2>3 DEF Register!Load
<1>. QED BY <1>3, <1>4 DEF Load, GoTo

LEMMA ReadImplements ==
  ASSUME Inv, NEW c \in Clients, Read(c)
  PROVE  UNCHANGED Register!vars
<1>1. /\ pc[c] = "read" /\ answer' = [answer EXCEPT ![c] = Parsed(data[fd[c]])]
      /\ Done(c) /\ UNCHANGED <<dir, data>>
  BY DEF Read
<1>2. rec[c] = None
  BY <1>1 DEF Inv, LocalsOf, Saving
<1>3. rec' = rec
  BY <1>1, <1>2 DEF Done, Inv, CacheTypeOK
<1>4. ASSUME NEW d \in Clients PROVE Shows(d)
  <2>1. CASE d = c
    BY <2>1, <1>1, DoneMoves DEF Inv, CacheTypeOK, Shows, Answering
  <2>2. CASE d # c
    <3>1. answer'[d] = answer[d]
      BY <2>2, <1>1 DEF Inv, CacheTypeOK
    <3>. QED BY <2>2, <3>1, <1>1, DoneMoves DEF Shows, Answering
  <2>. QED BY <2>1, <2>2
<1>5. Value' = Value
  BY <1>1 DEF Value
<1>. QED BY <1>3, <1>4, <1>5, SeenStays DEF Register!vars

LEMMA DieImplements ==
  ASSUME Inv, NEW c \in Clients, Die(c)
  PROVE  Register!Abandon(c)
<1>1. answer' = [answer EXCEPT ![c] = None] /\ Done(c) /\ UNCHANGED <<dir, data>>
  BY DEF Die
<1>2. Answering(c)' = None
  BY <1>1, DoneMoves DEF Inv, CacheTypeOK, Answering
<1>3. ASSUME NEW d \in Clients \ {c} PROVE Shows(d)
  <2>1. answer'[d] = answer[d]
    BY <1>1 DEF Inv, CacheTypeOK
  <2>. QED BY <2>1, <1>1, DoneMoves DEF Shows, Answering
<1>4. Seen' = [Seen EXCEPT ![c] = None]
  BY <1>2, <1>3, SeenSet
<1>5. Value' = Value /\ rec' = [rec EXCEPT ![c] = None]
  BY <1>1 DEF Value, Done
<1>. QED BY <1>4, <1>5 DEF Register!Abandon

LEMMA StepImplements == Inv /\ [Next]_vars => [Register!Next]_(Register!vars)
<1>1. ASSUME UNCHANGED vars PROVE UNCHANGED Register!vars
  <2>1. \A d \in Clients : Shows(d)
    BY <1>1 DEF vars, Shows, Answering
  <2>. QED BY <1>1, <2>1, SeenStays DEF vars, Register!vars, Value
<1>2. ASSUME Inv, NEW c \in Clients, NEW r \in Records, Save(c, r) PROVE Register!Next
  BY <1>2, SaveImplements DEF Register!Next
<1>3. ASSUME Inv, NEW c \in Clients, Replace(c) PROVE Register!Next
  BY <1>3, ReplaceImplements DEF Register!Next
<1>4. ASSUME Inv, NEW c \in Clients, CleanUp(c) \/ Die(c) PROVE Register!Next
  BY <1>4, CleanUpImplements, DieImplements DEF Register!Next
<1>5. ASSUME Inv, NEW c \in Clients, Clear(c) PROVE Register!Next
  BY <1>5, ClearImplements DEF Register!Next
<1>6. ASSUME Inv, NEW c \in Clients, Load(c) PROVE Register!Next
  BY <1>6, LoadImplements DEF Register!Next
<1>7. ASSUME Inv, NEW c \in Clients, CreateTmp(c) \/ WriteTmp(c) \/ Fail(c) \/ Read(c)
      PROVE  UNCHANGED Register!vars
  BY <1>7, CreateTmpImplements, WriteTmpImplements, FailImplements, ReadImplements
<1>. QED BY <1>1, <1>2, <1>3, <1>4, <1>5, <1>6, <1>7 DEF Next

\* storage.py:71-76 holds of any number of threads, processes and records: the
\* cache file is one atomic register.
THEOREM Implements == Spec => Atomic
<1>1. Spec => Register!Init /\ [][Register!Next]_(Register!vars)
  BY InitImplements, StepImplements, InvHolds, PTL DEF Spec
<1>. QED BY <1>1 DEF Atomic, Register!Spec

\* Every variable keeps to its type.
THEOREM TypeHolds == Spec => []CacheTypeOK
<1>1. Inv => CacheTypeOK
  BY DEF Inv
<1>. QED BY <1>1, InvHolds, PTL

\* A name keeps what it stands for, or it is given up by the one client that uses
\* it, or taken into litter.
LEMMA NothingLeftStep ==
  ASSUME Inv, NothingLeftBehind, NEW c \in Clients,
         NEW n \in Tmps, dir'[n] # None,
         \/ \E r \in Records : Save(c, r)
         \/ CreateTmp(c) \/ WriteTmp(c) \/ Replace(c) \/ Fail(c) \/ CleanUp(c)
         \/ Clear(c) \/ Load(c) \/ Read(c) \/ Die(c)
  PROVE  n \in litter' \/ \E d \in Clients : tmp'[d] = n
<1>0. /\ n \in Names /\ n # Cache /\ n # None
      /\ dir[n] # None => n \in litter \/ \E d \in Clients : tmp[d] = n
  BY CacheFileAssumption DEF CacheFileAssumption, Names, NothingLeftBehind
<1>1. ASSUME NEW r \in Records, Save(c, r)
      PROVE  n \in litter' \/ \E d \in Clients : tmp'[d] = n
  <2>1. \A d \in Clients : tmp[d] = n => tmp'[d] = n
    <3>1. tmp[c] = None
      BY <1>1 DEF Save, Inv, LocalsOf, Saving
    <3>. QED BY <3>1, <1>0, <1>1 DEF Save, Inv, CacheTypeOK
  <2>. QED BY <2>1, <1>0, <1>1 DEF Save
<1>2. CASE CreateTmp(c)
  <2>1. n # tmp[c] => dir'[n] = dir[n]
    BY <1>0, <1>2, CreateTmpFresh DEF Inv, CacheTypeOK
  <2>. QED BY <2>1, <1>0, <1>2 DEF CreateTmp
<1>3. CASE WriteTmp(c) \/ Fail(c)
  BY <1>0, <1>3 DEF WriteTmp, Fail
<1>4. CASE Replace(c)
  <2>1. tmp[c] \in Names /\ tmp[c] # Cache /\ Cache \in Names
    BY <1>4, Apart DEF Replace, Saving
  <2>2. n # tmp[c] /\ dir'[n] = dir[n]
    BY <1>0, <1>4, <2>1 DEF Replace, Inv, CacheTypeOK
  <2>3. \A d \in Clients : tmp[d] = n => tmp'[d] = n
    BY <1>4, <2>2, DoneMoves DEF Replace
  <2>. QED BY <1>0, <1>4, <2>2, <2>3 DEF Replace
<1>5. CASE CleanUp(c)
  <2>1. dir'[n] = dir[n] /\ (n = tmp[c] => n \in litter')
    BY <1>0, <1>5 DEF CleanUp, Inv, CacheTypeOK
  <2>2. litter \subseteq litter'
    BY <1>5 DEF CleanUp
  <2>3. \A d \in Clients \ {c} : tmp'[d] = tmp[d]
    BY <1>5, DoneMoves DEF CleanUp
  <2>. QED BY <1>0, <2>1, <2>2, <2>3
<1>6. CASE Clear(c) \/ Load(c)
  <2>1. dir'[n] = dir[n]
    BY <1>0, <1>6 DEF Clear, Load, Inv, CacheTypeOK
  <2>. QED BY <1>0, <1>6, <2>1 DEF Clear, Load
<1>7. CASE Read(c)
  <2>1. tmp[c] = None
    BY <1>7 DEF Read, Inv, LocalsOf, Saving
  <2>2. \A d \in Clients : tmp[d] = n => tmp'[d] = n
    BY <1>0, <1>7, <2>1, DoneMoves DEF Read
  <2>. QED BY <1>0, <1>7, <2>2 DEF Read
<1>8. CASE Die(c)
  <2>1. \A d \in Clients \ {c} : tmp'[d] = tmp[d]
    BY <1>8, DoneMoves DEF Die
  <2>. QED BY <1>0, <1>8, <2>1 DEF Die
<1>. QED BY <1>1, <1>2, <1>3, <1>4, <1>5, <1>6, <1>7, <1>8

\* storage.py:92: a save that is over leaves no temporary file behind, unless its
\* process died or deleting the file failed, whatever else is saving.
THEOREM NothingLeftHolds == Spec => []NothingLeftBehind
<1>1. Init => NothingLeftBehind
  BY CacheFileAssumption DEF CacheFileAssumption, Init, NothingLeftBehind, Names
<1>2. Inv /\ NothingLeftBehind /\ [Next]_vars => NothingLeftBehind'
  <2>1. ASSUME Inv, NothingLeftBehind, Next PROVE NothingLeftBehind'
    <3>1. PICK c \in Clients :
            \/ \E r \in Records : Save(c, r)
            \/ CreateTmp(c) \/ WriteTmp(c) \/ Replace(c) \/ Fail(c) \/ CleanUp(c)
            \/ Clear(c) \/ Load(c) \/ Read(c) \/ Die(c)
      BY <2>1 DEF Next
    <3>. QED BY <2>1, <3>1, NothingLeftStep DEF NothingLeftBehind
  <2>2. ASSUME NothingLeftBehind, UNCHANGED vars PROVE NothingLeftBehind'
    BY <2>2 DEF vars, NothingLeftBehind
  <2>. QED BY <2>1, <2>2
<1>. QED BY <1>1, <1>2, InvHolds, PTL DEF Spec
=============================================================================

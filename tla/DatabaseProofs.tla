--------------------------- MODULE DatabaseProofs ---------------------------
(***************************************************************************)
(* What Database promises for every set of processes, versions, pools and   *)
(* calls: the pool stays clean, the schema is respected, and the adapter    *)
(* under the transaction guard implements AtomicStore.                      *)
(*                                                                          *)
(* The inductive invariant says where each job stands: which transaction    *)
(* its connection has open, and how what that transaction sees relates to   *)
(* the file, which only the one holder of the write lock can change.        *)
(***************************************************************************)
EXTENDS Database, TLAPS

Rows == Calls \X Parts
Disks == [owner : {"none", "acp", "other"}, version : Nat, rows : SUBSET Rows]
ConnType == [place : {"closed", "idle", "used"}, tx : {"none", "read", "write"}, view : Disks]
JobType == [at : Holding \cup {"new", "conn", "ok", "error", "refused"},
            slot : Slots, got : SUBSET Rows, failed : BOOLEAN]

TypeOK ==
    /\ disk \in Disks
    /\ repo \in [Procs -> {"shut", "opening", "open", "closed"}]
    /\ conn \in [Conns -> ConnType]
    /\ job \in [Jobs -> JobType]
    /\ crashes \in Nat
    /\ \A c \in Calls : job[c].at \notin {"prior", "migrate", "checks", "refused"}
    /\ \A p \in Procs : job[p].at \notin {"first", "second", "ok", "error"}
    /\ \A j \in Jobs : job[j].failed => j \in Updates

\* A process that is opening has an opening, and no call before it is open.
RepoInv ==
    /\ \A p \in Procs : job[p].at = "new" <=> repo[p] # "opening"
    /\ \A c \in Calls : repo[Home[c]] \in {"shut", "opening"} =>
                            job[c].at \in {"new", "ok", "error"}

\* The lock of the file.
OneWriter == \A k, l \in Conns : conn[k].tx = "write" /\ conn[l].tx = "write" => k = l

Mode(j) == IF Writes(j) THEN "write" ELSE "read"
Working(j) == job[j].at \in {"migrate", "first", "second", "commit"}
Part(rs, i) == {r \in rs : r[2] = i}

\* What a call wrote, and read, when it reaches a place unharmed.
Written(c) == CASE job[c].at = "first" -> {}
                [] job[c].at = "second" -> {<<c, 1>>}
                [] OTHER -> {<<c, 1>>, <<c, 2>>}
Read(c, rs) == CASE job[c].at = "first" -> {}
                 [] job[c].at = "second" -> Part(rs, 1)
                 [] OTHER -> rs

JobTx(j) ==
    /\ job[j].at \in Holding \ InTx => MyConn(j).tx = "none"
    /\ job[j].at \in InTx => MyConn(j).tx \in {"none", Mode(j)}
    /\ job[j].at = "validate" => MyConn(j).tx = Mode(j)
    /\ Working(j) /\ ~job[j].failed => MyConn(j).tx = Mode(j)

JobGot(j) == job[j].at \in {"new", "conn", "prior", "begin", "validate"} =>
                 job[j].got = {} /\ ~job[j].failed

JobView(j) ==
    /\ Writes(j) /\ job[j].at = "validate" => MyConn(j).view = disk
    /\ j \in Procs /\ Working(j) =>
         /\ disk.owner # "other"
         /\ MyConn(j).view.rows = disk.rows
         /\ MyConn(j).view.version >= disk.version
    /\ j \in Updates /\ Working(j) /\ ~job[j].failed =>
         /\ disk.owner # "other" /\ disk.version = Binary[Home[j]]
         /\ MyConn(j).view = [disk EXCEPT !.rows = @ \cup Written(j)]
         /\ job[j].got = Read(j, disk.rows)
    /\ j \in Views /\ Working(j) =>
         /\ MyConn(j).view.version = Binary[Home[j]]
         /\ job[j].got = Read(j, MyConn(j).view.rows)

JobInv == \A j \in Jobs : JobTx(j) /\ JobGot(j) /\ JobView(j)

DInv == TypeOK /\ RepoInv /\ PoolIsClean /\ OneWriter /\ JobInv

-----------------------------------------------------------------------------
(* A step of one job j on one connection k that no other job holds.         *)

OthersStay(j, k) ==
    /\ \A l \in Conns : l # k => conn'[l] = conn[l]
    /\ \A i \in Jobs : i # j => job'[i] = job[i]
    /\ \A i \in Jobs : i # j /\ job[i].at \in Holding => ConnOf(i) # k
    /\ job[j].at \in InTx => ConnOf(j) = k

\* The places a transaction is open at are places a connection is held at, and
\* a connection belongs to the process of its job.
LEMMA PlacesAreHeld == InTx \subseteq Holding
BY DEF InTx, Holding

LEMMA ConnOfType == ASSUME TypeOK, NEW j \in Jobs
                    PROVE  ProcOf(j) \in Procs /\ ConnOf(j) \in Conns /\ ConnOf(j)[1] = ProcOf(j)
BY DatabaseAssumption DEF TypeOK, JobType, ProcOf, ConnOf, Conns, Jobs, Calls

\* Whatever the job does, the pool stays clean and the other jobs stay where
\* they are, if it keeps what it uses, leaves no transaction behind, and takes
\* the lock only when it is free.
LEMMA OneJobSteps ==
    ASSUME DInv, TypeOK', NEW j \in Jobs, NEW k \in Conns, OthersStay(j, k),
           job'[j].at \in Holding => ConnOf(j)' = k /\ conn'[k].place = "used",
           conn'[k].tx # "none" => job'[j].at \in InTx,
           conn'[k].tx = "write" => conn[k].tx = "write" \/ ~Locked,
           disk' = disk \/ conn[k].tx = "write"
    PROVE  /\ PoolIsClean' /\ OneWriter'
           /\ \A i \in Jobs : i # j => (JobTx(i) /\ JobGot(i) /\ JobView(i))'
<1> USE PlacesAreHeld
<1>1. \A i \in Jobs : i # j => ConnOf(i)' = ConnOf(i)
  BY DEF OthersStay, ConnOf
<1>2. \A i \in Jobs : i # j /\ job[i].at \in Holding => conn'[ConnOf(i)] = conn[ConnOf(i)]
  BY ConnOfType DEF OthersStay, DInv
<1>3. PoolIsClean'
  <2>1. \A l \in Conns : conn'[l].tx # "none" =>
           \E i \in Jobs : job'[i].at \in InTx /\ ConnOf(i)' = l
    <3> SUFFICES ASSUME NEW l \in Conns, conn'[l].tx # "none"
                 PROVE  \E i \in Jobs : job'[i].at \in InTx /\ ConnOf(i)' = l
      OBVIOUS
    <3>1. CASE l = k
      BY <3>1
    <3>2. CASE l # k
      <4>1. PICK i \in Jobs : job[i].at \in InTx /\ ConnOf(i) = l
        BY <3>2 DEF OthersStay, DInv, PoolIsClean
      <4>2. i # j
        BY <4>1, <3>2 DEF OthersStay
      <4> QED BY <1>1, <4>1, <4>2 DEF OthersStay
    <3> QED BY <3>1, <3>2
  <2>2. \A i \in Jobs : job'[i].at \in Holding => conn'[ConnOf(i)'].place = "used"
    BY <1>1, <1>2 DEF OthersStay, DInv, PoolIsClean, MyConn
  <2>3. \A i, l \in Jobs : job'[i].at \in Holding /\ job'[l].at \in Holding
                             /\ ConnOf(i)' = ConnOf(l)' => i = l
    BY <1>1 DEF OthersStay, DInv, PoolIsClean
  <2> QED BY <2>1, <2>2, <2>3 DEF PoolIsClean, MyConn
<1>4. OneWriter'
  BY DEF OthersStay, OneWriter, DInv, Locked
<1>5. \A i \in Jobs : i # j => (JobTx(i) /\ JobGot(i) /\ JobView(i))'
  <2> SUFFICES ASSUME NEW i \in Jobs, i # j
               PROVE  (JobTx(i) /\ JobGot(i) /\ JobView(i))'
    OBVIOUS
  <2>1. job'[i] = job[i] /\ JobTx(i) /\ JobGot(i) /\ JobView(i)
    BY DEF OthersStay, DInv, JobInv
  <2>2. Working(i) => job[i].at \in InTx
    BY DEF Working, InTx
  <2>3. CASE job[i].at \notin Holding
    BY <2>1, <2>2, <2>3, ZenonT(30)
       DEF JobTx, JobGot, JobView, Working, InTx, Holding
  <2>4. CASE job[i].at \in Holding
    <3>1. MyConn(i)' = MyConn(i) /\ ConnOf(i) # k /\ ConnOf(i) \in Conns
      BY <1>1, <1>2, <2>4, ConnOfType DEF MyConn, OthersStay, DInv
    <3>2. JobTx(i)' /\ JobGot(i)'
      BY <2>1, <3>1 DEF JobTx, JobGot, Working
    <3>3. disk' = disk \/ MyConn(i).tx # "write"
      BY <3>1 DEF DInv, OneWriter, MyConn
    <3>4. JobView(i)'
      <4>1. CASE disk' = disk
        BY <2>1, <3>1, <4>1 DEF JobView, Working, Written, Read
      <4>2. CASE MyConn(i).tx # "write"
        <5>1. Writes(i) => job[i].at # "validate" /\ (Working(i) => job[i].failed)
          BY <2>1, <4>2 DEF JobTx, Mode
        <5>2. i \in Procs => ~job[i].failed
          BY DatabaseAssumption DEF DInv, TypeOK, Calls
        <5>3. i \in Procs \cup Updates => Writes(i)
          BY DatabaseAssumption DEF Writes, Calls
        <5> QED BY <2>1, <3>1, <5>1, <5>2, <5>3 DEF JobView, Working, Written, Read
      <4> QED BY <3>3, <4>1, <4>2
    <3> QED BY <3>2, <3>4
  <2> QED BY <2>3, <2>4
<1> QED BY <1>3, <1>4, <1>5

-----------------------------------------------------------------------------
(* The steps of a job between its connection's start and end.               *)

\* A step of a job in progress keeps the bond of jobs and repositories.
LEMMA RepoStays ==
    ASSUME DInv, TypeOK', NEW j \in Jobs, repo' = repo,
           \A i \in Jobs : i # j => job'[i] = job[i],
           job[j].at \notin {"new", "ok", "error"}, job'[j].at # "new"
    PROVE  RepoInv'
<1>1. \A p \in Procs : job'[p].at = "new" <=> repo'[p] # "opening"
  BY DEF DInv, RepoInv, Jobs
<1>2. \A c \in Calls : repo'[Home[c]] \in {"shut", "opening"} =>
                          job'[c].at \in {"new", "ok", "error"}
  BY DEF DInv, RepoInv, Jobs
<1> QED BY <1>1, <1>2 DEF RepoInv

LEMMA AssembleInv ==
    ASSUME TypeOK', RepoInv', NEW j \in Jobs, PoolIsClean', OneWriter',
           \A i \in Jobs : i # j => (JobTx(i) /\ JobGot(i) /\ JobView(i))',
           (JobTx(j) /\ JobGot(j) /\ JobView(j))'
    PROVE  DInv'
BY DEF DInv, JobInv

\* The types, for a step of one job: its place suits it.
Suits(j, at) == /\ j \in Calls => at \notin {"prior", "migrate", "checks", "refused"}
                /\ j \in Procs => at \notin {"first", "second", "ok", "error"}

LEMMA TypesStay ==
    ASSUME DInv, NEW j \in Jobs, repo' = repo, crashes' = crashes, disk' \in Disks,
           conn' \in [Conns -> ConnType], job' \in [Jobs -> JobType],
           \A i \in Jobs : i # j => job'[i] = job[i],
           Suits(j, job'[j].at), job'[j].failed => j \in Updates
    PROVE  TypeOK'
<1>1. \A c \in Calls : job'[c].at \notin {"prior", "migrate", "checks", "refused"}
  BY DEF DInv, TypeOK, Suits, Jobs
<1>2. \A p \in Procs : job'[p].at \notin {"first", "second", "ok", "error"}
  BY DEF DInv, TypeOK, Suits, Jobs
<1>3. \A i \in Jobs : job'[i].failed => i \in Updates
  BY DEF DInv, TypeOK
<1> QED BY <1>1, <1>2, <1>3 DEF DInv, TypeOK

\* A job that only moves, without a connection before or after.
LEMMA IdleJobSteps ==
    ASSUME DInv, NEW j \in Jobs, NEW at \in {"conn", "error"}, Move(j, at),
           job[j].at \in {"new", "conn"}, at = "conn" => job[j].at = "new",
           conn' = conn, disk' = disk, crashes' = crashes
    PROVE  /\ PoolIsClean' /\ OneWriter' /\ JobInv'
           /\ job' \in [Jobs -> JobType]
           /\ job'[j] = [job[j] EXCEPT !.at = at]
           /\ \A i \in Jobs : i # j => job'[i] = job[i]
<1>1. /\ job' \in [Jobs -> JobType]
      /\ job'[j] = [job[j] EXCEPT !.at = at]
      /\ \A i \in Jobs : i # j => job'[i] = job[i]
  BY DEF DInv, TypeOK, Move, JobType
<1>2. /\ job'[j].at = at /\ job'[j].slot = job[j].slot
      /\ job'[j].got = job[j].got /\ job'[j].failed = job[j].failed
  BY <1>1 DEF DInv, TypeOK, JobType
<1>3. at \notin Holding /\ job[j].at \notin Holding
  BY DEF Holding
<1>4. \A i \in Jobs : ConnOf(i)' = ConnOf(i) /\ MyConn(i)' = MyConn(i)
  BY <1>1, <1>2 DEF ConnOf, MyConn
<1>5. PoolIsClean'
  <2>1. \A k \in Conns : conn'[k].tx # "none" =>
           \E i \in Jobs : job'[i].at \in InTx /\ ConnOf(i)' = k
    <3> SUFFICES ASSUME NEW k \in Conns, conn[k].tx # "none"
                 PROVE  \E i \in Jobs : job'[i].at \in InTx /\ ConnOf(i)' = k
      OBVIOUS
    <3>1. PICK i \in Jobs : job[i].at \in InTx /\ ConnOf(i) = k
      BY DEF DInv, PoolIsClean
    <3> QED BY <3>1, <1>1, <1>3, <1>4, PlacesAreHeld
  <2>2. \A i \in Jobs : job'[i].at \in Holding => job[i].at \in Holding
    BY <1>1, <1>2, <1>3
  <2> QED BY <2>1, <2>2, <1>4 DEF PoolIsClean, DInv
<1>6. OneWriter'
  BY DEF DInv, OneWriter
<1>7. JobInv'
  <2> SUFFICES ASSUME NEW i \in Jobs
               PROVE  (JobTx(i) /\ JobGot(i) /\ JobView(i))'
    BY DEF JobInv
  <2>1. JobTx(i) /\ JobGot(i) /\ JobView(i)
    BY DEF DInv, JobInv
  <2>2. CASE i # j
    <3>1. job'[i] = job[i]
      BY <1>1, <2>2
    <3> QED BY <2>1, <3>1, <1>4 DEF JobTx, JobGot, JobView, Working, Written, Read
  <2>3. CASE i = j
    BY <2>1, <2>3, <1>2 DEF JobTx, JobGot, JobView, Working, Holding, InTx
  <2> QED BY <2>2, <2>3
<1> QED BY <1>1, <1>5, <1>6, <1>7

LEMMA StartInv == ASSUME DInv, NEW c \in Calls, Start(c) PROVE DInv'
<1>1. c \in Jobs /\ c \notin Procs /\ job[c].at = "new" /\ ~job[c].failed
  BY DatabaseAssumption DEF Jobs, Calls, Start, DInv, JobInv, JobGot
<1>2. /\ PoolIsClean' /\ OneWriter' /\ JobInv'
      /\ job' \in [Jobs -> JobType]
      /\ job'[c] = [job[c] EXCEPT !.at = "conn"]
      /\ \A i \in Jobs : i # c => job'[i] = job[i]
  BY <1>1, IdleJobSteps DEF Start
<1>3. job'[c].at = "conn" /\ ~job'[c].failed
  BY <1>1, <1>2 DEF DInv, TypeOK, JobType
<1>4. TypeOK'
  BY <1>1, <1>2, <1>3, TypesStay DEF Start, DInv, TypeOK, Suits
<1>5. RepoInv'
  BY <1>1, <1>2 DEF Start, DInv, RepoInv, Jobs
<1> QED BY <1>2, <1>4, <1>5 DEF DInv

LEMMA NoConnInv == ASSUME DInv, NEW c \in Calls, NoConn(c) PROVE DInv'
<1>1. c \in Jobs /\ c \notin Procs /\ job[c].at = "conn" /\ ~job[c].failed
  BY DatabaseAssumption DEF Jobs, Calls, NoConn, DInv, JobInv, JobGot
<1>2. /\ PoolIsClean' /\ OneWriter' /\ JobInv'
      /\ job' \in [Jobs -> JobType]
      /\ job'[c] = [job[c] EXCEPT !.at = "error"]
      /\ \A i \in Jobs : i # c => job'[i] = job[i]
  BY <1>1, IdleJobSteps DEF NoConn
<1>3. job'[c].at = "error" /\ ~job'[c].failed
  BY <1>1, <1>2 DEF DInv, TypeOK, JobType
<1>4. TypeOK'
  BY <1>1, <1>2, <1>3, TypesStay DEF NoConn, DInv, TypeOK, Suits
<1>5. RepoInv'
  BY <1>1, <1>2, <1>3, <1>4, RepoStays DEF NoConn
<1> QED BY <1>2, <1>4, <1>5 DEF DInv

LEMMA ReturnType == ASSUME NEW k \in Conns PROVE Return(k) \in ConnType /\ Return(k).tx = "none"
BY DEF Return, Closed, Blank, ConnType, Disks

LEMMA NoBeginInv == ASSUME DInv, NEW c \in Calls, NoBegin(c) PROVE DInv'
<1>0. c \in Jobs /\ ConnOf(c) \in Conns /\ job[c].at \in Holding
  BY ConnOfType DEF DInv, Jobs, NoBegin, Holding
<1>1. TypeOK'
  <2>1. conn' \in [Conns -> ConnType]
    BY <1>0, ReturnType DEF NoBegin, DInv, TypeOK
  <2>2. job' \in [Jobs -> JobType] /\ job'[c].at = "error" /\ job'[c].failed = job[c].failed
    BY <1>0 DEF NoBegin, DInv, TypeOK, Move, JobType
  <2>3. Suits(c, "error")
    BY DatabaseAssumption DEF Suits, Calls
  <2> QED BY <1>0, <2>1, <2>2, <2>3, TypesStay DEF NoBegin, Move, DInv, TypeOK
<1>2. /\ conn'[ConnOf(c)].tx = "none" /\ job'[c].at = "error" /\ disk' = disk
      /\ OthersStay(c, ConnOf(c))
  BY <1>0 DEF NoBegin, DInv, TypeOK, Move, Jobs, OthersStay, PoolIsClean, Return, Closed
<1>3. PoolIsClean' /\ OneWriter' /\ \A i \in Jobs : i # c => (JobTx(i) /\ JobGot(i) /\ JobView(i))'
  BY <1>0, <1>1, <1>2, OneJobSteps DEF Holding
<1>4. RepoInv'
  BY <1>0, <1>1, <1>2, RepoStays DEF NoBegin, OthersStay
<1>5. (JobTx(c) /\ JobGot(c) /\ JobView(c))'
  BY <1>2 DEF JobTx, JobGot, JobView, Working, Holding, InTx
<1> QED BY <1>0, <1>1, <1>3, <1>4, <1>5, AssembleInv

LEMMA AcquireInv == ASSUME DInv, NEW j \in Jobs, NEW s \in Slots, Acquire(j, s) PROVE DInv'
<1> DEFINE k == <<ProcOf(j), s>>
<1>0. k \in Conns /\ job[j].at = "conn" /\ conn[k].place \in {"idle", "closed"}
  BY ConnOfType DEF DInv, Acquire, Free, Conns
<1>1. TypeOK'
  <2>1. job'[j].at = (IF j \in Procs THEN "prior" ELSE "begin") /\ job'[j].failed = job[j].failed
    BY <1>0 DEF Acquire, DInv, TypeOK, JobType
  <2>2. Suits(j, job'[j].at)
    BY <2>1, DatabaseAssumption DEF Suits, Calls, Jobs
  <2>3. job' \in [Jobs -> JobType] /\ conn' \in [Conns -> ConnType]
    <3>1. job'[j] = [job[j] EXCEPT !.at = job'[j].at, !.slot = s]
      BY <2>1 DEF Acquire, DInv, TypeOK
    <3>2. job'[j] \in JobType
      BY <2>1, <3>1 DEF DInv, TypeOK, JobType, Holding
    <3>3. [conn[k] EXCEPT !.place = "used"] \in ConnType
      BY <1>0 DEF DInv, TypeOK, ConnType
    <3> QED BY <1>0, <3>2, <3>3 DEF Acquire, DInv, TypeOK
  <2> QED BY <2>1, <2>2, <2>3, TypesStay DEF Acquire, DInv, TypeOK
<1>2. /\ job'[j].at \in {"prior", "begin"} /\ job'[j].slot = s /\ disk' = disk
      /\ job'[j].got = job[j].got /\ job'[j].failed = job[j].failed
      /\ conn'[k] = [conn[k] EXCEPT !.place = "used"] /\ ConnOf(j)' = k
      /\ \A l \in Conns : l # k => conn'[l] = conn[l]
      /\ \A i \in Jobs : i # j => job'[i] = job[i]
  BY <1>0 DEF Acquire, DInv, TypeOK, ConnOf
<1>3. \A i \in Jobs : job[i].at \in Holding => ConnOf(i) # k
  BY <1>0 DEF DInv, PoolIsClean, MyConn
<1>4. OthersStay(j, k)
  BY <1>0, <1>2, <1>3 DEF OthersStay, InTx
<1>5. conn[k].tx = "none" /\ conn'[k].tx = "none" /\ conn'[k].place = "used"
  BY <1>0, <1>2, <1>3, PlacesAreHeld DEF DInv, PoolIsClean, TypeOK
<1>6. PoolIsClean' /\ OneWriter' /\ \A i \in Jobs : i # j => (JobTx(i) /\ JobGot(i) /\ JobView(i))'
  <2> HIDE DEF k
  <2> QED BY <1>0, <1>1, <1>2, <1>4, <1>5, OneJobSteps
<1>7. RepoInv'
  BY <1>0, <1>1, <1>2, RepoStays DEF Acquire
<1>8. (JobTx(j) /\ JobGot(j) /\ JobView(j))'
  <2>1. MyConn(j)'.tx = "none"
    BY <1>2, <1>5 DEF MyConn
  <2>2. job[j].got = {} /\ ~job[j].failed
    BY <1>0 DEF DInv, JobInv, JobGot
  <2> QED BY <1>2, <2>1, <2>2 DEF JobTx, JobGot, JobView, Working, Holding, InTx
<1> QED BY <1>1, <1>6, <1>7, <1>8, AssembleInv

LEMMA BeginInv == ASSUME DInv, NEW j \in Jobs, Begin(j) PROVE DInv'
<1> DEFINE k == ConnOf(j)
<1>0. k \in Conns /\ job[j].at = "begin" /\ job[j].at \in Holding /\ conn[k].tx = "none"
  BY ConnOfType DEF DInv, Begin, Holding, MyConn
<1>1. /\ job'[j] = [job[j] EXCEPT !.at = "validate"] /\ ConnOf(j)' = k /\ disk' = disk
      /\ conn'[k].tx = Mode(j) /\ conn'[k].place = conn[k].place
      /\ conn'[k].view = (IF Writes(j) THEN disk ELSE conn[k].view)
      /\ \A l \in Conns : l # k => conn'[l] = conn[l]
      /\ \A i \in Jobs : i # j => job'[i] = job[i]
  BY <1>0 DEF Begin, DInv, TypeOK, ConnOf, Move, Mode
<1>2. TypeOK'
  <2>1. conn' \in [Conns -> ConnType]
    <3>1. [conn[k] EXCEPT !.tx = "write", !.view = disk] \in ConnType
          /\ [conn[k] EXCEPT !.tx = "read"] \in ConnType
      BY <1>0 DEF DInv, TypeOK, ConnType
    <3>2. conn'[k] \in ConnType
      BY <1>0, <1>1 DEF Begin, DInv, TypeOK, Mode, ConnType
    <3> QED BY <1>0, <1>1, <3>2 DEF Begin, DInv, TypeOK
  <2>2. job' \in [Jobs -> JobType] /\ job'[j].at = "validate" /\ job'[j].failed = job[j].failed
    BY <1>0, <1>1 DEF Begin, Move, DInv, TypeOK, JobType, Holding
  <2> QED BY <1>1, <2>1, <2>2, TypesStay DEF Begin, DInv, TypeOK, Suits
<1>3. OthersStay(j, k)
  BY <1>0, <1>1 DEF OthersStay, DInv, PoolIsClean
<1>4. conn'[k].place = "used" /\ job'[j].at \in InTx /\ job'[j].at = "validate"
  BY <1>0, <1>1 DEF DInv, PoolIsClean, MyConn, InTx, TypeOK
<1>5. conn'[k].tx = "write" => ~Locked
  BY <1>1 DEF Begin, Mode
<1>6. PoolIsClean' /\ OneWriter' /\ \A i \in Jobs : i # j => (JobTx(i) /\ JobGot(i) /\ JobView(i))'
  <2> HIDE DEF k
  <2> QED BY <1>0, <1>1, <1>2, <1>3, <1>4, <1>5, OneJobSteps
<1>7. RepoInv'
  BY <1>0, <1>1, <1>2, <1>4, RepoStays DEF Begin
<1>8. (JobTx(j) /\ JobGot(j) /\ JobView(j))'
  <2>1. MyConn(j)' = conn'[k] /\ (Writes(j) => MyConn(j)'.view = disk')
    BY <1>1 DEF MyConn
  <2>2. job[j].got = {} /\ ~job[j].failed
    BY <1>0 DEF DInv, JobInv, JobGot
  <2>3. job'[j].got = {} /\ ~job'[j].failed
    BY <1>1, <2>2 DEF DInv, TypeOK
  <2> QED BY <1>1, <1>4, <2>1, <2>3 DEF JobTx, JobGot, JobView, Working, Holding, InTx, Mode, Writes
<1> QED BY <1>2, <1>6, <1>7, <1>8, AssembleInv

LEMMA ValidateInv == ASSUME DInv, NEW j \in Jobs, Validate(j) PROVE DInv'
<1> DEFINE k == ConnOf(j)
           d == IF Writes(j) THEN conn[k].view ELSE disk
           at == job'[j].at
<1>0. k \in Conns /\ job[j].at = "validate" /\ job[j].at \in Holding
  BY ConnOfType DEF DInv, Validate, Holding
<1>1. /\ at = (IF ~Accepts(j, d) THEN "rollback" ELSE IF j \in Procs THEN "migrate" ELSE "first")
      /\ job'[j].got = job[j].got /\ job'[j].failed = job[j].failed /\ ConnOf(j)' = k
      /\ disk' = disk /\ conn'[k] = [conn[k] EXCEPT !.view = d]
      /\ \A l \in Conns : l # k => conn'[l] = conn[l]
      /\ \A i \in Jobs : i # j => job'[i] = job[i]
  BY <1>0 DEF Validate, DInv, TypeOK, JobType, ConnOf, Move, MyConn
<1>2. TypeOK'
  <2>1. conn' \in [Conns -> ConnType]
    <3>1. d \in Disks /\ [conn[k] EXCEPT !.view = d] \in ConnType
      BY <1>0 DEF DInv, TypeOK, ConnType
    <3> QED BY <1>0, <3>1 DEF Validate, DInv, TypeOK, MyConn
  <2>2. job' \in [Jobs -> JobType]
    BY <1>0, <1>1 DEF Validate, Move, DInv, TypeOK, JobType, Holding
  <2>3. Suits(j, at)
    BY <1>1, DatabaseAssumption DEF Suits, Jobs, Calls
  <2> QED BY <1>1, <2>1, <2>2, <2>3, TypesStay DEF Validate, DInv, TypeOK
<1>3. OthersStay(j, k)
  BY <1>0, <1>1 DEF OthersStay, DInv, PoolIsClean
<1>4. /\ conn'[k].place = "used" /\ conn'[k].tx = Mode(j) /\ conn[k].tx = Mode(j)
      /\ conn'[k].tx = conn[k].tx
      /\ conn'[k].view = d /\ at \in InTx
  BY <1>0, <1>1 DEF DInv, PoolIsClean, MyConn, InTx, TypeOK, JobInv, JobTx, ConnType
<1>5. PoolIsClean' /\ OneWriter' /\ \A i \in Jobs : i # j => (JobTx(i) /\ JobGot(i) /\ JobView(i))'
  <2> HIDE DEF k, d
  <2> QED BY <1>0, <1>1, <1>2, <1>3, <1>4, OneJobSteps
<1>6. RepoInv'
  BY <1>0, <1>1, <1>2, RepoStays DEF Validate
<1>7. (JobTx(j) /\ JobGot(j) /\ JobView(j))'
  <2>1. MyConn(j)' = conn'[k] /\ job[j].got = {} /\ ~job[j].failed
    BY <1>0, <1>1 DEF MyConn, DInv, JobInv, JobGot
  <2>2. Writes(j) => d = disk
    BY <1>0 DEF DInv, JobInv, JobView, MyConn
  <2>3. JobTx(j)' /\ JobGot(j)'
    BY <1>1, <1>4, <2>1 DEF JobTx, JobGot, Working, Holding, InTx, Mode, Writes
  <2>4. at \in {"rollback", "migrate", "first"} /\ (at # "rollback" => Accepts(j, d))
    BY <1>1
  <2>5. CASE j \in Procs
    <3>1. Writes(j) /\ j \notin Calls /\ at # "first"
      BY <1>1, <2>5, DatabaseAssumption DEF Writes, Calls
    <3>2. at = "migrate" => d = disk /\ disk.owner # "other" /\ disk.version \in Nat
      BY <2>2, <2>4, <3>1 DEF Accepts, Ours, DInv, TypeOK, Disks
    <3>3. at = "migrate" => disk.version >= disk.version
      BY <3>2
    <3> QED BY <1>1, <1>4, <2>3, <2>1, <2>4, <3>1, <3>2, <3>3 DEF JobView, Working, Calls, Writes
  <2>6. CASE j \in Updates
    <3>1. Writes(j) /\ j \in Calls /\ j \notin Procs /\ j \notin Views
      BY <2>6, DatabaseAssumption DEF Writes, Calls
    <3>2. at = "first" => /\ d = disk /\ disk.owner # "other"
                          /\ disk.version = Binary[Home[j]]
      BY <2>2, <2>4, <3>1, DatabaseAssumption DEF Accepts, Ours, ProcOf, Calls
    <3>3. disk = [disk EXCEPT !.rows = @ \cup {}]
      BY DEF DInv, TypeOK, Disks
    <3>4. at = "first" => Written(j)' = {} /\ Read(j, disk.rows)' = {}
      BY DEF Written, Read
    <3> QED BY <1>1, <1>4, <2>3, <2>1, <2>4, <3>1, <3>2, <3>3, <3>4 DEF JobView, Working, Writes
  <2>7. CASE j \in Views
    <3>1. ~Writes(j) /\ j \in Calls /\ j \notin Procs /\ j \notin Updates
      BY <2>7, DatabaseAssumption DEF Writes, Calls
    <3>2. at = "first" => d.version = Binary[Home[j]]
      BY <2>4, <3>1 DEF Accepts, ProcOf
    <3>3. at = "first" => Read(j, MyConn(j).view.rows)' = {}
      BY DEF Read
    <3> QED BY <1>1, <1>4, <2>3, <2>1, <2>4, <3>1, <3>2, <3>3 DEF JobView, Working, Writes
  <2> QED BY <2>3, <2>5, <2>6, <2>7 DEF Jobs, Calls
<1> QED BY <1>2, <1>5, <1>6, <1>7, AssembleInv

\* A step that ends the work of a job: what it read and wrote no longer counts.
LEMMA EndedJob ==
    ASSUME NEW j \in Jobs, NEW at, job'[j].at = at,
           at \in {"rollback", "error", "ok", "refused", "checks"},
           at = "rollback" => conn'[ConnOf(j)'].tx \in {"none", Mode(j)},
           at = "checks" => conn'[ConnOf(j)'].tx = "none"
    PROVE  (JobTx(j) /\ JobGot(j) /\ JobView(j))'
BY DEF JobTx, JobGot, JobView, Working, Holding, InTx, MyConn, Mode, Writes

LEMMA GiveUpInv == ASSUME DInv, NEW j \in Jobs, GiveUp(j) PROVE DInv'
<1> DEFINE k == ConnOf(j)
<1>0. k \in Conns /\ job[j].at \in InTx /\ job[j].at \in Holding
  BY ConnOfType DEF DInv, GiveUp, InTx, Holding
<1>1. /\ job'[j].at = "rollback" /\ job'[j].failed = job[j].failed /\ ConnOf(j)' = k
      /\ disk' = disk
      /\ conn'[k].tx \in {"none", conn[k].tx} /\ conn'[k].place = conn[k].place
      /\ conn'[k] \in ConnType
      /\ \A l \in Conns : l # k => conn'[l] = conn[l]
      /\ \A i \in Jobs : i # j => job'[i] = job[i]
  <2>1. [conn[k] EXCEPT !.tx = "none", !.view = Blank] \in ConnType
    BY <1>0 DEF DInv, TypeOK, ConnType, Blank, Disks
  <2> QED BY <1>0, <2>1 DEF GiveUp, Broken, DInv, TypeOK, JobType, ConnType, ConnOf, Move
<1>2. TypeOK'
  <2>1. conn' \in [Conns -> ConnType]
    BY <1>0, <1>1 DEF GiveUp, Broken, DInv, TypeOK
  <2>2. job' \in [Jobs -> JobType]
    BY <1>0, <1>1 DEF GiveUp, Move, DInv, TypeOK, JobType, Holding
  <2> QED BY <1>1, <2>1, <2>2, TypesStay DEF GiveUp, DInv, TypeOK, Suits
<1>3. OthersStay(j, k)
  BY <1>0, <1>1 DEF OthersStay, DInv, PoolIsClean
<1>4. conn'[k].place = "used" /\ job'[j].at \in InTx
  BY <1>0, <1>1 DEF DInv, PoolIsClean, MyConn, InTx
<1>5. PoolIsClean' /\ OneWriter' /\ \A i \in Jobs : i # j => (JobTx(i) /\ JobGot(i) /\ JobView(i))'
  <2> HIDE DEF k
  <2> QED BY <1>0, <1>1, <1>2, <1>3, <1>4, OneJobSteps
<1>6. RepoInv'
  BY <1>0, <1>1, <1>2, RepoStays DEF GiveUp
<1>7. conn'[k].tx \in {"none", Mode(j)}
  BY <1>0, <1>1 DEF DInv, JobInv, JobTx, MyConn
<1>8. (JobTx(j) /\ JobGot(j) /\ JobView(j))'
  BY <1>1, <1>7, EndedJob
<1> QED BY <1>2, <1>5, <1>6, <1>8, AssembleInv

LEMMA RollbackInv == ASSUME DInv, NEW j \in Jobs, Rollback(j) PROVE DInv'
<1> DEFINE k == ConnOf(j)
<1>0. k \in Conns /\ job[j].at \in InTx /\ job[j].at \in Holding
  BY ConnOfType DEF DInv, Rollback, InTx, Holding
<1>1. /\ job'[j].at = (IF j \in Calls THEN "error" ELSE "refused")
      /\ job'[j].failed = job[j].failed /\ ConnOf(j)' = k /\ disk' = disk
      /\ conn'[k].tx = "none" /\ conn'[k] \in ConnType
      /\ \A l \in Conns : l # k => conn'[l] = conn[l]
      /\ \A i \in Jobs : i # j => job'[i] = job[i]
  <2>1. Closed \in ConnType /\ Closed.tx = "none"
    BY DEF ConnType, Closed, Blank, Disks
  <2> QED BY <1>0, <2>1, ReturnType DEF Rollback, DInv, TypeOK, JobType, ConnOf, Move
<1>2. TypeOK'
  <2>1. conn' \in [Conns -> ConnType]
    BY <1>0, <1>1 DEF Rollback, DInv, TypeOK
  <2>2. job' \in [Jobs -> JobType]
    BY <1>0, <1>1 DEF Rollback, Move, DInv, TypeOK, JobType, Holding
  <2>3. Suits(j, job'[j].at)
    BY <1>1, DatabaseAssumption DEF Suits, Jobs, Calls
  <2> QED BY <1>1, <2>1, <2>2, <2>3, TypesStay DEF Rollback, DInv, TypeOK
<1>3. OthersStay(j, k)
  BY <1>0, <1>1 DEF OthersStay, DInv, PoolIsClean
<1>4. job'[j].at \notin Holding /\ job'[j].at # "new"
  BY <1>1 DEF Holding
<1>5. PoolIsClean' /\ OneWriter' /\ \A i \in Jobs : i # j => (JobTx(i) /\ JobGot(i) /\ JobView(i))'
  <2> HIDE DEF k
  <2> QED BY <1>0, <1>1, <1>2, <1>3, <1>4, OneJobSteps
<1>6. RepoInv'
  BY <1>0, <1>1, <1>2, <1>4, RepoStays DEF Rollback
<1>7. (JobTx(j) /\ JobGot(j) /\ JobView(j))'
  BY <1>1, EndedJob
<1> QED BY <1>2, <1>5, <1>6, <1>7, AssembleInv

\* A decision reads and writes inside the transaction of its call: there is
\* one, because an earlier failure would have stopped it.
LEMMA DecideStep ==
    ASSUME DInv, NEW c \in Calls, NEW i \in Parts, Decide(c, i)
    PROVE  LET k == ConnOf(c) IN
           /\ c \in Jobs /\ k \in Conns /\ job[c].at = At(i) /\ ~job[c].failed
           /\ job'[c].at = After(i) /\ job'[c].failed = job[c].failed /\ ConnOf(c)' = k
           /\ job'[c].got = job[c].got \cup Part(conn[k].view.rows, i)
           /\ disk' = disk /\ conn[k].tx = Mode(c)
           /\ conn'[k] = IF c \in Updates
                         THEN [conn[k] EXCEPT !.view.rows = @ \cup {<<c, i>>}]
                         ELSE conn[k]
           /\ \A l \in Conns : l # k => conn'[l] = conn[l]
           /\ \A o \in Jobs : o # c => job'[o] = job[o]
<1>1. c \in Jobs /\ ConnOf(c) \in Conns /\ job[c].at = At(i) /\ ~job[c].failed
  BY ConnOfType DEF DInv, Decide, Refuses, Jobs
<1>2. conn[ConnOf(c)].tx = Mode(c) /\ Mode(c) # "none"
  BY <1>1 DEF DInv, JobInv, JobTx, Working, At, MyConn, Mode
<1>3. Sees(c) = conn[ConnOf(c)].view.rows
  BY <1>2 DEF Sees, MyConn
<1>4. /\ job'[c].at = After(i) /\ job'[c].failed = job[c].failed
      /\ job'[c].slot = job[c].slot
      /\ job'[c].got = job[c].got \cup Part(conn[ConnOf(c)].view.rows, i)
      /\ \A o \in Jobs : o # c => job'[o] = job[o]
  BY <1>1, <1>3 DEF Decide, DInv, TypeOK, JobType, Part
<1>5. /\ disk' = disk
      /\ conn' = IF c \in Updates
                 THEN [conn EXCEPT ![ConnOf(c)].view.rows = @ \cup {<<c, i>>}]
                 ELSE conn
  BY <1>1, <1>2 DEF Decide, Insert, MyConn
<1>6. ConnOf(c)' = ConnOf(c)
  BY <1>4 DEF ConnOf
<1>7. conn \in [Conns -> ConnType]
  BY DEF DInv, TypeOK
<1> QED BY <1>1, <1>2, <1>4, <1>5, <1>6, <1>7

LEMMA DecideInv == ASSUME DInv, NEW c \in Calls, NEW i \in Parts, Decide(c, i) PROVE DInv'
<1> DEFINE k == ConnOf(c)
<1>1. /\ c \in Jobs /\ k \in Conns /\ job[c].at = At(i) /\ ~job[c].failed
      /\ job'[c].at = After(i) /\ job'[c].failed = job[c].failed /\ ConnOf(c)' = k
      /\ job'[c].got = job[c].got \cup Part(conn[k].view.rows, i)
      /\ disk' = disk /\ conn[k].tx = Mode(c)
      /\ conn'[k] = IF c \in Updates
                    THEN [conn[k] EXCEPT !.view.rows = @ \cup {<<c, i>>}]
                    ELSE conn[k]
      /\ \A l \in Conns : l # k => conn'[l] = conn[l]
      /\ \A o \in Jobs : o # c => job'[o] = job[o]
  BY DecideStep
<1>2. conn[k] \in ConnType /\ <<c, i>> \in Rows /\ Rows # {} /\ c \notin Procs
  BY <1>1, DatabaseAssumption DEF DInv, TypeOK, Rows, Calls
<1>3. /\ conn'[k] \in ConnType /\ conn'[k].tx = conn[k].tx /\ conn'[k].place = conn[k].place
      /\ conn'[k].view = [conn[k].view EXCEPT !.rows =
                            IF c \in Updates THEN @ \cup {<<c, i>>} ELSE @]
  <2>1. conn[k].view.rows \cup {<<c, i>>} \in SUBSET Rows
    BY <1>2 DEF ConnType, Disks
  <2>2. CASE c \in Updates
    <3>1. conn'[k] = [conn[k] EXCEPT !.view = [conn[k].view EXCEPT
                                                 !.rows = @ \cup {<<c, i>>}]]
      BY <1>1, <1>2, <2>2 DEF ConnType
    <3>2. [conn[k].view EXCEPT !.rows = @ \cup {<<c, i>>}] \in Disks
      BY <1>2, <2>1 DEF ConnType, Disks
    <3> QED BY <1>2, <2>2, <3>1, <3>2 DEF ConnType
  <2>3. CASE c \notin Updates
    BY <1>1, <1>2, <2>3 DEF ConnType, Disks
  <2> QED BY <2>2, <2>3
<1>4. job[c].at \in InTx /\ job[c].at \in Holding /\ job'[c].at \in InTx
      /\ job'[c].at \in {"second", "commit"}
  BY <1>1 DEF At, After, InTx, Holding
<1>5. TypeOK'
  <2>1. conn' \in [Conns -> ConnType]
    BY <1>1, <1>3 DEF Decide, Insert, DInv, TypeOK
  <2>2. job'[c] \in JobType
    <3>1. job'[c].got \in SUBSET Rows
      BY <1>1, <1>2 DEF DInv, TypeOK, ConnType, Disks, JobType, Part
    <3>2. job'[c] = [job[c] EXCEPT !.at = job'[c].at, !.got = job'[c].got]
      BY <1>1 DEF Decide, DInv, TypeOK
    <3> QED BY <1>1, <1>4, <3>1, <3>2 DEF DInv, TypeOK, JobType, Holding
  <2>3. job' \in [Jobs -> JobType]
    BY <2>2, <1>1 DEF Decide, DInv, TypeOK
  <2> QED BY <1>1, <1>2, <1>4, <2>1, <2>3, TypesStay DEF Decide, DInv, TypeOK, Suits
<1>6. OthersStay(c, k)
  BY <1>1, <1>4 DEF OthersStay, DInv, PoolIsClean
<1>7. conn'[k].place = "used"
  BY <1>1, <1>3, <1>4 DEF DInv, PoolIsClean, MyConn
<1>8. PoolIsClean' /\ OneWriter' /\ \A o \in Jobs : o # c => (JobTx(o) /\ JobGot(o) /\ JobView(o))'
  <2> HIDE DEF k
  <2> QED BY <1>1, <1>3, <1>4, <1>5, <1>6, <1>7, OneJobSteps
<1>9. RepoInv'
  BY <1>1, <1>4, <1>5, RepoStays DEF Decide, At
<1>10. (JobTx(c) /\ JobGot(c) /\ JobView(c))'
  <2>1. MyConn(c)' = conn'[k] /\ MyConn(c) = conn[k] /\ ~job'[c].failed
    BY <1>1 DEF MyConn
  <2>2. JobTx(c)' /\ JobGot(c)'
    BY <1>1, <1>3, <1>4, <2>1 DEF JobTx, JobGot, Working, Holding, InTx, Mode, Writes
  <2>3. JobView(c) /\ Working(c)
    BY <1>1 DEF DInv, JobInv, Working, At
  <2>4. i \in {1, 2} /\ (i = 1 => job[c].at = "first" /\ job'[c].at = "second")
        /\ (i = 2 => job[c].at = "second" /\ job'[c].at = "commit")
    BY <1>1 DEF Parts, At, After
  <2>5. \A rs \in SUBSET Rows : Part(rs, 1) \cup Part(rs, 2) = rs
    BY DEF Rows, Parts, Part
  <2>6. conn[k].view.rows \in SUBSET Rows /\ disk \in Disks /\ disk.rows \in SUBSET Rows
    BY <1>2 DEF ConnType, Disks, DInv, TypeOK
  <2>7. CASE c \in Updates
    <3>1. c \notin Views
      BY <2>7, DatabaseAssumption
    <3>2. /\ disk.owner # "other" /\ disk.version = Binary[Home[c]]
          /\ conn[k].view = [disk EXCEPT !.rows = @ \cup Written(c)]
          /\ job[c].got = Read(c, disk.rows)
      BY <1>1, <2>1, <2>3, <2>7 DEF JobView
    <3>3. Written(c)' = Written(c) \cup {<<c, i>>}
      BY <2>4 DEF Written
    <3>4. conn'[k].view = [disk EXCEPT !.rows = @ \cup Written(c)']
      <4>1. conn[k].view.rows = disk.rows \cup Written(c)
        BY <2>6, <3>2 DEF Disks
      <4> QED BY <1>3, <2>6, <2>7, <3>2, <3>3, <4>1 DEF Disks
    <3>5. job'[c].got = Read(c, disk.rows)'
      <4>1. CASE i = 1
        <5>1. conn[k].view.rows = disk.rows
          BY <2>4, <2>6, <3>2, <4>1 DEF Written, Disks
        <5> QED BY <1>1, <2>4, <3>2, <4>1, <5>1 DEF Read
      <4>2. CASE i = 2
        <5>1. conn[k].view.rows = disk.rows \cup {<<c, 1>>}
          BY <2>4, <2>6, <3>2, <4>2 DEF Written, Disks
        <5>2. Part(conn[k].view.rows, 2) = Part(disk.rows, 2)
          BY <5>1 DEF Part
        <5>3. job[c].got = Part(disk.rows, 1)
          BY <2>4, <3>2, <4>2 DEF Read
        <5>4. Read(c, disk.rows)' = disk.rows
          BY <1>1, <2>4, <4>2 DEF Read
        <5> QED BY <1>1, <2>5, <2>6, <4>2, <5>2, <5>3, <5>4
      <4> QED BY <2>4, <4>1, <4>2
    <3> QED BY <1>1, <1>2, <1>4, <2>1, <2>2, <3>1, <3>2, <3>4, <3>5 DEF JobView
  <2>8. CASE c \in Views
    <3>1. c \notin Updates /\ ~Writes(c) /\ conn'[k] = conn[k]
      BY <1>1, <2>8, DatabaseAssumption DEF Writes
    <3>2. /\ conn[k].view.version = Binary[Home[c]]
          /\ job[c].got = Read(c, conn[k].view.rows)
      BY <2>1, <2>3, <2>8 DEF JobView
    <3>3. job'[c].got = Read(c, conn[k].view.rows)'
      <4>1. CASE i = 1
        BY <1>1, <2>4, <3>1, <3>2, <4>1 DEF Read
      <4>2. CASE i = 2
        <5>1. job[c].got = Part(conn[k].view.rows, 1)
          BY <2>4, <3>2, <4>2 DEF Read
        <5>2. Read(c, conn[k].view.rows)' = conn[k].view.rows
          BY <1>1, <2>4, <3>1, <4>2 DEF Read
        <5> QED BY <1>1, <2>5, <2>6, <4>2, <5>1, <5>2
      <4> QED BY <2>4, <4>1, <4>2
    <3>4. Read(c, MyConn(c).view.rows)' = Read(c, conn[k].view.rows)'
      BY <1>1, <2>1 DEF Read
    <3> QED BY <1>1, <1>2, <1>4, <2>1, <2>2, <3>1, <3>2, <3>3, <3>4 DEF JobView, Writes
  <2> QED BY <2>7, <2>8 DEF Calls
<1> QED BY <1>1, <1>5, <1>8, <1>9, <1>10, AssembleInv

LEMMA IgnoreInv == ASSUME DInv, NEW c \in Calls, NEW i \in Parts, Ignore(c, i) PROVE DInv'
<1> DEFINE k == ConnOf(c)
<1>0. /\ c \in Jobs /\ k \in Conns /\ job[c].at = At(i) /\ job[c].at \in InTx
      /\ job[c].at \in Holding /\ c \in Updates /\ c \notin Procs /\ c \notin Views
  BY ConnOfType, DatabaseAssumption DEF DInv, Ignore, Jobs, At, InTx, Holding, Calls
<1>1. /\ job'[c].at = After(i) /\ job'[c].failed /\ ConnOf(c)' = k /\ disk' = disk
      /\ conn'[k].tx \in {"none", conn[k].tx} /\ conn'[k].place = conn[k].place
      /\ conn'[k] \in ConnType
      /\ \A l \in Conns : l # k => conn'[l] = conn[l]
      /\ \A o \in Jobs : o # c => job'[o] = job[o]
  <2>1. [conn[k] EXCEPT !.tx = "none", !.view = Blank] \in ConnType
    BY <1>0 DEF DInv, TypeOK, ConnType, Blank, Disks
  <2>2. conn' \in {conn, [conn EXCEPT ![k].tx = "none", ![k].view = Blank]}
    BY DEF Ignore, Broken
  <2>3. /\ conn'[k].tx \in {"none", conn[k].tx} /\ conn'[k].place = conn[k].place
        /\ conn'[k] \in ConnType
        /\ \A l \in Conns : l # k => conn'[l] = conn[l]
    BY <1>0, <2>1, <2>2 DEF DInv, TypeOK, ConnType
  <2>4. /\ job'[c].at = After(i) /\ job'[c].failed /\ job'[c].slot = job[c].slot
        /\ \A o \in Jobs : o # c => job'[o] = job[o]
    BY <1>0 DEF Ignore, DInv, TypeOK, JobType
  <2> QED BY <2>3, <2>4 DEF Ignore, ConnOf
<1>2. job'[c].at \in {"second", "commit"} /\ job'[c].at \in InTx
  BY <1>1 DEF After, InTx
<1>3. TypeOK'
  <2>1. conn' \in [Conns -> ConnType]
    BY <1>0, <1>1 DEF Ignore, Broken, DInv, TypeOK
  <2>2. job'[c] \in JobType
    <3>1. job'[c] = [job[c] EXCEPT !.at = job'[c].at, !.failed = TRUE]
      BY <1>0, <1>1 DEF Ignore, DInv, TypeOK
    <3> QED BY <1>0, <1>2, <3>1 DEF DInv, TypeOK, JobType, Holding
  <2>3. job' \in [Jobs -> JobType]
    BY <1>0, <2>2 DEF Ignore, DInv, TypeOK
  <2> QED BY <1>0, <1>1, <1>2, <2>1, <2>3, TypesStay DEF Ignore, DInv, TypeOK, Suits
<1>4. OthersStay(c, k)
  BY <1>0, <1>1 DEF OthersStay, DInv, PoolIsClean
<1>5. conn'[k].place = "used"
  BY <1>0, <1>1 DEF DInv, PoolIsClean, MyConn
<1>6. PoolIsClean' /\ OneWriter' /\ \A o \in Jobs : o # c => (JobTx(o) /\ JobGot(o) /\ JobView(o))'
  <2> HIDE DEF k
  <2> QED BY <1>0, <1>1, <1>2, <1>3, <1>4, <1>5, OneJobSteps
<1>7. RepoInv'
  BY <1>0, <1>1, <1>2, <1>3, RepoStays DEF Ignore, At
<1>8. (JobTx(c) /\ JobGot(c) /\ JobView(c))'
  <2>1. MyConn(c)' = conn'[k] /\ conn'[k].tx \in {"none", Mode(c)}
    BY <1>0, <1>1 DEF MyConn, DInv, JobInv, JobTx
  <2> QED BY <1>0, <1>1, <1>2, <2>1 DEF JobTx, JobGot, JobView, Working, Holding, InTx, Mode, Writes
<1> QED BY <1>0, <1>3, <1>6, <1>7, <1>8, AssembleInv

\* A COMMIT of a writer changes the file, and no other job has the lock.
LEMMA CommitInv == ASSUME DInv, NEW j \in Jobs, Commit(j) PROVE DInv'
<1> DEFINE k == ConnOf(j)
           emptied == [conn[k] EXCEPT !.tx = "none", !.view = Blank]
<1>0. k \in Conns /\ job[j].at = "commit" /\ job[j].at \in InTx /\ job[j].at \in Holding
      /\ ~job[j].failed /\ conn[k] \in ConnType
  BY ConnOfType DEF DInv, TypeOK, Commit, Answers, InTx, Holding
<1>1. emptied \in ConnType /\ emptied.tx = "none" /\ emptied.place = conn[k].place
  BY <1>0 DEF ConnType, Blank, Disks
<1>2. \/ conn' = [conn EXCEPT ![k] = Return(k)] /\ j \in Calls /\ Move(j, "ok")
      \/ conn' = [conn EXCEPT ![k] = emptied] /\ j \in Procs /\ Move(j, "checks")
      \/ conn' = [conn EXCEPT ![k] = emptied] /\ Move(j, "rollback")
  <2>1. [conn EXCEPT ![k].tx = "none", ![k].view = Blank] = [conn EXCEPT ![k] = emptied]
    BY <1>0 DEF DInv, TypeOK
  <2>2. \/ conn' = [conn EXCEPT ![k] = Return(k)] /\ j \in Calls /\ Move(j, "ok")
        \/ /\ conn' = [conn EXCEPT ![k].tx = "none", ![k].view = Blank]
           /\ j \in Procs /\ Move(j, "checks")
        \/ /\ conn' = [conn EXCEPT ![k].tx = "none", ![k].view = Blank]
           /\ Move(j, "rollback")
    BY DEF Commit
  <2> QED BY <2>1, <2>2
<1>3. /\ \/ j \in Calls /\ job'[j].at = "ok"
         \/ /\ j \in Procs /\ job'[j].at = "checks"
            /\ conn'[k].place = conn[k].place
         \/ job'[j].at = "rollback" /\ conn'[k].place = conn[k].place
      /\ job'[j].failed = job[j].failed /\ ConnOf(j)' = k
      /\ conn'[k].tx = "none" /\ conn'[k] \in ConnType
      /\ \A l \in Conns : l # k => conn'[l] = conn[l]
      /\ \A i \in Jobs : i # j => job'[i] = job[i]
      /\ conn' \in [Conns -> ConnType] /\ job' \in [Jobs -> JobType]
  <2>1. conn \in [Conns -> ConnType] /\ job \in [Jobs -> JobType]
    BY DEF DInv, TypeOK
  <2> HIDE DEF emptied, k
  <2>2. /\ conn'[k].tx = "none" /\ conn'[k] \in ConnType
        /\ \A l \in Conns : l # k => conn'[l] = conn[l]
        /\ conn' \in [Conns -> ConnType]
    BY <1>0, <1>1, <1>2, <2>1, ReturnType
  <2>3. ASSUME NEW at \in {"ok", "checks", "rollback"}, Move(j, at)
        PROVE  /\ job'[j].at = at /\ job'[j].failed = job[j].failed /\ job'[j].slot = job[j].slot
               /\ \A i \in Jobs : i # j => job'[i] = job[i]
               /\ job' \in [Jobs -> JobType]
    BY <2>1, <2>3 DEF Move, JobType, Holding
  <2>4. job'[j].slot = job[j].slot => ConnOf(j)' = ConnOf(j)
    BY DEF ConnOf
  <2> QED BY <1>0, <1>1, <1>2, <2>1, <2>2, <2>3, <2>4 DEF k
<1>4. disk' = (IF Writes(j) THEN conn[k].view ELSE disk) /\ disk' \in Disks
  BY <1>0 DEF Commit, MyConn, ConnType, DInv, TypeOK
<1>5. disk' = disk \/ conn[k].tx = "write"
  <2>1. conn[k].tx = Mode(j)
    BY <1>0 DEF DInv, JobInv, JobTx, Working, MyConn
  <2> QED BY <1>4, <2>1 DEF Mode
<1>6. TypeOK'
  <2>1. Suits(j, job'[j].at)
    BY <1>3, DatabaseAssumption DEF Suits, Calls
  <2> QED BY <1>3, <1>4, <2>1, TypesStay DEF Commit, DInv, TypeOK
<1>7. OthersStay(j, k)
  BY <1>0, <1>3 DEF OthersStay, DInv, PoolIsClean
<1>8. conn[k].place = "used" /\ (job'[j].at \in Holding => conn'[k].place = "used")
  BY <1>0, <1>3 DEF DInv, PoolIsClean, MyConn, Holding
<1>9. PoolIsClean' /\ OneWriter' /\ \A i \in Jobs : i # j => (JobTx(i) /\ JobGot(i) /\ JobView(i))'
  <2> HIDE DEF k
  <2> QED BY <1>0, <1>3, <1>5, <1>6, <1>7, <1>8, OneJobSteps
<1>10. RepoInv'
  BY <1>0, <1>3, <1>6, RepoStays DEF Commit
<1>11. (JobTx(j) /\ JobGot(j) /\ JobView(j))'
  BY <1>3, EndedJob
<1> QED BY <1>6, <1>9, <1>10, <1>11, AssembleInv

LEMMA MigrateInv == ASSUME DInv, NEW p \in Procs, Migrate(p) PROVE DInv'
<1> DEFINE k == ConnOf(p)
           more == conn[k].view.version < Binary[p]
           next == [conn[k] EXCEPT !.view = [conn[k].view EXCEPT
                      !.version = @ + 1, !.owner = "acp"]]
<1>0. /\ p \in Jobs /\ k \in Conns /\ job[p].at = "migrate" /\ job[p].at \in InTx
      /\ job[p].at \in Holding /\ conn[k] \in ConnType /\ p \notin Calls
      /\ Writes(p) /\ p \notin Updates /\ p \notin Views
  BY ConnOfType, DatabaseAssumption DEF DInv, TypeOK, Migrate, InTx, Holding, Jobs, Calls, Writes
<1>1. /\ next \in ConnType /\ next.tx = conn[k].tx /\ next.place = conn[k].place
      /\ next.view.rows = conn[k].view.rows
      /\ next.view.version = conn[k].view.version + 1
  <2>1. conn[k].view \in Disks
    BY <1>0 DEF ConnType
  <2>2. [conn[k].view EXCEPT !.version = @ + 1, !.owner = "acp"] \in Disks
    <3>1. \A v \in Disks : [v EXCEPT !.version = @ + 1, !.owner = "acp"] \in Disks
      <4> SUFFICES ASSUME NEW v \in Disks
                   PROVE  [v EXCEPT !.version = @ + 1, !.owner = "acp"] \in Disks
        OBVIOUS
      <4>1. v.version \in Nat /\ v.version + 1 \in Nat
        BY DEF Disks
      <4> QED BY <4>1 DEF Disks
    <3> QED BY <2>1, <3>1
  <2> QED BY <1>0, <2>1, <2>2 DEF ConnType, Disks
<1>2. /\ more => conn' = [conn EXCEPT ![k] = next] /\ UNCHANGED job
      /\ ~more => Move(p, "commit") /\ UNCHANGED conn
  <2>1. [conn EXCEPT ![k].view.version = @ + 1, ![k].view.owner = "acp"]
          = [conn EXCEPT ![k] = next]
    BY <1>0 DEF DInv, TypeOK
  <2> QED BY <2>1 DEF Migrate, MyConn
<1>3. /\ job'[p].at \in {"migrate", "commit"} /\ job'[p].failed = job[p].failed
      /\ ConnOf(p)' = k /\ disk' = disk
      /\ conn'[k].tx = conn[k].tx /\ conn'[k].place = conn[k].place
      /\ conn'[k].view.rows = conn[k].view.rows
      /\ conn'[k].view.version \in {conn[k].view.version, conn[k].view.version + 1}
      /\ \A l \in Conns : l # k => conn'[l] = conn[l]
      /\ \A i \in Jobs : i # p => job'[i] = job[i]
      /\ conn' \in [Conns -> ConnType] /\ job' \in [Jobs -> JobType]
  <2>1. conn \in [Conns -> ConnType] /\ job \in [Jobs -> JobType]
    BY DEF DInv, TypeOK
  <2>2. /\ job'[p].at \in {"migrate", "commit"} /\ job'[p].failed = job[p].failed
        /\ job'[p].slot = job[p].slot
        /\ \A i \in Jobs : i # p => job'[i] = job[i]
        /\ job' \in [Jobs -> JobType]
    BY <1>0, <1>2, <2>1 DEF Move, JobType, Holding
  <2>3. ConnOf(p)' = k
    BY <2>2 DEF ConnOf
  <2> HIDE DEF next, more, k
  <2>4. CASE more
    BY <1>0, <1>1, <1>2, <2>1, <2>2, <2>3, <2>4 DEF Migrate
  <2>5. CASE ~more
    BY <1>0, <1>2, <2>1, <2>2, <2>3, <2>5 DEF Migrate
  <2> QED BY <2>4, <2>5
<1>4. TypeOK'
  BY <1>0, <1>3, TypesStay DEF Migrate, DInv, TypeOK, Suits
<1>5. OthersStay(p, k)
  BY <1>0, <1>3 DEF OthersStay, DInv, PoolIsClean
<1>6. conn'[k].place = "used" /\ job'[p].at \in InTx /\ conn[k].tx = "write"
  BY <1>0, <1>3 DEF DInv, TypeOK, PoolIsClean, MyConn, InTx, JobInv, JobTx, Working, Mode
<1>7. PoolIsClean' /\ OneWriter' /\ \A i \in Jobs : i # p => (JobTx(i) /\ JobGot(i) /\ JobView(i))'
  <2> HIDE DEF k
  <2> QED BY <1>0, <1>3, <1>4, <1>5, <1>6, OneJobSteps
<1>8. RepoInv'
  BY <1>0, <1>3, <1>4, RepoStays DEF Migrate
<1>9. (JobTx(p) /\ JobGot(p) /\ JobView(p))'
  <2>1. MyConn(p)' = conn'[k] /\ MyConn(p) = conn[k]
    BY <1>3 DEF MyConn
  <2>2. /\ disk.owner # "other" /\ conn[k].view.rows = disk.rows
        /\ conn[k].view.version >= disk.version
    BY <1>0, <2>1 DEF DInv, JobInv, JobView, Working
  <2>3. disk.version \in Nat /\ conn[k].view.version \in Nat
    BY <1>0 DEF DInv, TypeOK, Disks, ConnType
  <2>4. conn'[k].view.version >= disk.version
    BY <1>3, <2>2, <2>3
  <2>5. JobTx(p)' /\ JobGot(p)'
    BY <1>0, <1>3, <1>6, <2>1 DEF JobTx, JobGot, Working, Holding, InTx, Mode, Writes
  <2>6. JobView(p)'
    BY <1>0, <1>3, <2>1, <2>2, <2>4 DEF JobView, Working, Writes
  <2> QED BY <2>5, <2>6
<1> QED BY <1>0, <1>4, <1>7, <1>8, <1>9, AssembleInv

LEMMA PriorInv == ASSUME DInv, NEW p \in Procs, Prior(p) PROVE DInv'
<1> DEFINE k == ConnOf(p)
<1>0. /\ p \in Jobs /\ k \in Conns /\ job[p].at = "prior" /\ job[p].at \in Holding
      /\ p \notin Calls
  BY ConnOfType, DatabaseAssumption DEF DInv, TypeOK, Prior, Holding, Jobs, Calls
<1>1. /\ job'[p].at \in {"begin", "refused"} /\ job'[p].failed = job[p].failed
      /\ job'[p].got = job[p].got /\ ConnOf(p)' = k /\ disk' = disk /\ conn' = conn
      /\ \A i \in Jobs : i # p => job'[i] = job[i]
      /\ job' \in [Jobs -> JobType]
  BY <1>0 DEF Prior, Move, DInv, TypeOK, JobType, Holding, ConnOf
<1>2. TypeOK'
  BY <1>0, <1>1, TypesStay DEF Prior, DInv, TypeOK, Suits
<1>3. OthersStay(p, k)
  BY <1>0, <1>1 DEF OthersStay, DInv, PoolIsClean
<1>4. conn[k].place = "used" /\ conn[k].tx = "none"
  BY <1>0 DEF DInv, PoolIsClean, MyConn, JobInv, JobTx, Holding, InTx
<1>5. PoolIsClean' /\ OneWriter' /\ \A i \in Jobs : i # p => (JobTx(i) /\ JobGot(i) /\ JobView(i))'
  <2> HIDE DEF k
  <2> QED BY <1>0, <1>1, <1>2, <1>3, <1>4, OneJobSteps
<1>6. RepoInv'
  BY <1>0, <1>1, <1>2, RepoStays DEF Prior
<1>7. (JobTx(p) /\ JobGot(p) /\ JobView(p))'
  <2>1. MyConn(p)' = conn[k] /\ job[p].got = {} /\ ~job[p].failed
    BY <1>0, <1>1 DEF MyConn, DInv, JobInv, JobGot
  <2> QED BY <1>1, <1>4, <2>1 DEF JobTx, JobGot, JobView, Working, Holding, InTx
<1> QED BY <1>0, <1>2, <1>5, <1>6, <1>7, AssembleInv

-----------------------------------------------------------------------------
(* The steps of a process.                                                  *)

LEMMA NewJobType == NewJob \in JobType /\ NewJob.at = "new" /\ NewJob.got = {} /\ ~NewJob.failed
<1>1. (CHOOSE s \in Slots : TRUE) \in Slots
  BY DatabaseAssumption
<1> QED BY <1>1 DEF NewJob, JobType

LEMMA EmptiedType ==
    ASSUME DInv, NEW p \in Procs, NEW all \in BOOLEAN
    PROVE  /\ Emptied(p, all) \in [Conns -> ConnType]
           /\ \A k \in Conns : Emptied(p, all)[k] = conn[k] \/ Emptied(p, all)[k] = Closed
           /\ Closed.tx = "none"
<1>1. Closed \in ConnType /\ Closed.tx = "none"
  BY DEF Closed, Blank, ConnType, Disks
<1> QED BY <1>1 DEF Emptied, DInv, TypeOK

LEMMA OpenInv == ASSUME DInv, NEW p \in Procs, Open(p) PROVE DInv'
<1>1. p \in Jobs /\ p \notin Calls /\ job[p].at = "new" /\ ~job[p].failed
  BY DatabaseAssumption DEF Jobs, Calls, Open, DInv, JobInv, JobGot, RepoInv
<1>2. /\ PoolIsClean' /\ OneWriter' /\ JobInv'
      /\ job' \in [Jobs -> JobType]
      /\ job'[p] = [job[p] EXCEPT !.at = "conn"]
      /\ \A i \in Jobs : i # p => job'[i] = job[i]
  BY <1>1, IdleJobSteps DEF Open
<1>3. job'[p].at = "conn" /\ ~job'[p].failed
  BY <1>1, <1>2 DEF DInv, TypeOK, JobType
<1>4. TypeOK'
  <2>1. repo' \in [Procs -> {"shut", "opening", "open", "closed"}]
    BY DEF Open, DInv, TypeOK
  <2>2. \A i \in Jobs : i \in Calls => job'[i] = job[i]
    BY <1>1, <1>2
  <2> QED BY <1>1, <1>2, <1>3, <2>1, <2>2 DEF Open, DInv, TypeOK, Jobs
<1>5. RepoInv'
  <2>1. repo'[p] = "opening" /\ repo[p] = "shut" /\ \A q \in Procs : q # p => repo'[q] = repo[q]
    BY DEF Open, DInv, TypeOK
  <2>2. \A q \in Procs : job'[q].at = "new" <=> repo'[q] # "opening"
    <3>1. \A q \in Procs : q \in Jobs /\ (job[q].at = "new" <=> repo[q] # "opening")
      BY DEF DInv, RepoInv, Jobs
    <3>2. job'[p].at # "new"
      BY <1>3
    <3> QED BY <1>2, <2>1, <3>1, <3>2
  <2>3. \A c \in Calls : Home[c] \in Procs /\ job'[c] = job[c]
    BY <1>1, <1>2, DatabaseAssumption DEF Jobs, Calls
  <2>4. \A c \in Calls : repo'[Home[c]] \in {"shut", "opening"} =>
                            job'[c].at \in {"new", "ok", "error"}
    BY <2>1, <2>3 DEF DInv, RepoInv
  <2> QED BY <2>2, <2>4 DEF RepoInv
<1> QED BY <1>2, <1>4, <1>5 DEF DInv

LEMMA OpenedInv == ASSUME DInv, NEW p \in Procs, Opened(p) PROVE DInv'
<1> DEFINE k == ConnOf(p)
<1>0. /\ p \in Jobs /\ k \in Conns /\ job[p].at = "checks" /\ job[p].at \in Holding
      /\ job[p].at \notin InTx /\ p \notin Calls
  BY ConnOfType, DatabaseAssumption DEF DInv, TypeOK, Opened, Holding, InTx, Jobs, Calls
<1>1. /\ job'[p] = NewJob /\ disk' = disk /\ conn'[k].tx = "none"
      /\ \A l \in Conns : l # k => conn'[l] = conn[l]
      /\ \A i \in Jobs : i # p => job'[i] = job[i]
      /\ conn' \in [Conns -> ConnType] /\ job' \in [Jobs -> JobType]
  BY <1>0, NewJobType, ReturnType DEF Opened, DInv, TypeOK
<1>2. repo'[p] = "open" /\ \A q \in Procs : q # p => repo'[q] = repo[q]
  BY DEF Opened, DInv, TypeOK
<1>3. TypeOK'
  <2>1. repo' \in [Procs -> {"shut", "opening", "open", "closed"}]
    BY DEF Opened, DInv, TypeOK
  <2>2. \A c \in Calls : job'[c] = job[c]
    BY <1>0, <1>1 DEF Jobs
  <2>3. \A q \in Procs : job'[q].at \notin {"first", "second", "ok", "error"}
    BY <1>0, <1>1, NewJobType DEF DInv, TypeOK, Jobs
  <2>4. \A i \in Jobs : job'[i].failed => i \in Updates
    BY <1>1, NewJobType DEF DInv, TypeOK
  <2> QED BY <1>1, <2>1, <2>2, <2>3, <2>4 DEF Opened, DInv, TypeOK
<1>4. OthersStay(p, k)
  BY <1>0, <1>1 DEF OthersStay, DInv, PoolIsClean
<1>5. job'[p].at = "new" /\ job'[p].at \notin Holding
  BY <1>1, NewJobType DEF Holding
<1>6. PoolIsClean' /\ OneWriter' /\ \A i \in Jobs : i # p => (JobTx(i) /\ JobGot(i) /\ JobView(i))'
  <2> HIDE DEF k
  <2> QED BY <1>0, <1>1, <1>3, <1>4, <1>5, OneJobSteps
<1>7. RepoInv'
  <2>1. \A q \in Procs : job'[q].at = "new" <=> repo'[q] # "opening"
    BY <1>1, <1>2, <1>5 DEF DInv, RepoInv, Jobs
  <2>2. \A c \in Calls : Home[c] \in Procs /\ job'[c] = job[c]
    BY <1>0, <1>1, DatabaseAssumption DEF Jobs, Calls
  <2>3. \A c \in Calls : repo'[Home[c]] \in {"shut", "opening"} =>
                            job'[c].at \in {"new", "ok", "error"}
    BY <1>2, <2>2 DEF DInv, RepoInv
  <2> QED BY <2>1, <2>3 DEF RepoInv
<1>8. (JobTx(p) /\ JobGot(p) /\ JobView(p))'
  BY <1>1, <1>5, NewJobType DEF JobTx, JobGot, JobView, Working, Holding, InTx
<1> QED BY <1>0, <1>3, <1>6, <1>7, <1>8, AssembleInv

\* A pool that closes whole leaves the others as they are, when every job of
\* its process is off.
LEMMA PoolGone ==
    ASSUME DInv, NEW p \in Procs, disk' = disk, conn' = Emptied(p, TRUE),
           \A i \in Jobs : ProcOf(i) # p => job'[i] = job[i],
           \A i \in Jobs : ProcOf(i) = p => job'[i].at \in {"new", "ok", "error"},
           \A i \in Jobs : job'[i].at = "new" => job'[i].got = {} /\ ~job'[i].failed
    PROVE  PoolIsClean' /\ OneWriter' /\ JobInv'
<1>1. \A k \in Conns : conn'[k] = IF k[1] = p THEN Closed ELSE conn[k]
  BY DEF Emptied
<1>2. \A i \in Jobs : ProcOf(i) \in Procs /\ ConnOf(i) \in Conns /\ ConnOf(i)[1] = ProcOf(i)
  BY ConnOfType DEF DInv
<1>3. \A i \in Jobs : ProcOf(i) # p => ConnOf(i)' = ConnOf(i) /\ MyConn(i)' = MyConn(i)
  BY <1>1, <1>2 DEF ConnOf, MyConn
<1>4. \A i \in Jobs : ProcOf(i) = p => job'[i].at \notin Holding
  BY DEF Holding
<1>5. Closed.tx = "none"
  BY DEF Closed
<1>6. PoolIsClean'
  <2>1. \A k \in Conns : conn'[k].tx # "none" =>
           \E i \in Jobs : job'[i].at \in InTx /\ ConnOf(i)' = k
    <3> SUFFICES ASSUME NEW k \in Conns, conn'[k].tx # "none"
                 PROVE  \E i \in Jobs : job'[i].at \in InTx /\ ConnOf(i)' = k
      OBVIOUS
    <3>1. k[1] # p /\ conn[k].tx # "none"
      BY <1>1, <1>5
    <3>2. PICK i \in Jobs : job[i].at \in InTx /\ ConnOf(i) = k
      BY <3>1 DEF DInv, PoolIsClean
    <3> QED BY <1>2, <1>3, <3>1, <3>2
  <2>2. \A i \in Jobs : job'[i].at \in Holding => MyConn(i)'.place = "used"
    BY <1>3, <1>4 DEF DInv, PoolIsClean
  <2>3. \A i, l \in Jobs : job'[i].at \in Holding /\ job'[l].at \in Holding
                             /\ ConnOf(i)' = ConnOf(l)' => i = l
    BY <1>3, <1>4 DEF DInv, PoolIsClean
  <2> QED BY <2>1, <2>2, <2>3 DEF PoolIsClean
<1>7. OneWriter'
  BY <1>1, <1>5 DEF DInv, OneWriter
<1>8. JobInv'
  <2> SUFFICES ASSUME NEW i \in Jobs PROVE (JobTx(i) /\ JobGot(i) /\ JobView(i))'
    BY DEF JobInv
  <2>1. CASE ProcOf(i) # p
    <3>1. job'[i] = job[i] /\ MyConn(i)' = MyConn(i) /\ JobTx(i) /\ JobGot(i) /\ JobView(i)
      BY <1>3, <2>1 DEF DInv, JobInv
    <3> QED BY <3>1 DEF JobTx, JobGot, JobView, Working, Written, Read
  <2>2. CASE ProcOf(i) = p
    <3>1. job'[i].at \in {"new", "ok", "error"}
      BY <2>2
    <3> QED BY <3>1 DEF JobTx, JobGot, JobView, Working, Holding, InTx
  <2> QED BY <2>1, <2>2
<1> QED BY <1>6, <1>7, <1>8

LEMMA OpenFailsInv == ASSUME DInv, NEW p \in Procs, OpenFails(p) PROVE DInv'
<1>0. p \in Jobs /\ p \notin Calls /\ repo[p] = "opening" /\ \A c \in Calls : c \notin Procs
  BY DatabaseAssumption DEF Jobs, Calls, OpenFails, DInv, RepoInv
<1>1. /\ job'[p] = NewJob /\ disk' = disk /\ conn' = Emptied(p, TRUE)
      /\ \A i \in Jobs : i # p => job'[i] = job[i]
      /\ job' \in [Jobs -> JobType]
  BY <1>0, NewJobType DEF OpenFails, DInv, TypeOK
<1>2. repo'[p] = "shut" /\ \A q \in Procs : q # p => repo'[q] = repo[q]
  BY DEF OpenFails, DInv, TypeOK
<1>3. \A c \in Calls : job'[c] = job[c] /\ Home[c] \in Procs
  BY <1>0, <1>1, DatabaseAssumption DEF Jobs, Calls
<1>4. TypeOK'
  <2>1. repo' \in [Procs -> {"shut", "opening", "open", "closed"}]
    BY DEF OpenFails, DInv, TypeOK
  <2>2. \A q \in Procs : job'[q].at \notin {"first", "second", "ok", "error"}
    BY <1>0, <1>1, NewJobType DEF DInv, TypeOK, Jobs
  <2>3. \A i \in Jobs : job'[i].failed => i \in Updates
    BY <1>1, NewJobType DEF DInv, TypeOK
  <2> QED BY <1>1, <1>3, <2>1, <2>2, <2>3, EmptiedType DEF OpenFails, DInv, TypeOK
<1>5. RepoInv'
  <2>1. \A q \in Procs : job'[q].at = "new" <=> repo'[q] # "opening"
    BY <1>1, <1>2, NewJobType DEF DInv, RepoInv, Jobs
  <2>2. \A c \in Calls : repo'[Home[c]] \in {"shut", "opening"} =>
                            job'[c].at \in {"new", "ok", "error"}
    BY <1>0, <1>2, <1>3 DEF DInv, RepoInv
  <2> QED BY <2>1, <2>2 DEF RepoInv
<1>6. PoolIsClean' /\ OneWriter' /\ JobInv'
  <2>1. \A i \in Jobs : ProcOf(i) = p => (i = p \/ (i \in Calls /\ Home[i] = p))
    <3>1. \A i \in Jobs : i \in Procs \/ (i \in Calls /\ i \notin Procs)
      BY <1>0 DEF Jobs
    <3> QED BY <3>1 DEF ProcOf
  <2>2. \A i \in Jobs : ProcOf(i) = p => job'[i].at \in {"new", "ok", "error"}
    BY <1>0, <1>1, <1>3, <2>1, NewJobType DEF DInv, RepoInv
  <2>3. \A i \in Jobs : ProcOf(i) # p => job'[i] = job[i]
    BY <1>0, <1>1 DEF ProcOf
  <2>4. \A i \in Jobs : job'[i].at = "new" => job'[i].got = {} /\ ~job'[i].failed
    BY <1>1, NewJobType DEF DInv, JobInv, JobGot
  <2> QED BY <1>1, <2>2, <2>3, <2>4, PoolGone
<1> QED BY <1>4, <1>5, <1>6 DEF DInv

LEMMA CrashInv == ASSUME DInv, NEW p \in Procs, Crash(p) PROVE DInv'
<1>0. /\ p \in Jobs /\ p \notin Calls
      /\ \A c \in Calls : c \in Jobs /\ c \notin Procs /\ Home[c] \in Procs
  BY DatabaseAssumption DEF Jobs, Calls
<1>1. /\ disk' = disk /\ conn' = Emptied(p, TRUE) /\ job'[p] = NewJob
      /\ \A q \in Procs : q # p => job'[q] = job[q]
      /\ \A c \in Calls : Home[c] # p => job'[c] = job[c]
      /\ \A c \in Calls : Home[c] = p /\ job[c].at \in Holding \cup {"conn"} =>
            job'[c] = [job[c] EXCEPT !.at = "error"]
      /\ \A c \in Calls : Home[c] = p /\ job[c].at \notin Holding \cup {"conn"} =>
            job'[c] = job[c]
  BY <1>0 DEF Crash, Jobs
<1>2. repo'[p] = "shut" /\ \A q \in Procs : q # p => repo'[q] = repo[q]
  BY DEF Crash, DInv, TypeOK
<1>3. \A c \in Calls : /\ job'[c] \in JobType /\ job'[c].failed = job[c].failed
                       /\ job'[c].got = job[c].got
                       /\ job'[c].at = job[c].at \/ job'[c].at = "error"
                       /\ Home[c] = p => job'[c].at \in {"new", "ok", "error"}
  <2> SUFFICES ASSUME NEW c \in Calls
               PROVE  /\ job'[c] \in JobType /\ job'[c].failed = job[c].failed
                      /\ job'[c].got = job[c].got
                      /\ job'[c].at = job[c].at \/ job'[c].at = "error"
                      /\ Home[c] = p => job'[c].at \in {"new", "ok", "error"}
    OBVIOUS
  <2>1. job[c] \in JobType /\ job[c].at \notin {"prior", "migrate", "checks", "refused"}
    BY <1>0 DEF DInv, TypeOK
  <2>2. [job[c] EXCEPT !.at = "error"] \in JobType
    BY <2>1 DEF JobType
  <2>3. job'[c] = job[c] \/ job'[c] = [job[c] EXCEPT !.at = "error"]
    BY <1>1
  <2>4. job[c].at \notin Holding \cup {"conn"} => job[c].at \in {"new", "ok", "error"}
    BY <2>1 DEF JobType
  <2> QED BY <1>1, <2>1, <2>2, <2>3, <2>4 DEF JobType
<1>4. TypeOK'
  <2>1. repo' \in [Procs -> {"shut", "opening", "open", "closed"}] /\ crashes' \in Nat
    BY DEF Crash, DInv, TypeOK
  <2>2. \A q \in Procs : /\ job'[q] \in JobType /\ ~job'[q].failed
                         /\ job'[q].at \notin {"first", "second", "ok", "error"}
    BY <1>0, <1>1, NewJobType, DatabaseAssumption DEF DInv, TypeOK, Jobs, Calls
  <2>3. job' \in [Jobs -> JobType]
    <3>1. DOMAIN job' = Jobs /\ job' = [j \in Jobs |-> job'[j]]
      BY DEF Crash
    <3> QED BY <1>3, <2>2, <3>1 DEF Jobs
  <2>4. \A i \in Jobs : job'[i].failed => i \in Updates
    BY <1>0, <1>3, <2>2 DEF DInv, TypeOK, Jobs
  <2>5. \A c \in Calls : job'[c].at \notin {"prior", "migrate", "checks", "refused"}
    BY <1>3 DEF DInv, TypeOK
  <2> QED BY <1>1, <2>1, <2>2, <2>3, <2>4, <2>5, EmptiedType DEF DInv, TypeOK
<1>5. RepoInv'
  <2>1. \A q \in Procs : job'[q].at = "new" <=> repo'[q] # "opening"
    BY <1>1, <1>2, NewJobType DEF DInv, RepoInv
  <2>2. \A c \in Calls : repo'[Home[c]] \in {"shut", "opening"} =>
                            job'[c].at \in {"new", "ok", "error"}
    BY <1>0, <1>1, <1>2, <1>3 DEF DInv, RepoInv
  <2> QED BY <2>1, <2>2 DEF RepoInv
<1>6. PoolIsClean' /\ OneWriter' /\ JobInv'
  <2>1. \A i \in Jobs : \/ i \in Procs /\ ProcOf(i) = i
                        \/ i \in Calls /\ ProcOf(i) = Home[i]
    BY <1>0 DEF ProcOf, Jobs
  <2>2. \A i \in Jobs : ProcOf(i) = p => job'[i].at \in {"new", "ok", "error"}
    BY <1>1, <1>3, <2>1, NewJobType
  <2>3. \A i \in Jobs : ProcOf(i) # p => job'[i] = job[i]
    BY <1>1, <2>1
  <2>4. \A i \in Jobs : job[i].at = "new" => job[i].got = {} /\ ~job[i].failed
    BY DEF DInv, JobInv, JobGot
  <2>5. \A i \in Jobs : job'[i].at = "new" => job'[i].got = {} /\ ~job'[i].failed
    BY <1>1, <1>3, <2>1, <2>3, <2>4, NewJobType
  <2> QED BY <1>1, <2>2, <2>3, <2>5, PoolGone
<1> QED BY <1>4, <1>5, <1>6 DEF DInv

LEMMA CloseInv == ASSUME DInv, NEW p \in Procs, Close(p) PROVE DInv'
<1>1. /\ \A k \in Conns : conn'[k] = IF k[1] = p /\ conn[k].place = "idle" THEN Closed ELSE conn[k]
      /\ job' = job /\ disk' = disk /\ repo[p] = "open" /\ repo'[p] = "closed"
      /\ \A q \in Procs : q # p => repo'[q] = repo[q]
      /\ conn' \in [Conns -> ConnType] /\ crashes' = crashes
      /\ repo' \in [Procs -> {"shut", "opening", "open", "closed"}]
  BY EmptiedType DEF Close, Emptied, DInv, TypeOK
<1>2. TypeOK'
  BY <1>1 DEF DInv, TypeOK
<1>3. RepoInv'
  <2>1. \A c \in Calls : Home[c] \in Procs
    BY DatabaseAssumption DEF Calls
  <2> QED BY <1>1, <2>1 DEF DInv, RepoInv
<1>4. \A i \in Jobs : ConnOf(i)' = ConnOf(i) /\ ConnOf(i) \in Conns
  BY <1>1, ConnOfType DEF ConnOf, DInv
<1>5. \A i \in Jobs : job[i].at \in Holding => MyConn(i)' = MyConn(i)
  BY <1>1, <1>4 DEF MyConn, DInv, PoolIsClean
<1>6. PoolIsClean'
  <2>1. \A k \in Conns : conn'[k].tx # "none" => conn[k].tx # "none"
    BY <1>1 DEF Closed
  <2> QED BY <1>1, <1>4, <1>5, <2>1 DEF DInv, PoolIsClean
<1>7. OneWriter'
  BY <1>1 DEF DInv, OneWriter, Closed
<1>8. JobInv'
  <2> SUFFICES ASSUME NEW i \in Jobs PROVE (JobTx(i) /\ JobGot(i) /\ JobView(i))'
    BY DEF JobInv
  <2>1. JobTx(i) /\ JobGot(i) /\ JobView(i)
    BY DEF DInv, JobInv
  <2>2. CASE job[i].at \in Holding
    <3>1. MyConn(i)' = MyConn(i)
      BY <1>5, <2>2
    <3> QED BY <1>1, <2>1, <3>1 DEF JobTx, JobGot, JobView, Working, Written, Read
  <2>3. CASE job[i].at \notin Holding
    BY <1>1, <2>1, <2>3 DEF JobTx, JobGot, JobView, Working, Holding, InTx
  <2> QED BY <2>2, <2>3
<1> QED BY <1>2, <1>3, <1>6, <1>7, <1>8 DEF DInv

-----------------------------------------------------------------------------
LEMMA InitDInv == Init => DInv
<1> SUFFICES ASSUME Init PROVE DInv
  OBVIOUS
<1>1. /\ job = [j \in Jobs |-> NewJob] /\ conn = [k \in Conns |-> Closed]
      /\ repo = [p \in Procs |-> "shut"] /\ crashes = 0
  BY DEF Init
<1>2. Closed \in ConnType /\ Closed.tx = "none"
  BY DEF Closed, Blank, ConnType, Disks
<1>3. disk \in Disks
  BY DatabaseAssumption DEF Init, Files, Blank, Disks
<1>4. \A j \in Jobs : job[j].at = "new" /\ ~job[j].failed /\ job[j].got = {}
  BY <1>1, NewJobType
<1>5. TypeOK
  BY <1>1, <1>2, <1>3, <1>4, NewJobType DEF TypeOK, Jobs
<1>6. RepoInv
  BY <1>1, <1>4 DEF RepoInv, Jobs
<1>7. PoolIsClean /\ OneWriter
  BY <1>1, <1>2, <1>4 DEF PoolIsClean, OneWriter, Holding
<1>8. JobInv
  BY <1>4 DEF JobInv, JobTx, JobGot, JobView, Working, Holding, InTx
<1> QED BY <1>5, <1>6, <1>7, <1>8 DEF DInv

LEMMA StepDInv == DInv /\ [Next]_vars => DInv'
<1> SUFFICES ASSUME DInv, [Next]_vars PROVE DInv'
  OBVIOUS
<1>1. ASSUME NEW c \in Calls, CallStep(c) PROVE DInv'
  BY <1>1, StartInv, NoConnInv, NoBeginInv, DecideInv, IgnoreInv DEF CallStep
<1>2. ASSUME NEW j \in Jobs, JobStep(j) PROVE DInv'
  BY <1>2, AcquireInv, BeginInv, ValidateInv, GiveUpInv, CommitInv, RollbackInv DEF JobStep
<1>3. ASSUME NEW p \in Procs, ProcStep(p) PROVE DInv'
  BY <1>3, OpenInv, PriorInv, MigrateInv, OpenedInv, OpenFailsInv, CloseInv, CrashInv DEF ProcStep
<1>4. CASE UNCHANGED vars
  BY <1>4 DEF vars, DInv, TypeOK, RepoInv, PoolIsClean, OneWriter, JobInv, JobTx, JobGot,
       JobView, Working, Written, Read, MyConn, ConnOf
<1> QED BY <1>1, <1>2, <1>3, <1>4 DEF Next

\* Where every job stands, in every reachable state (all of Database).
THEOREM DatabaseInvariant == Spec => []DInv
<1> QED BY InitDInv, StepDInv, PTL DEF Spec

\* No connection goes back to the pool with a transaction open, and no two
\* jobs share a connection (run, rollback, migrate).
THEOREM PoolStaysClean == Spec => []PoolIsClean
<1>1. DInv => PoolIsClean
  BY DEF DInv
<1> QED BY <1>1, DatabaseInvariant, PTL

-----------------------------------------------------------------------------
(* What changes the file, and what the others see of a step.                *)

\* Every step of one job is a step on one connection that no other job holds.
LEMMA OneConnection ==
    ASSUME DInv, NEW j \in Jobs,
           \/ JobStep(j)
           \/ j \in Calls /\ NoBegin(j)
           \/ j \in Calls /\ \E i \in Parts : Decide(j, i) \/ Ignore(j, i)
           \/ j \in Procs /\ (Prior(j) \/ Migrate(j) \/ Opened(j))
    PROVE  \E k \in Conns : OthersStay(j, k)
<1> DEFINE k == ConnOf(j)
<1>1. k \in Conns /\ conn \in [Conns -> ConnType] /\ job \in [Jobs -> JobType]
  BY ConnOfType DEF DInv, TypeOK
<1>2. ASSUME job[j].at \in Holding,
             \A l \in Conns : l # k => conn'[l] = conn[l],
             \A i \in Jobs : i # j => job'[i] = job[i]
      PROVE  \E l \in Conns : OthersStay(j, l)
  <2>1. OthersStay(j, k)
    BY <1>1, <1>2 DEF OthersStay, DInv, PoolIsClean
  <2> QED BY <1>1, <2>1
<1>3. ASSUME NEW s \in Slots, Acquire(j, s) PROVE \E l \in Conns : OthersStay(j, l)
  <2> DEFINE l == <<ProcOf(j), s>>
  <2>1. l \in Conns /\ conn[l].place \in {"idle", "closed"} /\ job[j].at = "conn"
    BY <1>3, ConnOfType DEF DInv, Acquire, Free, Conns
  <2>2. \A i \in Jobs : job[i].at \in Holding => ConnOf(i) # l
    BY <2>1 DEF DInv, PoolIsClean, MyConn
  <2>3. OthersStay(j, l)
    BY <1>1, <1>3, <2>1, <2>2 DEF OthersStay, InTx, Acquire
  <2> QED BY <2>1, <2>3
<1>4. ASSUME Begin(j) \/ Validate(j) PROVE \E l \in Conns : OthersStay(j, l)
  BY <1>1, <1>2, <1>4 DEF Begin, Validate, Move, Holding
<1>5. ASSUME GiveUp(j) PROVE \E l \in Conns : OthersStay(j, l)
  BY <1>1, <1>2, <1>5 DEF GiveUp, Broken, Move, Holding
<1>6. ASSUME Commit(j) PROVE \E l \in Conns : OthersStay(j, l)
  <2>1. job[j].at \in Holding /\ \A i \in Jobs : i # j => job'[i] = job[i]
    BY <1>1, <1>6 DEF Commit, Move, Holding
  <2>2. \A l \in Conns : l # k => conn'[l] = conn[l]
    BY <1>1, <1>6 DEF Commit
  <2> QED BY <1>2, <2>1, <2>2
<1>7. ASSUME Rollback(j) PROVE \E l \in Conns : OthersStay(j, l)
  BY <1>1, <1>2, <1>7 DEF Rollback, Move, Holding
<1>8. ASSUME j \in Calls, NoBegin(j) PROVE \E l \in Conns : OthersStay(j, l)
  BY <1>1, <1>2, <1>8 DEF NoBegin, Move, Holding
<1>9. ASSUME j \in Calls, NEW i \in Parts, Decide(j, i) PROVE \E l \in Conns : OthersStay(j, l)
  <2>1. job[j].at \in Holding
    BY <1>9, DecideStep DEF At, Holding
  <2> QED BY <1>2, <1>9, <2>1, DecideStep
<1>10. ASSUME j \in Calls, NEW i \in Parts, Ignore(j, i) PROVE \E l \in Conns : OthersStay(j, l)
  <2>1. job[j].at \in Holding
    BY <1>10 DEF Ignore, At, Holding
  <2>2. conn' \in {conn, [conn EXCEPT ![k].tx = "none", ![k].view = Blank]}
    BY <1>10 DEF Ignore, Broken
  <2>3. \A l \in Conns : l # k => conn'[l] = conn[l]
    BY <1>1, <2>2
  <2>4. \A i2 \in Jobs : i2 # j => job'[i2] = job[i2]
    BY <1>1, <1>10 DEF Ignore
  <2> QED BY <1>2, <2>1, <2>3, <2>4
<1>11. ASSUME j \in Procs, Prior(j) \/ Migrate(j) \/ Opened(j)
       PROVE  \E l \in Conns : OthersStay(j, l)
  <2>1. job[j].at \in Holding /\ \A i \in Jobs : i # j => job'[i] = job[i]
    BY <1>1, <1>11 DEF Prior, Migrate, Opened, Move, Holding
  <2>2. \A l \in Conns : l # k => conn'[l] = conn[l]
    BY <1>1, <1>11 DEF Prior, Migrate, Opened
  <2> QED BY <1>2, <2>1, <2>2
<1> QED BY <1>3, <1>4, <1>5, <1>6, <1>7, <1>8, <1>9, <1>10, <1>11 DEF JobStep

\* A COMMIT of an opening keeps the rows; one of an update adds its own whole,
\* on the version of its program.
LEMMA CommitOfOpening ==
    ASSUME DInv, NEW p \in Procs, Commit(p)
    PROVE  disk.owner # "other" /\ disk'.rows = disk.rows /\ disk'.version >= disk.version
<1>1. p \in Jobs /\ Writes(p) /\ job[p].at = "commit"
  BY DatabaseAssumption DEF Jobs, Writes, Calls, Commit
<1>2. disk' = MyConn(p).view /\ Working(p) /\ JobView(p)
  BY <1>1 DEF Commit, Working, DInv, JobInv
<1> QED BY <1>2 DEF JobView

LEMMA CommitOfUpdate ==
    ASSUME DInv, NEW c \in Updates, Commit(c)
    PROVE  /\ disk.owner # "other" /\ disk.version = Binary[Home[c]]
           /\ disk'.version = disk.version /\ disk'.rows = disk.rows \cup ({c} \X Parts)
           /\ job[c].got = disk.rows
<1>1. c \in Jobs /\ Writes(c) /\ job[c].at = "commit" /\ ~job[c].failed
  BY DatabaseAssumption DEF Jobs, Writes, Calls, Commit, Answers
<1>2. disk' = MyConn(c).view /\ Working(c) /\ JobView(c)
  BY <1>1 DEF Commit, Working, DInv, JobInv
<1>3. Written(c) = {c} \X Parts /\ Read(c, disk.rows) = disk.rows
  BY <1>1 DEF Written, Read, Parts
<1>4. disk \in Disks
  BY DEF DInv, TypeOK
<1> QED BY <1>1, <1>2, <1>3, <1>4 DEF JobView, Disks

LEMMA CommitOfView ==
    ASSUME DInv, NEW c \in Views, Commit(c)
    PROVE  /\ disk' = disk /\ MyConn(c).view.version = Binary[Home[c]]
           /\ job[c].got = MyConn(c).view.rows
<1>1. c \in Jobs /\ ~Writes(c) /\ job[c].at = "commit"
  BY DEF Jobs, Writes, Calls, Commit
<1>2. disk' = disk /\ Working(c) /\ JobView(c)
  BY <1>1 DEF Commit, Working, DInv, JobInv
<1>3. Read(c, MyConn(c).view.rows) = MyConn(c).view.rows
  BY <1>1 DEF Read
<1> QED BY <1>2, <1>3 DEF JobView

LEMMA MoveOff ==
    ASSUME DInv, NEW j \in Jobs, NEW at, at # "ok", Move(j, at)
    PROVE  \A c \in Calls : job'[c].at = "ok" => job[c].at = "ok"
<1>1. job \in [Jobs -> JobType] /\ \A c \in Calls : c \in Jobs
  BY DEF DInv, TypeOK, Jobs
<1>2. \A i \in Jobs : job[i].at # "ok" => [job[i] EXCEPT !.at = at].at # "ok"
  BY <1>1 DEF JobType
<1> QED BY <1>1, <1>2 DEF Move, JobType

\* Nothing but a COMMIT changes the file, and nothing but a COMMIT answers.
LEMMA OnlyCommit ==
    ASSUME DInv, Next
    PROVE  \/ \E j \in Jobs : Commit(j)
           \/ disk' = disk /\ \A c \in Calls : job'[c].at = "ok" => job[c].at = "ok"
<1>0. job \in [Jobs -> JobType] /\ \A c \in Calls : c \in Jobs
  BY DEF DInv, TypeOK, Jobs
<1>1. ASSUME NEW c \in Calls, CallStep(c)
      PROVE  disk' = disk /\ \A o \in Calls : job'[o].at = "ok" => job[o].at = "ok"
  <2>1. ASSUME NEW i \in Parts, Decide(c, i)
        PROVE  disk' = disk /\ \A o \in Calls : job'[o].at = "ok" => job[o].at = "ok"
    BY <1>0, <2>1, DecideStep DEF After
  <2>2. ASSUME NEW i \in Parts, Ignore(c, i)
        PROVE  disk' = disk /\ \A o \in Calls : job'[o].at = "ok" => job[o].at = "ok"
    BY <1>0, <2>2 DEF Ignore, After
  <2>3. ASSUME Start(c) \/ NoConn(c) \/ NoBegin(c)
        PROVE  disk' = disk /\ \A o \in Calls : job'[o].at = "ok" => job[o].at = "ok"
    BY <1>0, <2>3, MoveOff DEF Start, NoConn, NoBegin
  <2> QED BY <1>1, <2>1, <2>2, <2>3 DEF CallStep
<1>2. ASSUME NEW j \in Jobs, JobStep(j), ~Commit(j)
      PROVE  disk' = disk /\ \A o \in Calls : job'[o].at = "ok" => job[o].at = "ok"
  <2>1. ASSUME NEW s \in Slots, Acquire(j, s)
        PROVE  disk' = disk /\ \A o \in Calls : job'[o].at = "ok" => job[o].at = "ok"
    BY <1>0, <2>1 DEF Acquire
  <2>2. ASSUME Begin(j) \/ Validate(j) \/ GiveUp(j) \/ Rollback(j)
        PROVE  disk' = disk /\ \A o \in Calls : job'[o].at = "ok" => job[o].at = "ok"
    <3>1. ASSUME Begin(j) \/ GiveUp(j)
          PROVE  disk' = disk /\ \A o \in Calls : job'[o].at = "ok" => job[o].at = "ok"
      BY <3>1, MoveOff DEF Begin, GiveUp
    <3>2. ASSUME Validate(j)
          PROVE  disk' = disk /\ \A o \in Calls : job'[o].at = "ok" => job[o].at = "ok"
      BY <3>2, MoveOff DEF Validate
    <3>3. ASSUME Rollback(j)
          PROVE  disk' = disk /\ \A o \in Calls : job'[o].at = "ok" => job[o].at = "ok"
      BY <3>3, MoveOff DEF Rollback
    <3> QED BY <2>2, <3>1, <3>2, <3>3
  <2> QED BY <1>2, <2>1, <2>2 DEF JobStep
<1>3. ASSUME NEW p \in Procs, ProcStep(p)
      PROVE  disk' = disk /\ \A o \in Calls : job'[o].at = "ok" => job[o].at = "ok"
  <2>1. p \in Jobs /\ p \notin Calls
    BY DatabaseAssumption DEF Jobs, Calls
  <2>2. ASSUME Open(p) \/ Prior(p) \/ Migrate(p)
        PROVE  disk' = disk /\ \A o \in Calls : job'[o].at = "ok" => job[o].at = "ok"
    BY <1>0, <2>1, <2>2 DEF Open, Prior, Migrate, Move
  <2>3. ASSUME Opened(p) \/ OpenFails(p) \/ Close(p)
        PROVE  disk' = disk /\ \A o \in Calls : job'[o].at = "ok" => job[o].at = "ok"
    BY <1>0, <2>1, <2>3 DEF Opened, OpenFails, Close
  <2>4. ASSUME Crash(p)
        PROVE  disk' = disk /\ \A o \in Calls : job'[o].at = "ok" => job[o].at = "ok"
    <3>1. \A o \in Calls : job'[o] = job[o] \/ job'[o] = [job[o] EXCEPT !.at = "error"]
      BY <1>0, <2>1, <2>4 DEF Crash
    <3>2. \A o \in Calls : [job[o] EXCEPT !.at = "error"].at # "ok"
      BY <1>0 DEF JobType
    <3>3. \A o \in Calls : job'[o].at = "ok" => job[o].at = "ok"
      BY <3>1, <3>2
    <3> QED BY <2>4, <3>3 DEF Crash
  <2> QED BY <1>3, <2>2, <2>3, <2>4 DEF ProcStep
<1> QED BY <1>1, <1>2, <1>3 DEF Next

LEMMA StepSchema ==
    ASSUME DInv, [Next]_vars
    PROVE  [/\ disk'.version >= disk.version
            /\ disk.owner = "other" => disk' = disk
            /\ \A r \in disk'.rows \ disk.rows : disk.version = Binary[Home[r[1]]]
            /\ \A c \in Views : job'[c].at = "ok" /\ job[c].at # "ok" =>
                 MyConn(c).view.version = Binary[Home[c]]]_vars
<1>0. disk.version \in Nat /\ disk.version >= disk.version
  BY DEF DInv, TypeOK, Disks
<1>1. CASE UNCHANGED vars
  BY <1>1
<1>2. ASSUME disk' = disk, \A c \in Calls : job'[c].at = "ok" => job[c].at = "ok"
      PROVE  /\ disk'.version >= disk.version
             /\ disk.owner = "other" => disk' = disk
             /\ \A r \in disk'.rows \ disk.rows : disk.version = Binary[Home[r[1]]]
             /\ \A c \in Views : job'[c].at = "ok" /\ job[c].at # "ok" =>
                  MyConn(c).view.version = Binary[Home[c]]
  BY <1>0, <1>2 DEF Calls
<1>3. ASSUME NEW j \in Jobs, Commit(j)
      PROVE  /\ disk'.version >= disk.version
             /\ disk.owner = "other" => disk' = disk
             /\ \A r \in disk'.rows \ disk.rows : disk.version = Binary[Home[r[1]]]
             /\ \A c \in Views : job'[c].at = "ok" /\ job[c].at # "ok" =>
                  MyConn(c).view.version = Binary[Home[c]]
  <2>1. \A c \in Calls : c # j => job'[c] = job[c]
    BY <1>3, OneConnection DEF JobStep, OthersStay, Jobs
  <2>2. CASE j \in Procs
    BY <1>3, <2>1, <2>2, CommitOfOpening, DatabaseAssumption DEF Calls
  <2>3. CASE j \in Updates
    <3>1. \A r \in disk'.rows \ disk.rows : r[1] = j
      BY <1>3, <2>3, CommitOfUpdate
    <3>2. j \notin Views
      BY <2>3, DatabaseAssumption
    <3> QED BY <1>0, <1>3, <2>1, <2>3, <3>1, <3>2, CommitOfUpdate DEF Calls
  <2>4. CASE j \in Views
    BY <1>0, <1>3, <2>1, <2>4, CommitOfView DEF Calls
  <2> QED BY <2>2, <2>3, <2>4 DEF Jobs, Calls
<1> QED BY <1>1, <1>2, <1>3, OnlyCommit

\* Only programs of the file's own version write to it or answer from it
\* (validateSchema in every transaction, migrate).
THEOREM SchemaStaysOwn == Spec => SchemaIsOwn
<1>1. DInv /\ [Next]_vars =>
        [/\ disk'.version >= disk.version
         /\ disk.owner = "other" => disk' = disk
         /\ \A r \in disk'.rows \ disk.rows : disk.version = Binary[Home[r[1]]]
         /\ \A c \in Views : job'[c].at = "ok" /\ job[c].at # "ok" =>
              MyConn(c).view.version = Binary[Home[c]]]_vars
  BY StepSchema
<1> QED BY <1>1, DatabaseInvariant, PTL DEF Spec, SchemaIsOwn

-----------------------------------------------------------------------------
(* The adapter implements AtomicStore.                                      *)

PlaceOf == [c \in Calls |-> Place(c)]
SeenOf == [c \in Calls |-> Seen(c)]

\* The calls a step of one job does not touch look the same.
LEMMA OtherCallsLook ==
    ASSUME DInv, NEW j \in Jobs, NEW k \in Conns, OthersStay(j, k)
    PROVE  \A c \in Calls : c # j => Place(c)' = Place(c) /\ Seen(c)' = Seen(c)
<1> SUFFICES ASSUME NEW c \in Calls, c # j
             PROVE  Place(c)' = Place(c) /\ Seen(c)' = Seen(c)
  OBVIOUS
<1>1. c \in Jobs /\ job'[c] = job[c] /\ ConnOf(c) \in Conns /\ ConnOf(c)' = ConnOf(c)
  BY ConnOfType DEF OthersStay, Jobs, DInv, ConnOf
<1>2. job[c].at \in Holding => MyConn(c)' = MyConn(c)
  BY <1>1 DEF OthersStay, MyConn
<1>3. job[c].at \in {"first", "second", "commit"} => job[c].at \in Holding
  BY DEF Holding
<1> QED BY <1>1, <1>2, <1>3 DEF Place, Seen

\* The steps that the promise does not see.
LEMMA QuietStep ==
    ASSUME disk'.rows = disk.rows,
           \A c \in Calls : Place(c)' = Place(c) /\ Seen(c)' = Seen(c)
    PROVE  UNCHANGED Promise!avars
<1>1. PlaceOf' = PlaceOf /\ SeenOf' = SeenOf
  BY DEF PlaceOf, SeenOf
<1> QED BY <1>1 DEF Promise!avars, PlaceOf, SeenOf

\* Calls that end without an answer.
LEMMA FailStep ==
    ASSUME NEW lost \in SUBSET Calls, disk'.rows = disk.rows,
           \A c \in lost : Place(c) = "pending" /\ Place(c)' = "error" /\ Seen(c)' = {<<>>},
           \A c \in Calls \ lost : Place(c)' = Place(c) /\ Seen(c)' = Seen(c)
    PROVE  Promise!ANext
<1>1. PlaceOf' = [c \in Calls |-> IF c \in lost THEN "error" ELSE PlaceOf[c]]
  BY DEF PlaceOf
<1>2. SeenOf' = [c \in Calls |-> IF c \in lost THEN {<<>>} ELSE SeenOf[c]]
  BY DEF SeenOf
<1>3. \A c \in lost : PlaceOf[c] = "pending"
  BY DEF PlaceOf
<1>4. Promise!Fail(lost)
  BY <1>1, <1>2, <1>3 DEF Promise!Fail, Promise!Calls, Promise!Unseen, Calls, PlaceOf, SeenOf
<1> QED BY <1>4 DEF Promise!ANext, Promise!Calls, Calls

\* One call c that moves to the place at, and what it looks like there.
LEMMA OneCall ==
    ASSUME NEW c \in Calls,
           \A o \in Calls : o # c => Place(o)' = Place(o) /\ Seen(o)' = Seen(o)
    PROVE  /\ PlaceOf' = [PlaceOf EXCEPT ![c] = Place(c)']
           /\ SeenOf' = [SeenOf EXCEPT ![c] = Seen(c)']
BY DEF PlaceOf, SeenOf

LEMMA ProcsAreQuiet ==
    ASSUME DInv, NEW p \in Procs, NEW k \in Conns, OthersStay(p, k), disk'.rows = disk.rows
    PROVE  UNCHANGED Promise!avars
<1>1. p \in Jobs /\ p \notin Calls
  BY DatabaseAssumption DEF Jobs, Calls
<1> QED BY <1>1, OtherCallsLook, QuietStep

LEMMA StartImplements == ASSUME DInv, NEW c \in Calls, Start(c) PROVE Promise!ANext
<1>0. c \in Jobs /\ job[c].at = "new" /\ job \in [Jobs -> JobType]
  BY DEF Start, Jobs, DInv, TypeOK
<1>1. job'[c].at = "conn" /\ \A i \in Jobs : i # c => job'[i] = job[i]
  BY <1>0 DEF Start, Move, JobType
<1>2. \A o \in Calls : o # c => Place(o)' = Place(o) /\ Seen(o)' = Seen(o)
  BY <1>0, <1>1 DEF Start, Place, Seen, MyConn, ConnOf, Jobs
<1>3. /\ Place(c) = "new" /\ Place(c)' = "pending"
      /\ Seen(c) = {<<>>} /\ Seen(c)' = {<<>>}
  BY <1>0, <1>1 DEF Place, Seen
<1>4. PlaceOf' = [PlaceOf EXCEPT ![c] = "pending"] /\ SeenOf' = SeenOf /\ PlaceOf[c] = "new"
  <2>1. SeenOf' = [SeenOf EXCEPT ![c] = SeenOf[c]]
    BY <1>2, <1>3, OneCall DEF SeenOf
  <2> QED BY <1>2, <1>3, <2>1, OneCall DEF PlaceOf, SeenOf
<1>5. Promise!Call(c)
  BY <1>4 DEF Promise!Call, PlaceOf, SeenOf, Start
<1> QED BY <1>5 DEF Promise!ANext, Promise!Calls, Calls

\* A call in progress that a step sends to "rollback" or "error" fails.
LEMMA FailsAlone ==
    ASSUME DInv, NEW c \in Calls, NEW k \in Conns, OthersStay(c, k), disk'.rows = disk.rows,
           job[c].at \in {"conn", "begin", "validate", "first", "second", "commit"},
           job'[c].at \in {"rollback", "error"}
    PROVE  Promise!ANext
<1>1. \A o \in Calls \ {c} : Place(o)' = Place(o) /\ Seen(o)' = Seen(o)
  BY OtherCallsLook DEF Jobs
<1>2. Place(c) = "pending" /\ Place(c)' = "error" /\ Seen(c)' = {<<>>}
  BY DEF Place, Seen
<1>3. {c} \in SUBSET Calls /\ \A o \in {c} : o = c
  OBVIOUS
<1> QED BY <1>1, <1>2, <1>3, FailStep

LEMMA NoConnImplements == ASSUME DInv, NEW c \in Calls, NoConn(c) PROVE Promise!ANext
<1>0. c \in Jobs /\ job[c].at = "conn" /\ job \in [Jobs -> JobType]
  BY DEF NoConn, Jobs, DInv, TypeOK
<1>1. job'[c].at = "error" /\ \A i \in Jobs : i # c => job'[i] = job[i]
  BY <1>0 DEF NoConn, Move, JobType
<1>2. \A o \in Calls \ {c} : Place(o)' = Place(o) /\ Seen(o)' = Seen(o)
  BY <1>0, <1>1 DEF NoConn, Place, Seen, MyConn, ConnOf, Jobs
<1>3. Place(c) = "pending" /\ Place(c)' = "error" /\ Seen(c)' = {<<>>}
  BY <1>0, <1>1 DEF Place, Seen
<1>4. {c} \in SUBSET Calls /\ \A o \in {c} : o = c
  OBVIOUS
<1> QED BY <1>2, <1>3, <1>4, FailStep DEF NoConn

\* A call in progress whose look does not change.
LEMMA QuietCall ==
    ASSUME DInv, NEW c \in Calls, NEW k \in Conns, OthersStay(c, k), disk'.rows = disk.rows,
           Place(c)' = Place(c), Seen(c)' = Seen(c)
    PROVE  UNCHANGED Promise!avars
<1>1. \A o \in Calls : Place(o)' = Place(o) /\ Seen(o)' = Seen(o)
  BY OtherCallsLook DEF Jobs
<1> QED BY <1>1, QuietStep

LEMMA DecideImplements ==
    ASSUME DInv, NEW c \in Calls, NEW i \in Parts, Decide(c, i) \/ Ignore(c, i)
    PROVE  UNCHANGED Promise!avars
<1>0. c \in Jobs /\ job \in [Jobs -> JobType] /\ i \in {1, 2}
  BY DEF Jobs, DInv, TypeOK, Parts
<1>1. PICK k \in Conns : OthersStay(c, k)
  BY <1>0, OneConnection
<1>2. CASE Decide(c, i)
  <2>1. /\ job[c].at = At(i) /\ job'[c].at = After(i) /\ ConnOf(c)' = ConnOf(c) /\ disk' = disk
        /\ c \notin Updates => conn'[ConnOf(c)] = conn[ConnOf(c)]
    BY <1>2, DecideStep
  <2>2. c \in Views => c \notin Updates
    BY DatabaseAssumption
  <2>3. Place(c)' = Place(c) /\ Seen(c)' = Seen(c)
    BY <1>0, <2>1, <2>2 DEF Place, Seen, At, After, MyConn
  <2> QED BY <1>1, <2>1, <2>3, QuietCall
<1>3. CASE Ignore(c, i)
  <2>1. job[c].at = At(i) /\ job'[c].at = After(i) /\ disk' = disk /\ c \notin Views
    BY <1>0, <1>3, DatabaseAssumption DEF Ignore, JobType
  <2>2. Place(c)' = Place(c) /\ Seen(c)' = Seen(c)
    BY <1>0, <2>1 DEF Place, Seen, At, After
  <2> QED BY <1>1, <2>1, <2>2, QuietCall
<1> QED BY <1>2, <1>3

LEMMA ValidateImplements ==
    ASSUME DInv, NEW c \in Calls, Validate(c)
    PROVE  [Promise!ANext]_(Promise!avars)
<1>0. c \in Jobs /\ job \in [Jobs -> JobType] /\ conn \in [Conns -> ConnType]
      /\ c \notin Procs /\ ConnOf(c) \in Conns
  BY ConnOfType, DatabaseAssumption DEF Jobs, Calls, DInv, TypeOK
<1>1. PICK k \in Conns : OthersStay(c, k)
  BY <1>0, OneConnection DEF JobStep
<1>2. /\ job[c].at = "validate" /\ job'[c].at \in {"rollback", "first"} /\ disk' = disk
      /\ job'[c].slot = job[c].slot
  BY <1>0 DEF Validate, Move, JobType
<1>3. CASE job'[c].at = "rollback"
  BY <1>1, <1>2, <1>3, FailsAlone
<1>4. CASE job'[c].at = "first" /\ c \in Updates
  <2>1. c \notin Views
    BY <1>4, DatabaseAssumption
  <2>2. Place(c)' = Place(c) /\ Seen(c)' = Seen(c)
    BY <1>2, <1>4, <2>1 DEF Place, Seen
  <2> QED BY <1>1, <1>2, <2>2, QuietCall
<1>5. CASE job'[c].at = "first" /\ c \in Views
  <2>1. MyConn(c)'.view = disk
    <3>1. ConnOf(c)' = ConnOf(c) /\ ~Writes(c)
      BY <1>2, <1>5 DEF ConnOf, Writes
    <3> QED BY <1>0, <1>5, <3>1 DEF Validate, MyConn, ConnType
  <2>2. Place(c) = "pending" /\ Place(c)' = "pending" /\ Seen(c)' = disk.rows
    BY <1>2, <1>5, <2>1 DEF Place, Seen
  <2>3. PlaceOf' = PlaceOf /\ SeenOf' = [SeenOf EXCEPT ![c] = disk.rows] /\ PlaceOf[c] = "pending"
    <3>1. \A o \in Calls : o # c => Place(o)' = Place(o) /\ Seen(o)' = Seen(o)
      BY <1>0, <1>1, OtherCallsLook
    <3>2. PlaceOf' = [PlaceOf EXCEPT ![c] = PlaceOf[c]]
      BY <2>2, <3>1, OneCall DEF PlaceOf
    <3> QED BY <2>2, <3>1, <3>2, OneCall DEF PlaceOf
  <2>4. Promise!Observe(c)
    BY <1>2, <2>3 DEF Promise!Observe, PlaceOf, SeenOf
  <2> QED BY <1>5, <2>4 DEF Promise!ANext
<1> QED BY <1>2, <1>3, <1>4, <1>5 DEF Calls

LEMMA CommitImplements ==
    ASSUME DInv, NEW c \in Calls, Commit(c)
    PROVE  Promise!ANext
<1>0. c \in Jobs /\ job \in [Jobs -> JobType] /\ conn \in [Conns -> ConnType]
      /\ c \notin Procs /\ ConnOf(c) \in Conns
  BY ConnOfType, DatabaseAssumption DEF Jobs, Calls, DInv, TypeOK
<1>1. PICK k \in Conns : OthersStay(c, k)
  BY <1>0, OneConnection DEF JobStep
<1>2. job[c].at = "commit" /\ job'[c].at \in {"ok", "rollback"} /\ job'[c].got = job[c].got
  BY <1>0 DEF Commit, Move, JobType
<1>3. \A o \in Calls : o # c => Place(o)' = Place(o) /\ Seen(o)' = Seen(o)
  BY <1>0, <1>1, OtherCallsLook
<1>4. Place(c) = "pending" /\ PlaceOf[c] = "pending"
  BY <1>2 DEF Place, PlaceOf
<1>5. /\ job'[c].at = "ok" => Place(c)' = "ok" /\ Seen(c)' = job[c].got
      /\ job'[c].at = "rollback" => Place(c)' = "error" /\ Seen(c)' = {<<>>}
  BY <1>2 DEF Place, Seen
<1>6. CASE c \in Updates
  <2>1. disk'.rows = disk.rows \cup ({c} \X Parts) /\ job[c].got = disk.rows
    BY <1>6, CommitOfUpdate
  <2>2. c \notin Views
    BY <1>6, DatabaseAssumption
  <2>3. Seen(c) = {<<>>}
    BY <1>2, <2>2 DEF Seen
  <2>4. CASE job'[c].at = "ok"
    <3>1. PlaceOf' = [PlaceOf EXCEPT ![c] = "ok"] /\ SeenOf' = [SeenOf EXCEPT ![c] = disk.rows]
      BY <1>3, <1>5, <2>1, <2>4, OneCall
    <3>2. Promise!Store(c, "ok")
      BY <1>4, <2>1, <3>1 DEF Promise!Store, PlaceOf, SeenOf
    <3> QED BY <1>6, <3>2 DEF Promise!ANext
  <2>5. CASE job'[c].at = "rollback"
    <3>1. SeenOf' = [SeenOf EXCEPT ![c] = SeenOf[c]]
      BY <1>3, <1>5, <2>3, <2>5, OneCall DEF SeenOf
    <3>2. PlaceOf' = [PlaceOf EXCEPT ![c] = "error"] /\ SeenOf' = SeenOf
      BY <1>3, <1>5, <2>5, <3>1, OneCall DEF SeenOf
    <3>3. Promise!Store(c, "error")
      BY <1>4, <2>1, <3>2 DEF Promise!Store, PlaceOf, SeenOf
    <3> QED BY <1>6, <3>3 DEF Promise!ANext
  <2> QED BY <1>2, <2>4, <2>5
<1>7. CASE c \in Views
  <2>1. disk' = disk /\ job[c].got = MyConn(c).view.rows
    BY <1>7, CommitOfView
  <2>2. Seen(c) = job[c].got
    BY <1>2, <1>7, <2>1 DEF Seen
  <2>3. CASE job'[c].at = "ok"
    <3>1. SeenOf' = [SeenOf EXCEPT ![c] = SeenOf[c]]
      BY <1>3, <1>5, <2>2, <2>3, OneCall DEF SeenOf
    <3>2. PlaceOf' = [PlaceOf EXCEPT ![c] = "ok"] /\ SeenOf' = SeenOf
      BY <1>3, <1>5, <2>3, <3>1, OneCall DEF SeenOf
    <3>3. SeenOf[c] # {<<>>}
      <4>1. job[c].got \in SUBSET Rows
        BY <1>0 DEF JobType
      <4>2. <<>> \notin Rows
        BY DEF Rows
      <4> QED BY <2>2, <4>1, <4>2 DEF SeenOf
    <3>4. Promise!Answer(c)
      BY <1>4, <2>1, <3>2, <3>3 DEF Promise!Answer, Promise!Unseen, PlaceOf, SeenOf
    <3> QED BY <1>7, <3>4 DEF Promise!ANext
  <2>4. CASE job'[c].at = "rollback"
    BY <1>1, <1>2, <2>1, <2>4, FailsAlone
  <2> QED BY <1>2, <2>3, <2>4
<1> QED BY <1>6, <1>7 DEF Calls

LEMMA CallsImplement ==
    ASSUME DInv, NEW c \in Calls, CallStep(c) \/ JobStep(c)
    PROVE  [Promise!ANext]_(Promise!avars)
<1>0. c \in Jobs /\ c \notin Procs /\ job \in [Jobs -> JobType]
  BY DatabaseAssumption DEF Jobs, Calls, DInv, TypeOK
<1>1. ASSUME NoBegin(c) PROVE [Promise!ANext]_(Promise!avars)
  <2>1. PICK k \in Conns : OthersStay(c, k)
    BY <1>0, <1>1, OneConnection
  <2>2. job[c].at = "begin" /\ job'[c].at = "error" /\ disk' = disk
    BY <1>0, <1>1 DEF NoBegin, Move, JobType
  <2> QED BY <2>1, <2>2, FailsAlone
<1>2. ASSUME NEW s \in Slots, Acquire(c, s) PROVE [Promise!ANext]_(Promise!avars)
  <2>1. PICK k \in Conns : OthersStay(c, k)
    BY <1>0, <1>2, OneConnection DEF JobStep
  <2>2. job[c].at = "conn" /\ job'[c].at = "begin" /\ disk' = disk
    BY <1>0, <1>2 DEF Acquire, JobType
  <2>3. Place(c)' = Place(c) /\ Seen(c)' = Seen(c)
    BY <2>2 DEF Place, Seen
  <2> QED BY <2>1, <2>2, <2>3, QuietCall
<1>3. ASSUME Begin(c) PROVE [Promise!ANext]_(Promise!avars)
  <2>1. PICK k \in Conns : OthersStay(c, k)
    BY <1>0, <1>3, OneConnection DEF JobStep
  <2>2. job[c].at = "begin" /\ job'[c].at = "validate" /\ disk' = disk
    BY <1>0, <1>3 DEF Begin, Move, JobType
  <2>3. Place(c)' = Place(c) /\ Seen(c)' = Seen(c)
    BY <2>2 DEF Place, Seen
  <2> QED BY <2>1, <2>2, <2>3, QuietCall
<1>4. ASSUME GiveUp(c) PROVE [Promise!ANext]_(Promise!avars)
  <2>1. PICK k \in Conns : OthersStay(c, k)
    BY <1>0, <1>4, OneConnection DEF JobStep
  <2>2. job[c].at \in {"validate", "migrate", "first", "second", "commit"}
        /\ job[c].at # "migrate" /\ job'[c].at = "rollback" /\ disk' = disk
    BY <1>0, <1>4 DEF GiveUp, Move, JobType, DInv, TypeOK
  <2> QED BY <2>1, <2>2, FailsAlone
<1>5. ASSUME Rollback(c) PROVE [Promise!ANext]_(Promise!avars)
  <2>1. PICK k \in Conns : OthersStay(c, k)
    BY <1>0, <1>5, OneConnection DEF JobStep
  <2>2. job[c].at = "rollback" /\ job'[c].at = "error" /\ disk' = disk
    BY <1>0, <1>5 DEF Rollback, Move, JobType
  <2>3. Place(c)' = Place(c) /\ Seen(c)' = Seen(c)
    BY <2>2 DEF Place, Seen
  <2> QED BY <2>1, <2>2, <2>3, QuietCall
<1> QED BY <1>1, <1>2, <1>3, <1>4, <1>5, StartImplements, NoConnImplements, DecideImplements,
           ValidateImplements, CommitImplements DEF CallStep, JobStep

LEMMA CrashImplements == ASSUME DInv, NEW p \in Procs, Crash(p) PROVE Promise!ANext
<1> DEFINE lost == {c \in Calls : Place(c) = "pending" /\ job'[c].at = "error"}
<1>0. /\ \A c \in Calls : c \in Jobs /\ c # p /\ ProcOf(c) = Home[c] /\ Home[c] \in Procs
      /\ job \in [Jobs -> JobType] /\ p \notin Calls
  BY DatabaseAssumption DEF Jobs, Calls, DInv, TypeOK, ProcOf
<1>1. \A c \in Calls : job[c].at \notin {"prior", "migrate", "checks", "refused"}
  BY DEF DInv, TypeOK
<1>2. \A c \in Calls :
        /\ Home[c] # p \/ job[c].at \notin Holding \cup {"conn"} => job'[c] = job[c]
        /\ Home[c] = p /\ job[c].at \in Holding \cup {"conn"} => job'[c].at = "error"
  <2>1. \A c \in Calls : [job[c] EXCEPT !.at = "error"].at = "error"
    BY <1>0 DEF JobType
  <2> QED BY <1>0, <2>1 DEF Crash
<1>3. \A c \in Calls : job[c].at \in Holding \cup {"conn"} =>
                          Place(c) = "pending" \/ job[c].at = "rollback"
  BY DEF Place, Holding
<1>4. \A c \in lost : Place(c) = "pending" /\ Place(c)' = "error" /\ Seen(c)' = {<<>>}
  BY DEF Place, Seen
<1>5. \A c \in Calls \ lost : Place(c)' = Place(c) /\ Seen(c)' = Seen(c)
  <2> SUFFICES ASSUME NEW c \in Calls, c \notin lost
               PROVE  Place(c)' = Place(c) /\ Seen(c)' = Seen(c)
    OBVIOUS
  <2>1. CASE Home[c] = p /\ job[c].at \in Holding \cup {"conn"}
    <3>1. job[c].at = "rollback" /\ job'[c].at = "error"
      BY <1>2, <1>3, <2>1
    <3> QED BY <3>1 DEF Place, Seen
  <2>2. CASE Home[c] # p
    <3>1. job'[c] = job[c] /\ ConnOf(c) \in Conns /\ ConnOf(c)[1] # p
      BY <1>0, <1>2, <2>2, ConnOfType DEF DInv
    <3>2. ConnOf(c)' = ConnOf(c)
      BY <3>1 DEF ConnOf
    <3>3. MyConn(c)' = MyConn(c)
      BY <3>1, <3>2 DEF Crash, Emptied, MyConn
    <3> QED BY <3>1, <3>3 DEF Place, Seen
  <2>3. CASE Home[c] = p /\ job[c].at \notin Holding \cup {"conn"}
    <3>1. job'[c] = job[c] /\ job[c].at \notin {"first", "second", "commit"}
      BY <1>2, <2>3 DEF Holding
    <3> QED BY <3>1 DEF Place, Seen
  <2> QED BY <2>1, <2>2, <2>3
<1>6. disk' = disk /\ lost \in SUBSET Calls
  BY DEF Crash
<1> HIDE DEF lost
<1> QED BY <1>4, <1>5, <1>6, FailStep

LEMMA ProcsImplement ==
    ASSUME DInv, NEW p \in Procs, ProcStep(p) \/ JobStep(p)
    PROVE  [Promise!ANext]_(Promise!avars)
<1>0. /\ p \in Jobs /\ p \notin Calls /\ job \in [Jobs -> JobType]
      /\ \A c \in Calls : c \in Jobs /\ c # p
  BY DatabaseAssumption DEF Jobs, Calls, DInv, TypeOK
<1>1. ASSUME JobStep(p) PROVE [Promise!ANext]_(Promise!avars)
  <2>1. PICK k \in Conns : OthersStay(p, k)
    BY <1>0, <1>1, OneConnection
  <2>2. disk'.rows = disk.rows
    BY <1>0, <1>1, CommitOfOpening DEF JobStep, Acquire, Begin, Validate, GiveUp, Rollback
  <2> QED BY <2>1, <2>2, ProcsAreQuiet
<1>2. ASSUME Prior(p) \/ Migrate(p) \/ Opened(p) PROVE [Promise!ANext]_(Promise!avars)
  <2>1. PICK k \in Conns : OthersStay(p, k)
    BY <1>0, <1>2, OneConnection
  <2>2. disk' = disk
    BY <1>2 DEF Prior, Migrate, Opened
  <2> QED BY <2>1, <2>2, ProcsAreQuiet
<1>3. ASSUME Open(p) \/ OpenFails(p) \/ Close(p) PROVE [Promise!ANext]_(Promise!avars)
  <2>1. disk' = disk /\ \A c \in Calls : job'[c] = job[c]
    BY <1>0, <1>3 DEF Open, OpenFails, Close, Move
  <2>2. \A c \in Calls : ConnOf(c)' = ConnOf(c) /\ ConnOf(c) \in Conns
    BY <1>0, <2>1, ConnOfType DEF ConnOf, DInv
  <2>3. \A c \in Calls : job[c].at \in Holding => MyConn(c)' = MyConn(c)
    <3>1. CASE Open(p)
      BY <2>2, <3>1 DEF Open, MyConn
    <3>2. CASE Close(p)
      <4>1. \A c \in Calls : job[c].at \in Holding => MyConn(c).place = "used"
        BY <1>0 DEF DInv, PoolIsClean
      <4> QED BY <2>2, <3>2, <4>1 DEF Close, Emptied, MyConn
    <3>3. CASE OpenFails(p)
      <4>1. repo[p] = "opening"
        BY <3>3 DEF OpenFails, DInv, RepoInv
      <4>2. \A c \in Calls : Home[c] = p => job[c].at \in {"new", "ok", "error"}
        BY <4>1 DEF DInv, RepoInv
      <4>3. \A c \in Calls : ProcOf(c) = Home[c]
        BY DatabaseAssumption DEF ProcOf, Calls
      <4>4. \A c \in Calls : job[c].at \in Holding => ConnOf(c)[1] # p
        BY <1>0, <4>2, <4>3, ConnOfType DEF Holding, DInv
      <4> QED BY <2>2, <3>3, <4>4 DEF OpenFails, Emptied, MyConn
    <3> QED BY <1>3, <3>1, <3>2, <3>3
  <2>4. \A c \in Calls : Place(c)' = Place(c) /\ Seen(c)' = Seen(c)
    BY <2>1, <2>3 DEF Place, Seen, Holding
  <2> QED BY <2>1, <2>4, QuietStep
<1>4. ASSUME Crash(p) PROVE [Promise!ANext]_(Promise!avars)
  BY <1>4, CrashImplements
<1> QED BY <1>1, <1>2, <1>3, <1>4 DEF ProcStep

LEMMA StepImplements ==
    ASSUME DInv, [Next]_vars
    PROVE  [Promise!ANext]_(Promise!avars)
<1>1. CASE UNCHANGED vars
  <2>1. \A c \in Calls : Place(c)' = Place(c) /\ Seen(c)' = Seen(c)
    BY <1>1 DEF vars, Place, Seen, MyConn, ConnOf
  <2> QED BY <1>1, <2>1, QuietStep DEF vars
<1>2. CASE Next
  BY <1>2, CallsImplement, ProcsImplement DEF Next, Jobs
<1> QED BY <1>1, <1>2

LEMMA InitImplements == Init => Promise!AInit
<1> SUFFICES ASSUME Init PROVE Promise!AInit
  OBVIOUS
<1>1. \A c \in Calls : job[c].at = "new"
  BY NewJobType DEF Init, Jobs
<1>2. disk.rows = {}
  BY DEF Init, Files, Blank
<1>3. PlaceOf = [c \in Calls |-> "new"] /\ SeenOf = [c \in Calls |-> {<<>>}]
  BY <1>1 DEF PlaceOf, SeenOf, Place, Seen
<1> QED BY <1>2, <1>3 DEF Promise!AInit, Promise!Calls, Promise!Unseen, Calls, PlaceOf, SeenOf

\* Update and View keep the promise of persistence.Repository: a callback's
\* writes are stored whole or not at all over what it read, and a view answers
\* the rows of one moment, whatever fails, stops or races (run, writeValue).
THEOREM AdapterIsAtomic == Spec => ImplementsAtomicStore
<1>1. DInv /\ [Next]_vars => [Promise!ANext]_(Promise!avars)
  BY StepImplements
<1> QED BY <1>1, InitImplements, DatabaseInvariant, PTL
        DEF Spec, ImplementsAtomicStore, Promise!AtomicSpec
=============================================================================

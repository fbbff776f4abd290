------------------------------ MODULE Database ------------------------------
(***************************************************************************)
(* The SQLite adapter under the transaction guard of the core: one database *)
(* file opened by processes of several versions of the program, each with a *)
(* pool of connections, and the calls of Update and View that share them.   *)
(*                                                                          *)
(* An update makes one guarded decision per part, each reading and writing  *)
(* its part of the rows; a view reads the same parts.  Any statement may    *)
(* fail (the context of its call ended, the file is busy, full or broken),  *)
(* and the database may drop the transaction of a statement that failed.    *)
(***************************************************************************)
EXTENDS Naturals

CONSTANTS Procs,       \* processes that open the file
          Binary,      \* the number of migrations each process's program has
          Slots,       \* connections a pool may hold
          Updates, Views,
          Home,        \* the process that makes each call
          MaxCrashes   \* bound

ASSUME DatabaseAssumption ==
    /\ Binary \in [Procs -> Nat \ {0}]
    /\ Home \in [Updates \cup Views -> Procs]
    /\ Updates \cap Views = {}
    /\ (Updates \cup Views) \cap Procs = {}
    /\ Slots # {}
    /\ MaxCrashes \in Nat

VARIABLES disk,    \* the committed file: owner, version, rows
          repo,    \* of each process: "shut", "opening", "open", "closed"
          conn,    \* each connection of each pool
          job,     \* each call, and the opening of each process
          crashes

vars == <<disk, repo, conn, job, crashes>>

Calls == Updates \cup Views
Jobs == Calls \cup Procs
Conns == Procs \X Slots

\* The parts an update writes: two decisions, so that half of it exists.
Parts == {1, 2}
At(i) == IF i = 1 THEN "first" ELSE "second"
After(i) == IF i = 1 THEN "second" ELSE "commit"

Blank == [owner |-> "none", version |-> 0, rows |-> {}]
Closed == [place |-> "closed", tx |-> "none", view |-> Blank]
NewJob == [at |-> "new", slot |-> CHOOSE s \in Slots : TRUE, got |-> {}, failed |-> FALSE]

ProcOf(j) == IF j \in Procs THEN j ELSE Home[j]
ConnOf(j) == <<ProcOf(j), job[j].slot>>
MyConn(j) == conn[ConnOf(j)]
Holding == {"prior", "begin", "validate", "migrate", "first", "second", "commit",
            "checks", "rollback"}
Writes(j) == j \notin Views
Locked == \E k \in Conns : conn[k].tx = "write"

Move(j, at) == job' = [job EXCEPT ![j].at = at]

-----------------------------------------------------------------------------
(* migrations.go: the version a program finds, and whether it takes it.     *)

\* validateHistory: no file of another program, and no version of a newer one.
Ours(d, p) == \/ d.owner = "none" /\ d.version = 0
              \/ d.owner = "acp" /\ d.version \in 1..Binary[p]

(* Mutant of Accepts: only Open looks at the schema.                        *)
AcceptsOnceOpen(j, d) == j \in Procs => Ours(d, j)

\* A call works only on the version of its own program; Open takes an older one.
Accepts(j, d) == /\ Ours(d, ProcOf(j))
                 /\ j \in Calls => d.version = Binary[ProcOf(j)]

-----------------------------------------------------------------------------
(* The pool.                                                                *)

\* A connection that is given back: closed when the repository is.
Return(k) == [Closed EXCEPT !.place = IF repo[k[1]] = "closed" THEN "closed" ELSE "idle"]

\* The pool hands out an idle connection, and opens one only when none is.
Free(k) == \/ conn[k].place = "idle"
           \/ /\ conn[k].place = "closed"
              /\ \A s \in Slots : conn[<<k[1], s>>].place # "idle"

Acquire(j, s) ==
    LET k == <<ProcOf(j), s>> IN
    /\ job[j].at = "conn"
    /\ repo[k[1]] = (IF j \in Procs THEN "opening" ELSE "open")
    /\ Free(k)
    /\ conn' = [conn EXCEPT ![k].place = "used"]
    /\ job' = [job EXCEPT ![j].at = IF j \in Procs THEN "prior" ELSE "begin", ![j].slot = s]
    /\ UNCHANGED <<disk, repo, crashes>>

\* No connection: the repository is closed, or the call waited too long.
NoConn(c) == /\ job[c].at = "conn"
             /\ Move(c, "error")
             /\ UNCHANGED <<disk, repo, conn, crashes>>

\* configure or BEGIN fails; no transaction is open.
NoBegin(c) == /\ job[c].at = "begin"
              /\ Move(c, "error")
              /\ conn' = [conn EXCEPT ![ConnOf(c)] = Return(ConnOf(c))]
              /\ UNCHANGED <<disk, repo, crashes>>

-----------------------------------------------------------------------------
(* run: BEGIN, the schema, the callback, COMMIT, and ROLLBACK otherwise.    *)

Start(c) == /\ job[c].at = "new"
            /\ repo[Home[c]] \in {"open", "closed"}
            /\ Move(c, "conn")
            /\ UNCHANGED <<disk, repo, conn, crashes>>

\* BEGIN IMMEDIATE takes the lock of the file and its present contents; the
\* snapshot of a plain BEGIN is taken by the first read.
Begin(j) ==
    /\ job[j].at = "begin"
    /\ MyConn(j).tx = "none"
    /\ Writes(j) => ~Locked
    /\ conn' = [conn EXCEPT ![ConnOf(j)].tx = IF Writes(j) THEN "write" ELSE "read",
                            ![ConnOf(j)].view = IF Writes(j) THEN disk ELSE @]
    /\ Move(j, "validate")
    /\ UNCHANGED <<disk, repo, crashes>>

\* The first read inside the transaction is validateSchema's.
Validate(j) ==
    LET d == IF Writes(j) THEN MyConn(j).view ELSE disk IN
    /\ job[j].at = "validate"
    /\ conn' = [conn EXCEPT ![ConnOf(j)].view = d]
    /\ Move(j, IF ~Accepts(j, d) THEN "rollback" ELSE IF j \in Procs THEN "migrate" ELSE "first")
    /\ UNCHANGED <<disk, repo, crashes>>

\* What a statement reads: its transaction, or the file when there is none.
Sees(j) == IF MyConn(j).tx = "none" THEN disk.rows ELSE MyConn(j).view.rows

\* A statement that writes outside a transaction is stored at once.
Insert(c, i) ==
    IF MyConn(c).tx = "none"
    THEN /\ disk' = [disk EXCEPT !.rows = @ \cup {<<c, i>>}]
         /\ UNCHANGED conn
    ELSE /\ conn' = [conn EXCEPT ![ConnOf(c)].view.rows = @ \cup {<<c, i>>}]
         /\ UNCHANGED disk

\* The transaction guard: after one decision failed the later ones only
\* repeat its error.
Refuses(c) == job[c].failed

Decide(c, i) ==
    /\ job[c].at = At(i)
    /\ ~Refuses(c)
    /\ job' = [job EXCEPT ![c].at = After(i), ![c].got = @ \cup {r \in Sees(c) : r[2] = i}]
    /\ IF c \in Updates THEN Insert(c, i) ELSE UNCHANGED <<disk, conn>>
    /\ UNCHANGED <<repo, crashes>>

\* A failed statement, after which the database may have rolled back.
Broken(j) == conn' \in {conn, [conn EXCEPT ![ConnOf(j)].tx = "none",
                                           ![ConnOf(j)].view = Blank]}

\* The callback of an update goes on although its decision failed.
Ignore(c, i) ==
    /\ c \in Updates
    /\ job[c].at = At(i)
    /\ IF Refuses(c) THEN UNCHANGED conn ELSE Broken(c)
    /\ job' = [job EXCEPT ![c].at = After(i), ![c].failed = TRUE]
    /\ UNCHANGED <<disk, repo, crashes>>

\* An error ends the transaction: of the schema check, of a migration, of the
\* callback, of the context before COMMIT, or of COMMIT itself.
GiveUp(j) ==
    /\ job[j].at \in {"validate", "migrate", "first", "second", "commit"}
    /\ Broken(j)
    /\ Move(j, "rollback")
    /\ UNCHANGED <<disk, repo, crashes>>

(* Mutant of Answers: a callback that answers nothing wrong is believed.    *)
AnswersOfCallback(c) == job[c].at = "commit"

\* writeValue answers the error a decision left, whatever the callback says.
Answers(c) == ~job[c].failed

\* COMMIT: the lock is released and the contents become the file's.  The
\* caller may hear an error of a COMMIT that took effect.
Commit(j) ==
    /\ job[j].at = "commit"
    /\ Answers(j)
    /\ MyConn(j).tx # "none"
    /\ disk' = IF Writes(j) THEN MyConn(j).view ELSE disk
    /\ \/ /\ conn' = [conn EXCEPT ![ConnOf(j)] = Return(ConnOf(j))]
          /\ j \in Calls /\ Move(j, "ok")
       \/ /\ conn' = [conn EXCEPT ![ConnOf(j)].tx = "none", ![ConnOf(j)].view = Blank]
          /\ j \in Procs /\ Move(j, "checks")
       \/ /\ conn' = [conn EXCEPT ![ConnOf(j)].tx = "none", ![ConnOf(j)].view = Blank]
          /\ Move(j, "rollback")
    /\ UNCHANGED <<repo, crashes>>

(* Mutant of Rollback: the error of ROLLBACK is not looked at.              *)
RollbackUnconfirmed(j) ==
    /\ job[j].at = "rollback"
    /\ conn' \in {[conn EXCEPT ![ConnOf(j)] = Return(ConnOf(j))],
                  [conn EXCEPT ![ConnOf(j)].place = Return(ConnOf(j)).place]}
    /\ Move(j, IF j \in Calls THEN "error" ELSE "refused")
    /\ UNCHANGED <<disk, repo, crashes>>

\* ROLLBACK on a context of its own.  When it is not confirmed, because it
\* failed or because no transaction was open, the connection is discarded.
Rollback(j) ==
    /\ job[j].at = "rollback"
    /\ \/ /\ MyConn(j).tx # "none"
          /\ conn' = [conn EXCEPT ![ConnOf(j)] = Return(ConnOf(j))]
       \/ conn' = [conn EXCEPT ![ConnOf(j)] = Closed]
    /\ Move(j, IF j \in Calls THEN "error" ELSE "refused")
    /\ UNCHANGED <<disk, repo, crashes>>

-----------------------------------------------------------------------------
(* Open, Close, and the process.                                            *)

Open(p) == /\ repo[p] = "shut"
           /\ repo' = [repo EXCEPT ![p] = "opening"]
           /\ Move(p, "conn")
           /\ UNCHANGED <<disk, conn, crashes>>

\* The first look at the file, outside any transaction.
Prior(p) == /\ job[p].at = "prior"
            /\ Move(p, IF Accepts(p, disk) THEN "begin" ELSE "refused")
            /\ UNCHANGED <<disk, repo, conn, crashes>>

\* One missing migration, inside the transaction of all of them.
Migrate(p) ==
    /\ job[p].at = "migrate"
    /\ IF MyConn(p).view.version < Binary[p]
       THEN /\ conn' = [conn EXCEPT ![ConnOf(p)].view.version = @ + 1,
                                    ![ConnOf(p)].view.owner = "acp"]
            /\ UNCHANGED job
       ELSE Move(p, "commit") /\ UNCHANGED conn
    /\ UNCHANGED <<disk, repo, crashes>>

\* The journal mode and the integrity checks passed.
Opened(p) == /\ job[p].at = "checks"
             /\ repo' = [repo EXCEPT ![p] = "open"]
             /\ conn' = [conn EXCEPT ![ConnOf(p)] = Return(ConnOf(p))]
             /\ job' = [job EXCEPT ![p] = NewJob]
             /\ UNCHANGED <<disk, crashes>>

\* Pool of p with every connection closed, used ones when "all" says so.
Emptied(p, all) == [k \in Conns |->
    IF k[1] = p /\ (all \/ conn[k].place = "idle") THEN Closed ELSE conn[k]]

\* Open fails, at once or after a rollback, and closes its pool.
OpenFails(p) == /\ job[p].at \in {"prior", "begin", "checks", "refused"}
                /\ repo' = [repo EXCEPT ![p] = "shut"]
                /\ conn' = Emptied(p, TRUE)
                /\ job' = [job EXCEPT ![p] = NewJob]
                /\ UNCHANGED <<disk, crashes>>

\* Close does not wait for the calls in progress.
Close(p) == /\ repo[p] = "open"
            /\ repo' = [repo EXCEPT ![p] = "closed"]
            /\ conn' = Emptied(p, FALSE)
            /\ UNCHANGED <<disk, job, crashes>>

\* The process stops: the file keeps what was committed, the lock is free.
Crash(p) ==
    /\ repo[p] # "shut" /\ crashes < MaxCrashes
    /\ crashes' = crashes + 1
    /\ repo' = [repo EXCEPT ![p] = "shut"]
    /\ conn' = Emptied(p, TRUE)
    /\ job' = [j \in Jobs |->
                 CASE j = p -> NewJob
                   [] /\ j \in Calls /\ Home[j] = p
                      /\ job[j].at \in Holding \cup {"conn"} -> [job[j] EXCEPT !.at = "error"]
                   [] OTHER -> job[j]]
    /\ UNCHANGED disk

-----------------------------------------------------------------------------
\* The file does not exist, is another program's, or has a version and no row.
Files == {Blank, [Blank EXCEPT !.owner = "other"]}
         \cup {[owner |-> "acp", version |-> Binary[p], rows |-> {}] : p \in Procs}

Init == /\ disk \in Files
        /\ repo = [p \in Procs |-> "shut"]
        /\ conn = [k \in Conns |-> Closed]
        /\ job = [j \in Jobs |-> NewJob]
        /\ crashes = 0

CallStep(c) == \/ Start(c) \/ NoConn(c) \/ NoBegin(c)
               \/ \E i \in Parts : Decide(c, i) \/ Ignore(c, i)

JobStep(j) == \/ \E s \in Slots : Acquire(j, s)
              \/ Begin(j) \/ Validate(j) \/ GiveUp(j) \/ Commit(j) \/ Rollback(j)

ProcStep(p) == \/ Open(p) \/ Prior(p) \/ Migrate(p) \/ Opened(p) \/ OpenFails(p)
               \/ Close(p) \/ Crash(p)

Next == \/ \E c \in Calls : CallStep(c)
        \/ \E j \in Jobs : JobStep(j)
        \/ \E p \in Procs : ProcStep(p)

Spec == Init /\ [][Next]_vars

-----------------------------------------------------------------------------
(* Properties.                                                              *)

InTx == {"validate", "migrate", "first", "second", "commit", "rollback"}

\* A transaction, and with it the lock of the file, belongs to one call or
\* opening that is between its BEGIN and its end: whatever fails on the way,
\* no connection goes back to the pool with a transaction still open, and no
\* two calls share a connection (run, rollback).
PoolIsClean ==
    /\ \A k \in Conns : conn[k].tx # "none" =>
         \E j \in Jobs : job[j].at \in InTx /\ ConnOf(j) = k
    /\ \A j \in Jobs : job[j].at \in Holding => MyConn(j).place = "used"
    /\ \A i, j \in Jobs :
         job[i].at \in Holding /\ job[j].at \in Holding /\ ConnOf(i) = ConnOf(j) => i = j

\* Only programs of the file's own version write or answer from it, even
\* after a newer program has migrated it under an open repository; the
\* version never goes back and the file of another program is never touched
\* (validateSchema inside every transaction, migrate).
SchemaIsOwn ==
    [][/\ disk'.version >= disk.version
       /\ disk.owner = "other" => disk' = disk
       /\ \A r \in disk'.rows \ disk.rows : disk.version = Binary[Home[r[1]]]
       /\ \A c \in Views : job'[c].at = "ok" /\ job[c].at # "ok" =>
            MyConn(c).view.version = Binary[Home[c]]]_vars

\* What persistence.Repository promises: an update is stored whole or not at
\* all over the rows it read, and a view answers the rows of one moment.
Place(c) == CASE job[c].at = "new" -> "new"
              [] job[c].at = "ok" -> "ok"
              [] job[c].at \in {"rollback", "error"} -> "error"
              [] OTHER -> "pending"
Seen(c) == CASE job[c].at = "ok" -> job[c].got
             [] c \in Views /\ job[c].at \in {"first", "second", "commit"} -> MyConn(c).view.rows
             [] OTHER -> {<<>>}

Promise == INSTANCE AtomicStore WITH
    rows <- disk.rows,
    place <- [c \in Calls |-> Place(c)],
    seen <- [c \in Calls |-> Seen(c)]

ImplementsAtomicStore == Promise!AtomicSpec
=============================================================================

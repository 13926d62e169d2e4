------------------------------- MODULE TXODB -------------------------------
(***************************************************************************)
(* electrumz's transaction-output database (TXODB.cxx) as "--preload" runs *)
(* it: main opens the LMDB environment, looks at the statistics of the     *)
(* three tables, and PreLoadBlocks starts a pool of threads twice over the *)
(* block files, once for the outputs (mode 0) and once for the inputs      *)
(* (mode 1).  The threads share the list of files, LMDB's single writer    *)
(* and the size of the memory map, which a thread that finds the map full  *)
(* enlarges before it tries its block again.                               *)
(*                                                                         *)
(* LMDB itself is not part of the repository; mdb_put, mdb_dbi_open,       *)
(* MDB_MAP_FULL and the writer's mutex are modelled from how the code uses *)
(* them.                                                                   *)
(***************************************************************************)
EXTENDS Chain, FiniteSets

CONSTANTS
    Threads,            \* the threads of the pool
    NoThread,           \* a lock nobody holds
    Abandoned,          \* the writer's mutex of a thread that ended inside a transaction
    MAPSIZE_BASE_UNIT,  \* how much IncreaseMapSize adds, in rows
    DefaultMapSize,     \* the map of a new LMDB file, in rows
    MaxFaults,          \* bound: LMDB calls that fail for a reason outside the model
    MaxCrashes          \* bound: times the process dies and is started again

ASSUME TXODBAssumption ==
    /\ Threads # {}
    /\ NoThread \notin Threads
    /\ Abandoned \notin Threads
    /\ Abandoned # NoThread
    /\ MAPSIZE_BASE_UNIT \in Nat \ {0}
    /\ DefaultMapSize \in Nat
    /\ MaxFaults \in Nat
    /\ MaxCrashes \in Nat

VARIABLES
    main,             \* where main and PreLoadBlocks are
    mode,             \* 0: outputs, 1: inputs
    pos_txo,          \* the next block file to hand out
    nBlockFilesDone,  \* files handed out in this pass
    blks_pop_lock,    \* holder of the mutex around pos_txo
    pc,               \* where each thread is
    blk_path,         \* the file each thread is reading
    rec,              \* the record of the file it is at
    row,              \* the output or input of the block it is at
    current_info,     \* the map size IncreaseMapSize read
    resize_lock,      \* holder of the mutex around IncreaseMapSize
    mapsize,          \* the environment's map, in rows
    writer,           \* holder of LMDB's writer mutex (env->me_txn)
    panic,            \* MDB_FATAL_ERROR is set
    disk,             \* the committed tables
    meta,             \* the map size the last commit saved with them
    work,             \* the tables as the open write transaction sees them
    lost,             \* history: pass 0 of this process dropped a block
    faults, crashes   \* history: how much of the two bounds is used

mainVars   == <<main, mode>>
poolVars   == <<pos_txo, nBlockFilesDone, blks_pop_lock>>
placeVars  == <<blk_path, rec, row>>
resizeVars == <<current_info, resize_lock, mapsize>>
storeVars  == <<disk, meta>>
txnVars    == <<writer, panic, work>>
boundVars  == <<faults, crashes>>
vars == <<mainVars, poolVars, pc, placeVars, resizeVars, storeVars, txnVars,
          lost, boundVars>>

-----------------------------------------------------------------------------
(* The tables. *)

Names == {"txo", "addr", "blk"}
DbFlags == {"absent", "plain", "dupsort"}
TxoValues == [n : Nat, spend : OutPoints \cup {NullOutPoint}]
Tables == [dbi  : [Names -> DbFlags],
           blk  : SUBSET Blocks,
           txo  : SUBSET (TxIds \X TxoValues),
           addr : SUBSET (ScriptHashes \X OutPoints)]

EmptyTables == [dbi |-> [d \in Names |-> "absent"], blk |-> {}, txo |-> {}, addr |-> {}]

(***************************************************************************)
(* mdb_dbi_open: MDB_CREATE makes a missing table with the flags asked     *)
(* for; a table that exists keeps the flags it was made with.              *)
(***************************************************************************)
mdb_dbi_open(dbi, dbn, flag) ==
    IF dbi[dbn] = "absent" THEN [dbi EXCEPT ![dbn] = flag] ELSE dbi

(***************************************************************************)
(* mdb_put (MDB_NODUPDATA) and mdb_cursor_put (MDB_APPENDDUP): in a        *)
(* DUPSORT table the value joins the key's others, in a plain one it       *)
(* replaces the key's value.                                               *)
(***************************************************************************)
mdb_put(rows, flag, r) ==
    IF flag = "dupsort" THEN rows \cup {r} ELSE {x \in rows : x[1] # r[1]} \cup {r}

(* The rows of the file: what the map has to hold. *)
RowsIn(db) == Cardinality(db.blk) + Cardinality(db.txo) + Cardinality(db.addr)

-----------------------------------------------------------------------------
(* The block files. *)

File(t) == BlkFiles[blk_path[t]]
Rec(t)  == File(t)[rec[t]]
Blk(t)  == Rec(t).blk
AtEnd(t) == rec[t] \in DOMAIN File(t) => Rec(t).kind = "zero"

(* The rows a pass writes for the block: outputs, then nothing; or inputs. *)
Rows(t) == IF mode = 0 THEN vout[Blk(t)] ELSE vin[Blk(t)]

-----------------------------------------------------------------------------
(* Startup: electrumz.cxx. *)

Init ==
    /\ main = "open" /\ mode = 0
    /\ pos_txo = 1 /\ nBlockFilesDone = 0 /\ blks_pop_lock = NoThread
    /\ pc = [t \in Threads |-> "idle"]
    /\ blk_path = [t \in Threads |-> 0]
    /\ rec = [t \in Threads |-> 1]
    /\ row = [t \in Threads |-> 1]
    /\ current_info = [t \in Threads |-> 0]
    /\ resize_lock = NoThread
    /\ disk = EmptyTables /\ meta = DefaultMapSize
    /\ mapsize = DefaultMapSize
    /\ work = EmptyTables /\ writer = NoThread /\ panic = FALSE
    /\ lost = FALSE /\ faults = 0 /\ crashes = 0

(***************************************************************************)
(* TXODB::Open maps the file at the size saved in it and raises a map      *)
(* smaller than one unit to one unit.                                      *)
(***************************************************************************)
Open ==
    /\ main = "open"
    /\ main' = "txo"
    /\ mapsize' = IF meta < MAPSIZE_BASE_UNIT THEN MAPSIZE_BASE_UNIT ELSE meta
    /\ UNCHANGED <<mode, poolVars, pc, placeVars, current_info, resize_lock,
                   storeVars, txnVars, lost, boundVars>>

(* Which table main asks about next. *)
AfterStats == [txo |-> "addr", addr |-> "blk", blk |-> "preload"]

(***************************************************************************)
(* GetTXOStats through StartTXOTxn: a write transaction of its own that    *)
(* opens the table with MDB_CREATE alone, and commits.  A transaction that *)
(* created nothing leaves the file as it was.                              *)
(***************************************************************************)
StatsFlag == "plain"

GetTXOStats(dbn) ==
    /\ main = dbn
    /\ main' = AfterStats[dbn]
    /\ disk' = [disk EXCEPT !.dbi = mdb_dbi_open(disk.dbi, dbn, StatsFlag)]
    /\ work' = disk'
    /\ meta' = IF disk.dbi[dbn] = "absent" THEN mapsize ELSE meta
    /\ UNCHANGED <<mode, poolVars, pc, placeVars, resizeVars, writer, panic,
                   lost, boundVars>>

(***************************************************************************)
(* An LMDB call of Open or GetTXOStats fails.  Open returns the error and  *)
(* main returns.  GetTXOStats tests the answer of StartTXOTxn the wrong    *)
(* way round: it goes on, and mdb_stat is given a transaction that was not *)
(* begun or a table that was not opened.  It answers an error, on which    *)
(* main returns too, or the process dies of it; either way it is gone.     *)
(* The IncreaseMapSize that StartTXOTxn calls on MDB_MAP_FULL is refused   *)
(* as in SetMapSizeFails, its own transaction being open, and leaves the   *)
(* map as it is.                                                           *)
(***************************************************************************)
StartupFails ==
    /\ main \in {"open"} \cup Names
    /\ faults < MaxFaults
    /\ faults' = faults + 1
    /\ main' = "exited"
    /\ UNCHANGED <<mode, poolVars, pc, placeVars, resizeVars, storeVars, txnVars,
                   lost, crashes>>

-----------------------------------------------------------------------------
(* PreLoadBlocks: the two passes. *)

(* Each pass makes its threads anew, so that their locals start over. *)
NewThreads(at) ==
    /\ pc' = [t \in Threads |-> at]
    /\ blk_path' = [t \in Threads |-> 0]
    /\ rec' = [t \in Threads |-> 1]
    /\ row' = [t \in Threads |-> 1]
    /\ current_info' = [t \in Threads |-> 0]

AllJoined == \A t \in Threads : pc[t] \in {"done", "failed"}

StartPreload ==
    /\ main = "preload"
    /\ main' = "outputs" /\ mode' = 0
    /\ pos_txo' = 1 /\ nBlockFilesDone' = 0
    /\ NewThreads("pop")
    /\ UNCHANGED <<blks_pop_lock, resize_lock, mapsize, storeVars, txnVars,
                   lost, boundVars>>

(* "All outputs are loaded!" *)
JoinOutputs ==
    /\ main = "outputs" /\ AllJoined
    /\ main' = "spends" /\ mode' = 1
    /\ pos_txo' = 1 /\ nBlockFilesDone' = 0
    /\ NewThreads("pop")
    /\ UNCHANGED <<blks_pop_lock, resize_lock, mapsize, storeVars, txnVars,
                   lost, boundVars>>

(* "Preload finished!" *)
JoinSpends ==
    /\ main = "spends" /\ AllJoined
    /\ main' = "finished"
    /\ UNCHANGED <<mode, poolVars, pc, placeVars, resizeVars, storeVars, txnVars,
                   lost, boundVars>>

-----------------------------------------------------------------------------
(* preload_func: handing out files. *)

(***************************************************************************)
(* With blks_pop_lock: the thread sees the end of the list and ends, or    *)
(* takes the path under pos_txo; and, the lock still held, advances it.    *)
(***************************************************************************)
NoMoreFiles(t) ==
    /\ pc[t] = "pop" /\ blks_pop_lock = NoThread
    /\ pos_txo > nBlockFiles
    /\ pc' = [pc EXCEPT ![t] = "done"]
    /\ UNCHANGED <<mainVars, poolVars, placeVars, resizeVars, storeVars, txnVars,
                   lost, boundVars>>

PopFile(t) ==
    /\ pc[t] = "pop"
    /\ blk_path' = [blk_path EXCEPT ![t] = pos_txo]
    /\ nBlockFilesDone' = nBlockFilesDone + 1
    /\ blks_pop_lock' = t
    /\ pc' = [pc EXCEPT ![t] = "advance"]
    /\ UNCHANGED <<mainVars, pos_txo, rec, row, resizeVars, storeVars, txnVars,
                   lost, boundVars>>

(* Mutants of TakeFile: without the mutex, and without looking for the end. *)
TakeFileUnlocked(t) == pos_txo <= nBlockFiles /\ PopFile(t)
TakeFilePastEnd(t) == blks_pop_lock = NoThread /\ PopFile(t)

TakeFile(t) ==
    /\ blks_pop_lock = NoThread
    /\ pos_txo <= nBlockFiles
    /\ PopFile(t)

AdvancePos(t) ==
    /\ pc[t] = "advance"
    /\ pos_txo' = pos_txo + 1
    /\ blks_pop_lock' = NoThread
    /\ rec' = [rec EXCEPT ![t] = 1]
    /\ pc' = [pc EXCEPT ![t] = "read"]
    /\ UNCHANGED <<mainVars, nBlockFilesDone, blk_path, row, resizeVars, storeVars,
                   txnVars, lost, boundVars>>

-----------------------------------------------------------------------------
(* preload_func: reading a file. *)

(* End of file or a zero length: close, mdb_env_sync, and go for the next. *)
EndOfFile(t) ==
    /\ pc[t] = "read" /\ AtEnd(t)
    /\ pc' = [pc EXCEPT ![t] = "pop"]
    /\ UNCHANGED <<mainVars, poolVars, placeVars, resizeVars, storeVars, txnVars,
                   lost, boundVars>>

(* A record the loop passes over: continue, or a caught ios_base::failure. *)
SkipRecord(t) ==
    /\ pc[t] = "read" /\ ~AtEnd(t)
    /\ Rec(t).kind \in SkippedKinds
    /\ rec' = [rec EXCEPT ![t] = rec[t] + 1]
    /\ UNCHANGED <<mainVars, poolVars, pc, blk_path, row, resizeVars, storeVars,
                   txnVars, lost, boundVars>>

FoundBlock(t) ==
    /\ pc[t] = "read" /\ ~AtEnd(t)
    /\ Rec(t).kind = "block"
    /\ pc' = [pc EXCEPT ![t] = "begin"]
    /\ UNCHANGED <<mainVars, poolVars, placeVars, resizeVars, storeVars, txnVars,
                   lost, boundVars>>

-----------------------------------------------------------------------------
(* preload_func: one write transaction per block. *)

(***************************************************************************)
(* mdb_txn_begin waits for the writer's mutex; then the three tables are   *)
(* opened, this time asking for MDB_DUPSORT.                               *)
(***************************************************************************)
OpenTables(dbi) ==
    mdb_dbi_open(mdb_dbi_open(mdb_dbi_open(dbi, "txo", "dupsort"),
                              "addr", "dupsort"), "blk", "plain")

TxnBegin(t) ==
    /\ pc[t] = "begin"
    /\ writer = NoThread /\ ~panic
    /\ writer' = t
    /\ work' = [disk EXCEPT !.dbi = OpenTables(disk.dbi)]
    /\ pc' = [pc EXCEPT ![t] = "header"]
    /\ UNCHANGED <<mainVars, poolVars, placeVars, resizeVars, storeVars, panic,
                   lost, boundVars>>

(* A thread returns err: the rest of its file is not read. *)
GiveUp(t) ==
    /\ pc' = [pc EXCEPT ![t] = "failed"]
    /\ lost' = (lost \/ mode = 0)

(***************************************************************************)
(* The mutex of a writer that ended inside its transaction is recovered by *)
(* the next thread that asks for it, which is told MDB_PANIC; from then on *)
(* so is everyone.                                                         *)
(***************************************************************************)
TxnBeginPanics(t) ==
    /\ pc[t] = "begin"
    /\ writer = Abandoned \/ (panic /\ writer = NoThread)
    /\ writer' = NoThread /\ panic' = TRUE /\ work' = disk
    /\ GiveUp(t)
    /\ UNCHANGED <<mainVars, poolVars, placeVars, resizeVars, storeVars, boundVars>>

(* What the put of the next row makes of the tables. *)
PutHeader(t) == [work EXCEPT !.blk = @ \cup {Blk(t)}]

(* Mutant of PutOutput: out_tx.n keeps the value it has for the first output. *)
PutOutputFirstN(t) ==
    LET o == [vout[Blk(t)][row[t]] EXCEPT !.n = 0]
    IN  [work EXCEPT !.addr = mdb_put(@, work.dbi["addr"], AddrRow(o)),
                     !.txo  = mdb_put(@, work.dbi["txo"], TxoRow(o))]

(***************************************************************************)
(* The two puts of an output.  MDB_KEYEXIST from the first, which only a   *)
(* DUPSORT table answers, skips the second.                                *)
(***************************************************************************)
PutOutput(t) ==
    LET o == vout[Blk(t)][row[t]]
    IN  IF work.dbi["addr"] = "dupsort" /\ AddrRow(o) \in work.addr
        THEN work
        ELSE [work EXCEPT !.addr = mdb_put(@, work.dbi["addr"], AddrRow(o)),
                          !.txo  = mdb_put(@, work.dbi["txo"], TxoRow(o))]

(* InternalSpendTXO: its body is commented out and it returns TXO_OK. *)
InternalSpendTXO(db, prevout, spendingTx) == db

(* An input that is no coinbase's is spent. *)
PutInput(t) ==
    LET i == vin[Blk(t)][row[t]]
    IN  IF i.prevout = NullOutPoint THEN work
        ELSE InternalSpendTXO(work, i.prevout, [hash |-> i.tx, n |-> i.n])

PutRow(t) == IF mode = 0 THEN PutOutput(t) ELSE PutInput(t)

WriteHeader(t) ==
    /\ pc[t] = "header"
    /\ RowsIn(PutHeader(t)) <= mapsize
    /\ work' = PutHeader(t)
    /\ row' = [row EXCEPT ![t] = 1]
    /\ pc' = [pc EXCEPT ![t] = "rows"]
    /\ UNCHANGED <<mainVars, poolVars, blk_path, rec, resizeVars, storeVars,
                   writer, panic, lost, boundVars>>

WriteRow(t) ==
    /\ pc[t] = "rows" /\ row[t] <= Len(Rows(t))
    /\ RowsIn(PutRow(t)) <= mapsize
    /\ work' = PutRow(t)
    /\ row' = [row EXCEPT ![t] = row[t] + 1]
    /\ UNCHANGED <<mainVars, poolVars, pc, blk_path, rec, resizeVars, storeVars,
                   writer, panic, lost, boundVars>>

(* A put answers MDB_MAP_FULL. *)
PutMapFull(t) ==
    \/ pc[t] = "header" /\ RowsIn(PutHeader(t)) > mapsize
    \/ pc[t] = "rows" /\ row[t] <= Len(Rows(t)) /\ RowsIn(PutRow(t)) > mapsize

(* Mutant of MapFull: what fitted is committed before the resize. *)
MapFullCommits(t) ==
    /\ PutMapFull(t)
    /\ disk' = work /\ meta' = mapsize
    /\ writer' = NoThread
    /\ pc' = [pc EXCEPT ![t] = "full"]
    /\ UNCHANGED <<mainVars, poolVars, placeVars, resizeVars, work, panic,
                   lost, boundVars>>

(* The transaction is aborted before the resize. *)
MapFull(t) ==
    /\ PutMapFull(t)
    /\ work' = disk
    /\ writer' = NoThread
    /\ pc' = [pc EXCEPT ![t] = "full"]
    /\ UNCHANGED <<mainVars, poolVars, placeVars, resizeVars, storeVars, panic,
                   lost, boundVars>>

Commit(t) ==
    /\ pc[t] = "rows" /\ row[t] > Len(Rows(t))
    /\ disk' = work /\ meta' = mapsize
    /\ work' = work /\ writer' = NoThread
    /\ rec' = [rec EXCEPT ![t] = rec[t] + 1]
    /\ pc' = [pc EXCEPT ![t] = "read"]
    /\ UNCHANGED <<mainVars, poolVars, blk_path, row, resizeVars, panic,
                   lost, boundVars>>

-----------------------------------------------------------------------------
(* IncreaseMapSize: resize_lock is held over both steps. *)

GetEnvInfo(t) ==
    /\ pc[t] = "full"
    /\ resize_lock' = t
    /\ current_info' = [current_info EXCEPT ![t] = mapsize]
    /\ pc' = [pc EXCEPT ![t] = "resize"]
    /\ UNCHANGED <<mainVars, poolVars, placeVars, mapsize, storeVars, txnVars,
                   lost, boundVars>>

(* Mutant of ReadMapSize: IncreaseMapSize without its mutex. *)
ReadMapSizeUnlocked(t) == GetEnvInfo(t)

ReadMapSize(t) == resize_lock = NoThread /\ GetEnvInfo(t)

NewSize(m) == (m - (m % MAPSIZE_BASE_UNIT)) + MAPSIZE_BASE_UNIT

(* Mutant of SetMapSize: goes on with the next record. *)
SetMapSizeNextRecord(t) ==
    /\ pc[t] = "resize"
    /\ writer = NoThread
    /\ mapsize' = NewSize(current_info[t])
    /\ resize_lock' = NoThread
    /\ rec' = [rec EXCEPT ![t] = rec[t] + 1]
    /\ pc' = [pc EXCEPT ![t] = "read"]
    /\ UNCHANGED <<mainVars, poolVars, blk_path, row, current_info, storeVars, txnVars,
                   lost, boundVars>>

(* goto try_block_again *)
SetMapSize(t) ==
    /\ pc[t] = "resize"
    /\ writer = NoThread
    /\ mapsize' = NewSize(current_info[t])
    /\ resize_lock' = NoThread
    /\ pc' = [pc EXCEPT ![t] = "begin"]
    /\ UNCHANGED <<mainVars, poolVars, placeVars, current_info, storeVars, txnVars,
                   lost, boundVars>>

(* Mutant of SetMapSizeFails: the early return does not unlock. *)
SetMapSizeFailsLocked(t) ==
    /\ pc[t] = "resize"
    /\ writer # NoThread
    /\ GiveUp(t)
    /\ UNCHANGED <<mainVars, poolVars, placeVars, resizeVars, storeVars, txnVars,
                   boundVars>>

(***************************************************************************)
(* mdb_env_set_mapsize answers EINVAL while any thread of the process has  *)
(* a write transaction open: "Failed to increase map size, thread          *)
(* exiting.."                                                              *)
(***************************************************************************)
SetMapSizeFails(t) ==
    /\ pc[t] = "resize"
    /\ writer # NoThread
    /\ resize_lock' = NoThread
    /\ GiveUp(t)
    /\ UNCHANGED <<mainVars, poolVars, placeVars, current_info, mapsize, storeVars,
                   txnVars, boundVars>>

-----------------------------------------------------------------------------
(* LMDB calls that fail for a reason the model does not have. *)

Fault == faults < MaxFaults /\ faults' = faults + 1

(* mdb_txn_begin: the thread returns err. *)
TxnBeginFails(t) ==
    /\ Fault
    /\ pc[t] = "begin" /\ writer = NoThread /\ ~panic
    /\ GiveUp(t)
    /\ UNCHANGED <<mainVars, poolVars, placeVars, resizeVars, storeVars, txnVars,
                   crashes>>

(* A put or open other than MAP_FULL: return err, the transaction left open. *)
PutFails(t) ==
    /\ Fault
    /\ \/ pc[t] = "header"
       \/ pc[t] = "rows" /\ mode = 0 /\ row[t] <= Len(Rows(t))
    /\ writer' = Abandoned
    /\ GiveUp(t)
    /\ UNCHANGED <<mainVars, poolVars, placeVars, resizeVars, storeVars, panic, work,
                   crashes>>

(* mdb_txn_commit: nobody looks at what it returns; the loop goes on. *)
CommitFails(t) ==
    /\ Fault
    /\ pc[t] = "rows" /\ row[t] > Len(Rows(t))
    /\ work' = disk /\ writer' = NoThread
    /\ lost' = (lost \/ mode = 0)
    /\ rec' = [rec EXCEPT ![t] = rec[t] + 1]
    /\ pc' = [pc EXCEPT ![t] = "read"]
    /\ UNCHANGED <<mainVars, poolVars, blk_path, row, resizeVars, storeVars, panic,
                   crashes>>

(* mdb_env_info or mdb_env_set_mapsize: the thread exits. *)
ResizeFails(t) ==
    /\ Fault
    /\ pc[t] = "resize"
    /\ resize_lock' = NoThread
    /\ GiveUp(t)
    /\ UNCHANGED <<mainVars, poolVars, placeVars, current_info, mapsize, storeVars,
                   txnVars, crashes>>

(***************************************************************************)
(* The process dies and is started again with --preload: what was          *)
(* committed, and the map size saved with it, is all that is left.         *)
(***************************************************************************)
Crash ==
    /\ main \notin {"open", "finished", "exited"}
    /\ crashes < MaxCrashes
    /\ crashes' = crashes + 1
    /\ main' = "open" /\ mode' = 0
    /\ pos_txo' = 1 /\ nBlockFilesDone' = 0 /\ blks_pop_lock' = NoThread
    /\ NewThreads("idle")
    /\ resize_lock' = NoThread /\ mapsize' = meta
    /\ work' = disk /\ writer' = NoThread /\ panic' = FALSE
    /\ lost' = FALSE
    /\ UNCHANGED <<storeVars, faults>>

-----------------------------------------------------------------------------
MainStep ==
    \/ Open
    \/ \E dbn \in Names : GetTXOStats(dbn)
    \/ StartPreload \/ JoinOutputs \/ JoinSpends

ThreadStep(t) ==
    \/ NoMoreFiles(t) \/ TakeFile(t) \/ AdvancePos(t)
    \/ EndOfFile(t) \/ SkipRecord(t) \/ FoundBlock(t)
    \/ TxnBegin(t) \/ TxnBeginPanics(t)
    \/ WriteHeader(t) \/ WriteRow(t) \/ MapFull(t) \/ Commit(t)
    \/ ReadMapSize(t) \/ SetMapSize(t) \/ SetMapSizeFails(t)

ThreadFault(t) ==
    TxnBeginFails(t) \/ PutFails(t) \/ CommitFails(t) \/ ResizeFails(t)

(* main has returned. *)
Ended == main \in {"finished", "exited"} /\ UNCHANGED vars

Next ==
    \/ MainStep \/ StartupFails
    \/ \E t \in Threads : ThreadStep(t) \/ ThreadFault(t)
    \/ Crash
    \/ Ended

Spec == Init /\ [][Next]_vars

(***************************************************************************)
(* The scheduler runs every thread that can run.  No thread needs more:    *)
(* who waits for a mutex waits for threads that have finitely much to do.  *)
(***************************************************************************)
Fairness == WF_vars(MainStep) /\ \A t \in Threads : WF_vars(ThreadStep(t))

FairSpec == Spec /\ Fairness
-----------------------------------------------------------------------------
(* What holds. *)

MainStates == {"open", "preload", "outputs", "spends", "finished", "exited"} \cup Names
ThreadStates == {"idle", "pop", "advance", "read", "begin", "header", "rows", "full",
                 "resize", "done", "failed"}

(***************************************************************************)
(* The types of the loader's state: pos_txo stays within the list of files *)
(* (one past it at the end), and a thread that is past the pop has a file. *)
(***************************************************************************)
TypeOK ==
    /\ main \in MainStates
    /\ mode \in {0, 1}
    /\ pos_txo \in 1..(nBlockFiles + 1)
    /\ nBlockFilesDone \in 0..nBlockFiles
    /\ blks_pop_lock \in Threads \cup {NoThread}
    /\ pc \in [Threads -> ThreadStates]
    /\ blk_path \in [Threads -> 0..nBlockFiles]
    /\ rec \in [Threads -> Nat \ {0}]
    /\ row \in [Threads -> Nat \ {0}]
    /\ current_info \in [Threads -> Nat]
    /\ resize_lock \in Threads \cup {NoThread}
    /\ mapsize \in Nat
    /\ writer \in Threads \cup {NoThread, Abandoned}
    /\ panic \in BOOLEAN
    /\ disk \in Tables
    /\ meta \in Nat
    /\ work \in Tables
    /\ lost \in BOOLEAN
    /\ faults \in Nat
    /\ crashes \in Nat

(* A thread is somewhere in the file it took. *)
HasFile(t) == pc[t] \notin {"idle", "pop", "done", "failed"}

(***************************************************************************)
(* In one pass every block file goes to one thread: two threads never read *)
(* the same file, a file being read is one that was handed out, and the    *)
(* count printed as progress is the number of files handed out.            *)
(***************************************************************************)
EachFileOnce ==
    /\ \A s, t \in Threads :
          s # t /\ HasFile(s) /\ HasFile(t) => blk_path[s] # blk_path[t]
    /\ nBlockFilesDone = IF blks_pop_lock = NoThread THEN pos_txo - 1 ELSE pos_txo
    /\ \A t \in Threads : HasFile(t) => blk_path[t] \in 1..nBlockFilesDone

(***************************************************************************)
(* Whatever the threads, faults and crashes did, the committed indexes     *)
(* agree: every row belongs to an output of a block whose header is        *)
(* stored, and the transaction an address points to is in the txo table.   *)
(***************************************************************************)
RowsOfStoredBlocks ==
    /\ \A r \in disk.txo  : \E b \in disk.blk : r \in TxoRows(b)
    /\ \A r \in disk.addr : \E b \in disk.blk : r \in AddrRows(b)
AddrFindsTxo == \A r \in disk.addr : HasKey(disk.txo, r[2].hash)
IndexConsistent == RowsOfStoredBlocks /\ AddrFindsTxo

(* The records of a file that come before its zero tail. *)
Reached(f) == {i \in 1..Len(BlkFiles[f]) :
                  \A j \in 1..i : BlkFiles[f][j].kind # "zero"}

(* The block's header is stored and every key of its outputs leads somewhere. *)
Indexed(db, b) ==
    /\ b \in db.blk
    /\ \A o \in OutputsOf(b) : HasKey(db.txo, o.tx) /\ HasKey(db.addr, o.sh)

FileIndexed(f) == \A i \in Reached(f) :
    BlkFiles[f][i].kind = "block" => Indexed(disk, BlkFiles[f][i].blk)

AllBlocksIndexed == \A f \in 1..nBlockFiles : FileIndexed(f)

(***************************************************************************)
(* When "All outputs are loaded!" is logged, every block of every file is  *)
(* indexed, unless a thread of the first pass gave up or a commit failed   *)
(* on the way: no interleaving of pops, aborts, resizes and retries, and   *)
(* no crash and restart before, skips a block by itself.                   *)
(***************************************************************************)
LoadedUnlessLost == main \in {"spends", "finished"} /\ ~lost => AllBlocksIndexed

(***************************************************************************)
(* The map only grows while the process lives, and a resize that succeeds  *)
(* gives the retried block room that the failed attempt did not have:      *)
(* IncreaseMapSize never applies a size computed from an outdated one.     *)
(***************************************************************************)
ResizesGrow ==
    main' # "open" =>
        /\ mapsize' >= mapsize
        /\ \A t \in Threads :
              pc[t] = "resize" /\ pc'[t] = "begin" => mapsize' > mapsize

MapGrows == [][ResizesGrow]_vars

(* The committed tables change by whole blocks: TXOIndex. *)
Index == INSTANCE TXOIndex WITH blk <- disk.blk, txo <- disk.txo, addr <- disk.addr
CommitsWholeBlocks == Index!Spec

(***************************************************************************)
(* PreLoadBlocks ends: no thread waits forever for a file, for the writer  *)
(* or for the resize, also when a thread ends inside a transaction.        *)
(***************************************************************************)
PreloadEnds == <>(main \in {"finished", "exited"})

-----------------------------------------------------------------------------
(* What the code says of itself and does not keep. *)

(***************************************************************************)
(* "All outputs are loaded!" (TXODB.cxx:610), taken at its word: the log   *)
(* line is only reached with every block of every file indexed.            *)
(***************************************************************************)
AllOutputsLoaded == main \in {"spends", "finished"} => AllBlocksIndexed

(***************************************************************************)
(* The same line for the outputs one by one: every output of a stored      *)
(* block has its own row under its transaction.  The tables are asked for  *)
(* with MDB_DUPSORT, and the comparison function sorts the outputs of a    *)
(* transaction by n (TXODB.cxx:416).                                       *)
(***************************************************************************)
EveryOutputStored ==
    main \in {"spends", "finished"} => \A b \in disk.blk : TxoRows(b) \subseteq disk.txo

(***************************************************************************)
(* InternalSpendTXO "Marks an output as spent by txin.prevout"             *)
(* (TXODB.h:47): after the second pass no output that an input of a stored *)
(* block spends is still without a spender.                                *)
(***************************************************************************)
SpentOutputsMarked ==
    main = "finished" =>
        \A b \in disk.blk : \A k \in DOMAIN vin[b] : \A r \in disk.txo :
            vin[b][k].prevout = [hash |-> r[1], n |-> r[2].n] => r[2].spend # NullOutPoint
=============================================================================

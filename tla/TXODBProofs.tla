---------------------------- MODULE TXODBProofs ----------------------------
(***************************************************************************)
(* Proofs about the loader, for any number of threads, files and blocks.   *)
(*                                                                         *)
(* The first part is about its threads: the types, the hand-out of the     *)
(* files and the resize of the map.  The second is about what they store:  *)
(* the loader implements TXOIndex, the committed indexes agree, and a      *)
(* first pass in which nobody gave up has indexed every block.             *)
(***************************************************************************)
EXTENDS TXODB, TLAPS

-----------------------------------------------------------------------------
(* The inductive invariant. *)

(* A mutex is held exactly by the thread inside its critical section. *)
LockInv == \A t \in Threads :
    /\ blks_pop_lock = t <=> pc[t] = "advance"
    /\ resize_lock = t <=> pc[t] = "resize"
    /\ writer = t <=> pc[t] \in {"header", "rows"}

(* Before the pool is started nothing is held. *)
PhaseInv ==
    /\ main \in {"open", "preload", "exited"} \cup Names =>
          /\ \A t \in Threads : pc[t] = "idle"
          /\ writer = NoThread
    /\ main \in {"outputs", "spends", "finished"} =>
          \A t \in Threads : pc[t] # "idle"
    /\ main = "outputs" => mode = 0
    /\ main \in {"spends", "finished"} => mode = 1

(* Inside the hand-out there is a file at pos_txo, and it is the thread's. *)
PopInv ==
    /\ blks_pop_lock # NoThread => pos_txo <= nBlockFiles
    /\ \A t \in Threads : pc[t] = "advance" => blk_path[t] = pos_txo

(* A thread between its block's first transaction and its commit is at a block. *)
AtBlock == {"begin", "header", "rows", "full", "resize"}
PlaceInv == \A t \in Threads :
    pc[t] \in AtBlock => rec[t] \in DOMAIN File(t) /\ Rec(t).kind = "block"

(* The size IncreaseMapSize read is still the map's; Open finds the saved one. *)
ResizeInv ==
    /\ \A t \in Threads : pc[t] = "resize" => current_info[t] = mapsize
    /\ main = "open" => mapsize = meta

Inv ==
    /\ TypeOK
    /\ LockInv
    /\ PhaseInv
    /\ PopInv
    /\ EachFileOnce
    /\ PlaceInv
    /\ ResizeInv

-----------------------------------------------------------------------------
(* Facts about the tables. *)

(* A block the loader works on is one of Blocks. *)
LEMMA BlkType ==
    ASSUME TypeOK, PlaceInv, EachFileOnce, NEW t \in Threads, pc[t] \in AtBlock
    PROVE  Blk(t) \in Blocks
  <1>1. File(t) \in Seq(Records)
    <2>1. blk_path[t] \in DOMAIN BlkFiles
      <3>1. HasFile(t)
        BY DEF HasFile, AtBlock
      <3>2. blk_path[t] \in 1..nBlockFiles
        BY <3>1 DEF EachFileOnce, TypeOK
      <3>. QED  BY <3>2, ChainAssumption DEF ChainAssumption, nBlockFiles
    <2>. QED  BY <2>1, ChainAssumption DEF ChainAssumption, File
  <1>2. Rec(t) \in Records /\ Rec(t).kind = "block"
    BY <1>1 DEF PlaceInv, Rec
  <1>3. QED  BY <1>2 DEF Blk, Records, SkippedKinds

(* Opening a table gives flags that are flags. *)
LEMMA OpenType ==
    ASSUME NEW dbi \in [Names -> DbFlags], NEW dbn \in Names, NEW flag \in DbFlags
    PROVE  mdb_dbi_open(dbi, dbn, flag) \in [Names -> DbFlags]
  BY DEF mdb_dbi_open

LEMMA OpenTablesType ==
    ASSUME NEW dbi \in [Names -> DbFlags]
    PROVE  OpenTables(dbi) \in [Names -> DbFlags]
  <1>. "txo" \in Names /\ "addr" \in Names /\ "blk" \in Names
    BY DEF Names
  <1>. "plain" \in DbFlags /\ "dupsort" \in DbFlags
    BY DEF DbFlags
  <1>. QED  BY OpenType DEF OpenTables

(* The tables after a put are tables. *)
LEMMA PutHeaderType ==
    ASSUME work \in Tables, NEW t \in Threads, Blk(t) \in Blocks
    PROVE  PutHeader(t) \in Tables
  BY DEF PutHeader, Tables

LEMMA RowTypes ==
    ASSUME NEW o \in Outputs
    PROVE  /\ TxoRow(o) \in TxIds \X TxoValues
           /\ AddrRow(o) \in ScriptHashes \X OutPoints
  BY DEF Outputs, TxoRow, AddrRow, OutPointOf, OutPoints, TxoValues

LEMMA PutRowType ==
    ASSUME TypeOK, NEW t \in Threads, Blk(t) \in Blocks, row[t] <= Len(Rows(t))
    PROVE  PutRow(t) \in Tables
  <1>1. CASE mode = 0
    <2>. DEFINE o == vout[Blk(t)][row[t]]
    <2>1. o \in Outputs
      <3>1. vout[Blk(t)] \in Seq(Outputs)
        BY ChainAssumption DEF ChainAssumption
      <3>2. row[t] \in 1..Len(vout[Blk(t)])
        BY <1>1, <3>1 DEF TypeOK, Rows
      <3>. QED  BY <3>1, <3>2
    <2>. HIDE DEF o
    <2>a. /\ TxoRow(o) \in TxIds \X TxoValues
          /\ AddrRow(o) \in ScriptHashes \X OutPoints
      BY <2>1, RowTypes
    <2>b. /\ work.addr \in SUBSET (ScriptHashes \X OutPoints)
          /\ work.txo \in SUBSET (TxIds \X TxoValues)
      BY DEF TypeOK, Tables
    <2>2. mdb_put(work.addr, work.dbi["addr"], AddrRow(o))
             \in SUBSET (ScriptHashes \X OutPoints)
      BY <2>a, <2>b DEF mdb_put
    <2>3. mdb_put(work.txo, work.dbi["txo"], TxoRow(o))
             \in SUBSET (TxIds \X TxoValues)
      BY <2>a, <2>b DEF mdb_put
    <2>4. PutOutput(t) \in Tables
      BY <2>2, <2>3 DEF PutOutput, TypeOK, Tables, o
    <2>. QED  BY <1>1, <2>4 DEF PutRow
  <1>2. CASE mode # 0
    BY <1>2 DEF PutRow, PutInput, InternalSpendTXO, TypeOK
  <1>. QED  BY <1>1, <1>2

(* The next multiple of the unit is a size, and a larger one. *)
LEMMA NewSizeLarger ==
    ASSUME NEW m \in Nat
    PROVE  NewSize(m) \in Nat /\ NewSize(m) > m
  BY TXODBAssumption DEF NewSize

(* MDB_MAP_FULL comes from inside the transaction. *)
LEMMA FullInTxn ==
    ASSUME NEW t \in Threads, PutMapFull(t)
    PROVE  pc[t] \in {"header", "rows"}
  BY DEF PutMapFull

(* There are so many files. *)
LEMMA FilesNat == nBlockFiles \in Nat
  BY ChainAssumption DEF ChainAssumption, nBlockFiles

(* A thread enters and leaves a critical section with its mutex. *)
LEMMA LockStep ==
    ASSUME TypeOK, LockInv, PhaseInv, Next
    PROVE  LockInv'
  <1>. USE DEF mainVars, poolVars, placeVars, resizeVars, storeVars, txnVars,
              boundVars, vars, LockInv, PhaseInv, TypeOK
  <1>1. CASE \/ Open \/ (\E dbn \in Names : GetTXOStats(dbn)) \/ StartupFails
    BY <1>1, TXODBAssumption DEF Open, GetTXOStats, StartupFails
  <1>2. CASE StartPreload \/ Crash
    BY <1>2, TXODBAssumption DEF StartPreload, NewThreads, Crash
  <1>3. CASE JoinOutputs \/ JoinSpends
    BY <1>3, TXODBAssumption DEF JoinOutputs, NewThreads, AllJoined, JoinSpends
  <1>4. ASSUME NEW t \in Threads, NoMoreFiles(t) PROVE LockInv'
    BY <1>4, TXODBAssumption DEF NoMoreFiles
  <1>5. ASSUME NEW t \in Threads, TakeFile(t) PROVE LockInv'
    BY <1>5, TXODBAssumption DEF TakeFile, PopFile
  <1>6. ASSUME NEW t \in Threads, AdvancePos(t) PROVE LockInv'
    BY <1>6, TXODBAssumption DEF AdvancePos
  <1>7. ASSUME NEW t \in Threads,
              EndOfFile(t) \/ SkipRecord(t) \/ FoundBlock(t)
       PROVE  LockInv'
    BY <1>7, TXODBAssumption DEF EndOfFile, SkipRecord, FoundBlock
  <1>8. ASSUME NEW t \in Threads, TxnBegin(t) PROVE LockInv'
    BY <1>8, TXODBAssumption DEF TxnBegin
  <1>9. ASSUME NEW t \in Threads, TxnBeginPanics(t) PROVE LockInv'
    BY <1>9, TXODBAssumption DEF TxnBeginPanics, GiveUp
  <1>10. ASSUME NEW t \in Threads, WriteHeader(t) PROVE LockInv'
    BY <1>10, TXODBAssumption DEF WriteHeader
  <1>11. ASSUME NEW t \in Threads, WriteRow(t) PROVE LockInv'
    BY <1>11, TXODBAssumption DEF WriteRow
  <1>12. ASSUME NEW t \in Threads, MapFull(t) PROVE LockInv'
    BY <1>12, TXODBAssumption, FullInTxn DEF MapFull
  <1>13. ASSUME NEW t \in Threads, Commit(t) PROVE LockInv'
    BY <1>13, TXODBAssumption DEF Commit
  <1>14. ASSUME NEW t \in Threads, ReadMapSize(t) PROVE LockInv'
    BY <1>14, TXODBAssumption DEF ReadMapSize, GetEnvInfo
  <1>15. ASSUME NEW t \in Threads, SetMapSize(t) PROVE LockInv'
    BY <1>15, TXODBAssumption DEF SetMapSize
  <1>16. ASSUME NEW t \in Threads, SetMapSizeFails(t) PROVE LockInv'
    BY <1>16, TXODBAssumption DEF SetMapSizeFails, GiveUp
  <1>17. ASSUME NEW t \in Threads, TxnBeginFails(t) PROVE LockInv'
    BY <1>17, TXODBAssumption DEF TxnBeginFails, GiveUp, Fault
  <1>18. ASSUME NEW t \in Threads, PutFails(t) PROVE LockInv'
    BY <1>18, TXODBAssumption DEF PutFails, GiveUp, Fault
  <1>19. ASSUME NEW t \in Threads, CommitFails(t) PROVE LockInv'
    BY <1>19, TXODBAssumption DEF CommitFails, Fault
  <1>20. ASSUME NEW t \in Threads, ResizeFails(t) PROVE LockInv'
    BY <1>20, TXODBAssumption DEF ResizeFails, GiveUp, Fault
  <1>21. CASE Ended
    BY <1>21, TXODBAssumption DEF Ended
  <1>. HIDE DEF LockInv, PhaseInv, TypeOK
  <1>. QED
    BY <1>1, <1>2, <1>3, <1>4, <1>5, <1>6, <1>7, <1>8, <1>9, <1>10,
       <1>11, <1>12, <1>13, <1>14, <1>15, <1>16, <1>17, <1>18, <1>19, <1>20,
       <1>21
    DEF Next, MainStep, ThreadStep, ThreadFault

(* The pool runs in two phases, each with its mode. *)
LEMMA PhaseStep ==
    ASSUME TypeOK, LockInv, PhaseInv, Next
    PROVE  PhaseInv'
  <1>. USE DEF mainVars, poolVars, placeVars, resizeVars, storeVars, txnVars,
              boundVars, vars, LockInv, PhaseInv, TypeOK, Names, AfterStats
  <1>1. CASE \/ Open \/ (\E dbn \in Names : GetTXOStats(dbn)) \/ StartPreload
             \/ JoinOutputs \/ JoinSpends \/ StartupFails \/ Crash
    BY <1>1, TXODBAssumption DEF Open, GetTXOStats, StartPreload, NewThreads,
      JoinOutputs, AllJoined, JoinSpends, StartupFails, Crash
  <1>2. ASSUME NEW t \in Threads,
              NoMoreFiles(t) \/ TakeFile(t) \/ AdvancePos(t)
       PROVE  PhaseInv'
    BY <1>2, TXODBAssumption DEF NoMoreFiles, TakeFile, PopFile, AdvancePos
  <1>3. ASSUME NEW t \in Threads,
              EndOfFile(t) \/ SkipRecord(t) \/ FoundBlock(t)
       PROVE  PhaseInv'
    BY <1>3, TXODBAssumption DEF EndOfFile, SkipRecord, FoundBlock
  <1>4. ASSUME NEW t \in Threads,
              \/ TxnBegin(t) \/ TxnBeginPanics(t) \/ WriteHeader(t)
              \/ WriteRow(t) \/ MapFull(t) \/ Commit(t)
       PROVE  PhaseInv'
    BY <1>4, TXODBAssumption, FullInTxn, ZenonT(60) DEF TxnBegin, TxnBeginPanics, GiveUp,
      WriteHeader, WriteRow, MapFull, Commit
  <1>5. ASSUME NEW t \in Threads,
              ReadMapSize(t) \/ SetMapSize(t) \/ SetMapSizeFails(t)
       PROVE  PhaseInv'
    BY <1>5, TXODBAssumption DEF ReadMapSize, GetEnvInfo, SetMapSize,
      SetMapSizeFails, GiveUp
  <1>6. ASSUME NEW t \in Threads,
              \/ TxnBeginFails(t) \/ PutFails(t) \/ CommitFails(t)
              \/ ResizeFails(t)
       PROVE  PhaseInv'
    BY <1>6, TXODBAssumption, ZenonT(60) DEF TxnBeginFails, GiveUp, Fault, PutFails,
      CommitFails, ResizeFails
  <1>7. CASE Ended
    BY <1>7, TXODBAssumption DEF Ended
  <1>. HIDE DEF LockInv, PhaseInv, TypeOK, Names, AfterStats
  <1>. QED
    BY <1>1, <1>2, <1>3, <1>4, <1>5, <1>6, <1>7
    DEF Next, MainStep, ThreadStep, ThreadFault

(* pos_txo only moves under the mutex. *)
LEMMA PopStep ==
    ASSUME TypeOK, LockInv, PhaseInv, PopInv, Next
    PROVE  PopInv'
  <1>. USE DEF mainVars, poolVars, placeVars, resizeVars, storeVars, txnVars,
              boundVars, vars, LockInv, PhaseInv, TypeOK, PopInv
  <1>1. CASE \/ Open \/ (\E dbn \in Names : GetTXOStats(dbn)) \/ StartPreload
             \/ JoinOutputs \/ JoinSpends \/ StartupFails \/ Crash
    BY <1>1, TXODBAssumption DEF Open, GetTXOStats, StartPreload, NewThreads,
      JoinOutputs, AllJoined, JoinSpends, StartupFails, Crash
  <1>2. ASSUME NEW t \in Threads, NoMoreFiles(t) PROVE PopInv'
    BY <1>2, TXODBAssumption DEF NoMoreFiles
  <1>3. ASSUME NEW t \in Threads, TakeFile(t) PROVE PopInv'
    BY <1>3, TXODBAssumption DEF TakeFile, PopFile
  <1>4. ASSUME NEW t \in Threads, AdvancePos(t) PROVE PopInv'
    BY <1>4, TXODBAssumption DEF AdvancePos
  <1>5. ASSUME NEW t \in Threads,
              EndOfFile(t) \/ SkipRecord(t) \/ FoundBlock(t)
       PROVE  PopInv'
    BY <1>5, TXODBAssumption DEF EndOfFile, SkipRecord, FoundBlock
  <1>6. ASSUME NEW t \in Threads,
              \/ TxnBegin(t) \/ TxnBeginPanics(t) \/ WriteHeader(t)
              \/ WriteRow(t) \/ MapFull(t) \/ Commit(t)
       PROVE  PopInv'
    BY <1>6, TXODBAssumption, FullInTxn, ZenonT(60) DEF TxnBegin, TxnBeginPanics, GiveUp,
      WriteHeader, WriteRow, MapFull, Commit
  <1>7. ASSUME NEW t \in Threads,
              ReadMapSize(t) \/ SetMapSize(t) \/ SetMapSizeFails(t)
       PROVE  PopInv'
    BY <1>7, TXODBAssumption DEF ReadMapSize, GetEnvInfo, SetMapSize,
      SetMapSizeFails, GiveUp
  <1>8. ASSUME NEW t \in Threads,
              \/ TxnBeginFails(t) \/ PutFails(t) \/ CommitFails(t)
              \/ ResizeFails(t)
       PROVE  PopInv'
    BY <1>8, TXODBAssumption, ZenonT(60) DEF TxnBeginFails, GiveUp, Fault, PutFails,
      CommitFails, ResizeFails
  <1>9. CASE Ended
    BY <1>9, TXODBAssumption DEF Ended
  <1>. HIDE DEF LockInv, PhaseInv, TypeOK, PopInv
  <1>. QED
    BY <1>1, <1>2, <1>3, <1>4, <1>5, <1>6, <1>7, <1>8, <1>9
    DEF Next, MainStep, ThreadStep, ThreadFault

(* A file is handed out once. *)
LEMMA FileStep ==
    ASSUME TypeOK, LockInv, PhaseInv, PopInv, EachFileOnce, Next
    PROVE  EachFileOnce'
  <1>. DEFINE FilesKept == /\ UNCHANGED <<pos_txo, nBlockFilesDone, blks_pop_lock, blk_path>>
                           /\ \A s \in Threads : HasFile(s)' => HasFile(s)
  <1>1. CASE FilesKept
    BY <1>1 DEF EachFileOnce
  <1>2. CASE StartPreload \/ JoinOutputs \/ Crash
    <2>1. blks_pop_lock' = NoThread
      BY <1>2 DEF StartPreload, JoinOutputs, AllJoined, Crash, LockInv, PhaseInv, TypeOK
    <2>2. /\ pos_txo' = 1 /\ nBlockFilesDone' = 0
          /\ \A t \in Threads : pc'[t] \in {"idle", "pop"}
      BY <1>2 DEF StartPreload, JoinOutputs, Crash, NewThreads
    <2>. QED  BY <2>1, <2>2 DEF EachFileOnce, HasFile
  <1>3. ASSUME NEW t \in Threads, TakeFile(t) PROVE EachFileOnce'
    BY <1>3, TXODBAssumption DEF TakeFile, PopFile, EachFileOnce, HasFile, TypeOK
  <1>4. ASSUME NEW t \in Threads, AdvancePos(t) PROVE EachFileOnce'
    BY <1>4, TXODBAssumption DEF AdvancePos, EachFileOnce, HasFile, LockInv, TypeOK
  <1>. USE DEF TypeOK, HasFile, vars, mainVars, poolVars, placeVars
  <1>5. CASE \/ Open \/ (\E dbn \in Names : GetTXOStats(dbn)) \/ StartupFails
             \/ JoinSpends \/ Ended
    <2>. FilesKept
      BY <1>5 DEF Open, GetTXOStats, StartupFails, JoinSpends, Ended
    <2>. QED  BY <1>1
  <1>6. ASSUME NEW t \in Threads,
               NoMoreFiles(t) \/ EndOfFile(t) \/ SkipRecord(t) \/ FoundBlock(t)
        PROVE  FilesKept
    BY <1>6 DEF NoMoreFiles, EndOfFile, SkipRecord, FoundBlock
  <1>7. ASSUME NEW t \in Threads,
               TxnBegin(t) \/ TxnBeginPanics(t) \/ WriteHeader(t) \/ WriteRow(t)
        PROVE  FilesKept
    BY <1>7 DEF TxnBegin, TxnBeginPanics, GiveUp, WriteHeader, WriteRow
  <1>8. ASSUME NEW t \in Threads, MapFull(t) \/ Commit(t) \/ CommitFails(t)
        PROVE  FilesKept
    BY <1>8, FullInTxn DEF MapFull, Commit, CommitFails
  <1>9. ASSUME NEW t \in Threads,
               \/ ReadMapSize(t) \/ SetMapSize(t) \/ SetMapSizeFails(t)
               \/ TxnBeginFails(t) \/ PutFails(t) \/ ResizeFails(t)
        PROVE  FilesKept
    BY <1>9 DEF ReadMapSize, GetEnvInfo, SetMapSize, SetMapSizeFails, TxnBeginFails,
                PutFails, ResizeFails, GiveUp
  <1>. HIDE DEF TypeOK, HasFile, vars, mainVars, poolVars, placeVars, FilesKept
  <1>. QED
    BY <1>1, <1>2, <1>3, <1>4, <1>5, <1>6, <1>7, <1>8, <1>9
    DEF Next, MainStep, ThreadStep, ThreadFault

(* A thread stays at its block until the commit. *)
LEMMA PlaceStep ==
    ASSUME TypeOK, PlaceInv, Next
    PROVE  PlaceInv'
  <1>. USE DEF mainVars, poolVars, placeVars, resizeVars, storeVars, txnVars,
              boundVars, vars, PlaceInv, TypeOK, AtBlock, File, Rec, AtEnd
  <1>1. CASE \/ Open \/ (\E dbn \in Names : GetTXOStats(dbn)) \/ StartPreload
             \/ JoinOutputs \/ JoinSpends \/ StartupFails \/ Crash
    BY <1>1, TXODBAssumption DEF Open, GetTXOStats, StartPreload, NewThreads,
      JoinOutputs, AllJoined, JoinSpends, StartupFails, Crash
  <1>2. ASSUME NEW t \in Threads,
              NoMoreFiles(t) \/ TakeFile(t) \/ AdvancePos(t)
       PROVE  PlaceInv'
    BY <1>2, TXODBAssumption DEF NoMoreFiles, TakeFile, PopFile, AdvancePos
  <1>3. ASSUME NEW t \in Threads, EndOfFile(t) PROVE PlaceInv'
    BY <1>3, TXODBAssumption DEF EndOfFile
  <1>4. ASSUME NEW t \in Threads, SkipRecord(t) PROVE PlaceInv'
    BY <1>4, TXODBAssumption DEF SkipRecord
  <1>5. ASSUME NEW t \in Threads, FoundBlock(t) PROVE PlaceInv'
    BY <1>5, TXODBAssumption DEF FoundBlock
  <1>6. ASSUME NEW t \in Threads,
              \/ TxnBegin(t) \/ TxnBeginPanics(t) \/ WriteHeader(t)
              \/ WriteRow(t) \/ MapFull(t) \/ Commit(t)
       PROVE  PlaceInv'
    BY <1>6, TXODBAssumption, FullInTxn, ZenonT(60) DEF TxnBegin, TxnBeginPanics, GiveUp,
      WriteHeader, WriteRow, MapFull, Commit
  <1>7. ASSUME NEW t \in Threads,
              ReadMapSize(t) \/ SetMapSize(t) \/ SetMapSizeFails(t)
       PROVE  PlaceInv'
    BY <1>7, TXODBAssumption DEF ReadMapSize, GetEnvInfo, SetMapSize,
      SetMapSizeFails, GiveUp
  <1>8. ASSUME NEW t \in Threads,
              \/ TxnBeginFails(t) \/ PutFails(t) \/ CommitFails(t)
              \/ ResizeFails(t)
       PROVE  PlaceInv'
    BY <1>8, TXODBAssumption, ZenonT(60) DEF TxnBeginFails, GiveUp, Fault, PutFails,
      CommitFails, ResizeFails
  <1>9. CASE Ended
    BY <1>9, TXODBAssumption DEF Ended
  <1>. HIDE DEF PlaceInv, TypeOK, AtBlock, File, Rec, AtEnd
  <1>. QED
    BY <1>1, <1>2, <1>3, <1>4, <1>5, <1>6, <1>7, <1>8, <1>9
    DEF Next, MainStep, ThreadStep, ThreadFault

(* Between reading the size and setting it nobody else sets it. *)
LEMMA ResizeStep ==
    ASSUME TypeOK, LockInv, PhaseInv, ResizeInv, Next
    PROVE  ResizeInv'
  <1>. USE DEF mainVars, poolVars, placeVars, resizeVars, storeVars, txnVars,
              boundVars, vars, LockInv, PhaseInv, TypeOK, ResizeInv
  <1>1. CASE Open
    BY <1>1, TXODBAssumption DEF Open
  <1>2. CASE (\E dbn \in Names : GetTXOStats(dbn))
    BY <1>2 DEF GetTXOStats, AfterStats, Names
  <1>3. CASE \/ StartPreload \/ JoinOutputs \/ JoinSpends \/ StartupFails
             \/ Crash
    BY <1>3, TXODBAssumption DEF StartPreload, NewThreads, JoinOutputs,
      AllJoined, JoinSpends, StartupFails, Crash
  <1>4. ASSUME NEW t \in Threads,
              NoMoreFiles(t) \/ TakeFile(t) \/ AdvancePos(t)
       PROVE  ResizeInv'
    BY <1>4, TXODBAssumption DEF NoMoreFiles, TakeFile, PopFile, AdvancePos
  <1>5. ASSUME NEW t \in Threads,
              EndOfFile(t) \/ SkipRecord(t) \/ FoundBlock(t)
       PROVE  ResizeInv'
    BY <1>5, TXODBAssumption DEF EndOfFile, SkipRecord, FoundBlock
  <1>6. ASSUME NEW t \in Threads,
              \/ TxnBegin(t) \/ TxnBeginPanics(t) \/ WriteHeader(t)
              \/ WriteRow(t) \/ MapFull(t) \/ Commit(t)
       PROVE  ResizeInv'
    BY <1>6, TXODBAssumption, FullInTxn, ZenonT(60) DEF TxnBegin, TxnBeginPanics, GiveUp,
      WriteHeader, WriteRow, MapFull, Commit
  <1>7. ASSUME NEW t \in Threads, ReadMapSize(t) PROVE ResizeInv'
    BY <1>7, TXODBAssumption DEF ReadMapSize, GetEnvInfo
  <1>8. ASSUME NEW t \in Threads, SetMapSize(t) PROVE ResizeInv'
    BY <1>8, TXODBAssumption DEF SetMapSize
  <1>9. ASSUME NEW t \in Threads, SetMapSizeFails(t) PROVE ResizeInv'
    BY <1>9, TXODBAssumption DEF SetMapSizeFails, GiveUp
  <1>10. ASSUME NEW t \in Threads,
              \/ TxnBeginFails(t) \/ PutFails(t) \/ CommitFails(t)
              \/ ResizeFails(t)
       PROVE  ResizeInv'
    BY <1>10, TXODBAssumption DEF TxnBeginFails, GiveUp, Fault, PutFails,
      CommitFails, ResizeFails
  <1>11. CASE Ended
    BY <1>11, TXODBAssumption DEF Ended
  <1>. HIDE DEF LockInv, PhaseInv, TypeOK, ResizeInv
  <1>. QED
    BY <1>1, <1>2, <1>3, <1>4, <1>5, <1>6, <1>7, <1>8, <1>9, <1>10,
       <1>11
    DEF Next, MainStep, ThreadStep, ThreadFault

(* Every action keeps every variable in its type. *)
LEMMA TypeStep ==
    ASSUME TypeOK, LockInv, PhaseInv, PopInv, EachFileOnce, PlaceInv, Next
    PROVE  TypeOK'
  <1>. USE DEF mainVars, poolVars, placeVars, resizeVars, storeVars, txnVars,
              boundVars, vars, TypeOK, MainStates, ThreadStates
  <1>1. CASE Open
    BY <1>1, TXODBAssumption DEF Open, Names
  <1>2. CASE (\E dbn \in Names : GetTXOStats(dbn))
    <2>. PICK dbn \in Names : GetTXOStats(dbn)
      BY <1>2
    <2>1. mdb_dbi_open(disk.dbi, dbn, StatsFlag) \in [Names -> DbFlags]
      BY OpenType DEF Tables, DbFlags, StatsFlag
    <2>2. disk' \in Tables
      BY <2>1 DEF GetTXOStats, Tables
    <2>. QED  BY <2>2 DEF GetTXOStats, AfterStats, MainStates, Names
  <1>3. CASE StartPreload \/ JoinOutputs
    BY <1>3, FilesNat DEF StartPreload, NewThreads, JoinOutputs
  <1>4. CASE JoinSpends \/ StartupFails
    BY <1>4, TXODBAssumption DEF JoinSpends, AllJoined, StartupFails
  <1>5. CASE Crash
    <2>1. /\ pc' \in [Threads -> ThreadStates]
          /\ blk_path' \in [Threads -> 0..nBlockFiles]
          /\ rec' \in [Threads -> Nat \ {0}]
          /\ row' \in [Threads -> Nat \ {0}]
          /\ current_info' \in [Threads -> Nat]
      BY <1>5, FilesNat DEF Crash, NewThreads
    <2>2. panic' \in BOOLEAN /\ lost' \in BOOLEAN
      BY <1>5 DEF Crash
    <2>. QED  BY <1>5, <2>1, <2>2, FilesNat DEF Crash
  <1>6. ASSUME NEW t \in Threads, NoMoreFiles(t) PROVE TypeOK'
    BY <1>6, TXODBAssumption DEF NoMoreFiles
  <1>7. ASSUME NEW t \in Threads, TakeFile(t) PROVE TypeOK'
    BY <1>7, FilesNat DEF TakeFile, PopFile, EachFileOnce
  <1>8. ASSUME NEW t \in Threads, AdvancePos(t) PROVE TypeOK'
    BY <1>8, FilesNat DEF AdvancePos, PopInv, LockInv
  <1>9. ASSUME NEW t \in Threads, EndOfFile(t) PROVE TypeOK'
    BY <1>9, TXODBAssumption DEF EndOfFile
  <1>10. ASSUME NEW t \in Threads, SkipRecord(t) PROVE TypeOK'
    BY <1>10, TXODBAssumption DEF SkipRecord
  <1>11. ASSUME NEW t \in Threads, FoundBlock(t) PROVE TypeOK'
    BY <1>11, TXODBAssumption DEF FoundBlock
  <1>12. ASSUME NEW t \in Threads, TxnBegin(t) PROVE TypeOK'
    <2>1. OpenTables(disk.dbi) \in [Names -> DbFlags]
      BY OpenTablesType DEF Tables
    <2>2. work' \in Tables
      BY <1>12, <2>1 DEF TxnBegin, Tables
    <2>. QED  BY <1>12, <2>2 DEF TxnBegin
  <1>13. ASSUME NEW t \in Threads, TxnBeginPanics(t) PROVE TypeOK'
    BY <1>13, TXODBAssumption DEF TxnBeginPanics, GiveUp
  <1>14. ASSUME NEW t \in Threads, WriteHeader(t) PROVE TypeOK'
    <2>1. work' \in Tables
      BY <1>14, BlkType, PutHeaderType DEF WriteHeader, AtBlock
    <2>. QED  BY <1>14, <2>1 DEF WriteHeader
  <1>15. ASSUME NEW t \in Threads, WriteRow(t) PROVE TypeOK'
    <2>1. work' \in Tables
      BY <1>15, BlkType, PutRowType DEF WriteRow, AtBlock
    <2>. QED  BY <1>15, <2>1 DEF WriteRow
  <1>16. ASSUME NEW t \in Threads, MapFull(t) PROVE TypeOK'
    BY <1>16, TXODBAssumption, FullInTxn DEF MapFull
  <1>17. ASSUME NEW t \in Threads, Commit(t) PROVE TypeOK'
    BY <1>17, TXODBAssumption, SMTT(60) DEF Commit
  <1>18. ASSUME NEW t \in Threads, ReadMapSize(t) PROVE TypeOK'
    BY <1>18, TXODBAssumption DEF ReadMapSize, GetEnvInfo
  <1>19. ASSUME NEW t \in Threads, SetMapSize(t) PROVE TypeOK'
    BY <1>19, NewSizeLarger DEF SetMapSize
  <1>20. ASSUME NEW t \in Threads, SetMapSizeFails(t) PROVE TypeOK'
    BY <1>20, TXODBAssumption DEF SetMapSizeFails, GiveUp
  <1>21. ASSUME NEW t \in Threads, TxnBeginFails(t) PROVE TypeOK'
    BY <1>21, TXODBAssumption DEF TxnBeginFails, GiveUp, Fault
  <1>22. ASSUME NEW t \in Threads, PutFails(t) PROVE TypeOK'
    BY <1>22, TXODBAssumption DEF PutFails, GiveUp, Fault
  <1>23. ASSUME NEW t \in Threads, CommitFails(t) PROVE TypeOK'
    <2>1. lost' \in BOOLEAN
      BY <1>23, Zenon DEF CommitFails
    <2>2. /\ faults' \in Nat /\ work' \in Tables /\ writer' = NoThread
          /\ rec' \in [Threads -> Nat \ {0}] /\ pc' \in [Threads -> ThreadStates]
      BY <1>23, TXODBAssumption, SMTT(60) DEF CommitFails, Fault
    <2>. QED  BY <1>23, <2>1, <2>2 DEF CommitFails
  <1>24. ASSUME NEW t \in Threads, ResizeFails(t) PROVE TypeOK'
    BY <1>24, TXODBAssumption DEF ResizeFails, GiveUp, Fault
  <1>25. CASE Ended
    BY <1>25, TXODBAssumption DEF Ended
  <1>. HIDE DEF TypeOK, MainStates, ThreadStates
  <1>. QED
    BY <1>1, <1>2, <1>3, <1>4, <1>5, <1>6, <1>7, <1>8, <1>9, <1>10,
       <1>11, <1>12, <1>13, <1>14, <1>15, <1>16, <1>17, <1>18, <1>19, <1>20,
       <1>21, <1>22, <1>23, <1>24, <1>25
    DEF Next, MainStep, ThreadStep, ThreadFault


-----------------------------------------------------------------------------
(* The theorems. *)

LEMMA InitInv == Init => Inv
  <1>. SUFFICES ASSUME Init PROVE Inv
    OBVIOUS
  <1>. USE DEF Init
  <1>1. EmptyTables \in Tables
    BY DEF EmptyTables, Tables, DbFlags
  <1>2. TypeOK
    <2>1. /\ pc \in [Threads -> ThreadStates]
          /\ blk_path \in [Threads -> 0..nBlockFiles]
          /\ rec \in [Threads -> Nat \ {0}]
          /\ row \in [Threads -> Nat \ {0}]
          /\ current_info \in [Threads -> Nat]
      BY FilesNat DEF ThreadStates
    <2>2. panic \in BOOLEAN /\ lost \in BOOLEAN
      OBVIOUS
    <2>. QED  BY <1>1, <2>1, <2>2, FilesNat, TXODBAssumption DEF TypeOK, MainStates
  <1>3. LockInv /\ PhaseInv /\ PopInv
    BY TXODBAssumption DEF LockInv, PhaseInv, PopInv
  <1>4. EachFileOnce /\ PlaceInv /\ ResizeInv
    BY DEF EachFileOnce, HasFile, PlaceInv, AtBlock, ResizeInv
  <1>. QED  BY <1>2, <1>3, <1>4 DEF Inv

LEMMA NextInv == Inv /\ [Next]_vars => Inv'
  <1>. SUFFICES ASSUME Inv, [Next]_vars PROVE Inv'
    OBVIOUS
  <1>1. CASE Next
    BY <1>1, TypeStep, LockStep, PhaseStep, PopStep, FileStep, PlaceStep, ResizeStep
    DEF Inv
  <1>2. CASE UNCHANGED vars
    BY <1>2
    DEF Inv, TypeOK, LockInv, PhaseInv, PopInv, EachFileOnce, HasFile, PlaceInv, File, Rec,
        ResizeInv, vars, mainVars, poolVars, placeVars, resizeVars, storeVars, txnVars,
        boundVars
  <1>. QED  BY <1>1, <1>2

(* The invariant the theorems below are read off from holds in every state. *)
THEOREM Invariance == Spec => []Inv
  BY InitInv, NextInv, PTL DEF Spec

(***************************************************************************)
(* Every state of the loader is well typed: in particular no thread takes  *)
(* a file from past the end of the list, with any number of threads.       *)
(***************************************************************************)
THEOREM TypeCorrect == Spec => []TypeOK
  <1>1. Inv => TypeOK
    BY DEF Inv
  <1>. QED  BY <1>1, Invariance, PTL

(***************************************************************************)
(* In a pass every block file is handed to exactly one thread, and the     *)
(* progress count is the number of files handed out.                       *)
(***************************************************************************)
THEOREM FilesHandedOutOnce == Spec => []EachFileOnce
  <1>1. Inv => EachFileOnce
    BY DEF Inv
  <1>. QED  BY <1>1, Invariance, PTL

(***************************************************************************)
(* The map never shrinks while the process lives and every successful      *)
(* IncreaseMapSize makes it larger, however the threads' resizes           *)
(* interleave.                                                             *)
(***************************************************************************)
THEOREM MapOnlyGrows == Spec => MapGrows
  <1>1. ASSUME Inv, Next PROVE ResizesGrow
    <2>. USE <1>1 DEF Inv, TypeOK, LockInv, PhaseInv, ResizeInv, ResizesGrow, mainVars,
                      poolVars, placeVars, resizeVars, storeVars, txnVars, boundVars, vars
    <2>1. CASE Open
      BY <2>1, TXODBAssumption DEF Open
    <2>2. ASSUME NEW t \in Threads, SetMapSize(t) PROVE ResizesGrow
      BY <2>2, NewSizeLarger DEF SetMapSize
    <2>3. CASE \/ \E dbn \in Names : GetTXOStats(dbn)
               \/ StartPreload \/ JoinOutputs \/ JoinSpends \/ StartupFails
      BY <2>3 DEF GetTXOStats, StartPreload, JoinOutputs, JoinSpends, StartupFails,
                  NewThreads
    <2>4. CASE Crash
      BY <2>4 DEF Crash
    <2>5. ASSUME NEW t \in Threads,
                 \/ NoMoreFiles(t) \/ TakeFile(t) \/ AdvancePos(t)
                 \/ EndOfFile(t) \/ SkipRecord(t) \/ FoundBlock(t)
          PROVE  ResizesGrow
      BY <2>5 DEF NoMoreFiles, TakeFile, PopFile, AdvancePos, EndOfFile, SkipRecord,
                  FoundBlock
    <2>6. ASSUME NEW t \in Threads, TxnBegin(t) \/ TxnBeginPanics(t)
          PROVE  ResizesGrow
      BY <2>6 DEF TxnBegin, TxnBeginPanics, GiveUp
    <2>7. ASSUME NEW t \in Threads,
                 WriteHeader(t) \/ WriteRow(t) \/ MapFull(t) \/ Commit(t) \/ ReadMapSize(t)
          PROVE  ResizesGrow
      <3>1. mapsize' = mapsize
        BY <2>7 DEF WriteHeader, WriteRow, MapFull, Commit, ReadMapSize, GetEnvInfo
      <3>2. \/ pc' = pc
            \/ \E at \in {"rows", "full", "read", "resize"} : pc' = [pc EXCEPT ![t] = at]
        BY <2>7 DEF WriteHeader, WriteRow, MapFull, Commit, ReadMapSize, GetEnvInfo
      <3>. QED  BY <3>1, <3>2
    <2>8. ASSUME NEW t \in Threads,
                 \/ SetMapSizeFails(t) \/ TxnBeginFails(t)
                 \/ PutFails(t) \/ CommitFails(t) \/ ResizeFails(t)
          PROVE  ResizesGrow
      BY <2>8, SMTT(60) DEF SetMapSizeFails, TxnBeginFails, PutFails, CommitFails, ResizeFails, GiveUp
    <2>9. CASE Ended
      BY <2>9 DEF Ended
    <2>. HIDE DEF Inv, ResizesGrow
    <2>. QED
      BY <2>1, <2>2, <2>3, <2>4, <2>5, <2>6, <2>7, <2>8, <2>9
      DEF Next, MainStep, ThreadStep, ThreadFault
  <1>2. Inv /\ [Next]_vars => [ResizesGrow]_vars
    BY <1>1
  <1>. QED  BY <1>2, Invariance, PTL DEF MapGrows, Spec

-----------------------------------------------------------------------------
(* What is stored: the inductive invariant. *)

(* The tables are made by the statistics calls, and so without MDB_DUPSORT. *)
FlagsInv ==
    /\ \A dbn \in Names : disk.dbi[dbn] \in {"absent", "plain"}
    /\ main \in {"addr", "blk"} => disk.dbi["txo"] = "plain"
    /\ main = "blk" => disk.dbi["addr"] = "plain"
    /\ main \in {"preload", "outputs", "spends", "finished"} =>
          \A dbn \in Names : disk.dbi[dbn] = "plain"

(* The rows of the first k outputs of a block. *)
TxoRowsTo(b, k)  == {TxoRow(vout[b][i]) : i \in 1..k}
AddrRowsTo(b, k) == {AddrRow(vout[b][i]) : i \in 1..k}

(* What the open transaction has added to the committed tables. *)
TxnOf(t) ==
    /\ pc[t] = "header" => work = disk
    /\ pc[t] = "rows" =>
          /\ row[t] <= Len(Rows(t)) + 1
          /\ work.dbi = disk.dbi
          /\ work.blk = disk.blk \cup {Blk(t)}
          /\ mode = 1 => work.txo = disk.txo /\ work.addr = disk.addr
          /\ mode = 0 =>
                /\ Index!Written(disk.txo, work.txo, TxoRowsTo(Blk(t), row[t] - 1))
                /\ Index!Written(disk.addr, work.addr, AddrRowsTo(Blk(t), row[t] - 1))

TxnInv == \A t \in Threads : TxnOf(t)

(* The blocks before record k of file f are indexed. *)
IndexedTo(f, k) == \A i \in Reached(f) :
    i < k /\ BlkFiles[f][i].kind = "block" => Indexed(disk, BlkFiles[f][i].blk)

(* A file that was handed out is in a thread's hands or indexed. *)
HandedOut == \A f \in 1..nBlockFiles :
    \/ f >= pos_txo
    \/ \E t \in Threads : HasFile(t) /\ blk_path[t] = f
    \/ FileIndexed(f)

(* A thread has indexed what it has read; it ends when there are no more files. *)
ReadSoFar(t) ==
    /\ HasFile(t) /\ pc[t] # "advance" => IndexedTo(blk_path[t], rec[t])
    /\ pc[t] = "done" => pos_txo > nBlockFiles
    /\ pc[t] # "failed"

(* How far the first pass is, as long as nothing was lost. *)
LoadInv == main = "outputs" /\ ~lost => HandedOut /\ \A t \in Threads : ReadSoFar(t)

IndexInv == Inv /\ FlagsInv /\ TxnInv /\ LoadInv /\ LoadedUnlessLost /\ IndexConsistent

-----------------------------------------------------------------------------
(* Facts about rows and keys. *)

(* Nothing written is nothing changed. *)
LEMMA WrittenNone ==
    ASSUME NEW old
    PROVE  Index!Written(old, old, {})
  BY DEF Index!Written, Index!HasKey

(* One more put into a plain table. *)
LEMMA WrittenPut ==
    ASSUME NEW old, NEW new, NEW rows, NEW r, Index!Written(old, new, rows)
    PROVE  Index!Written(old, mdb_put(new, "plain", r), rows \cup {r})
  <1>. DEFINE new2 == mdb_put(new, "plain", r)
              rows2 == rows \cup {r}
  <1>. new2 = {x \in new : x[1] # r[1]} \cup {r}
    BY DEF mdb_put
  <1>. USE DEF Index!Written, Index!HasKey
  <1>. HIDE DEF new2
  <1>1. new2 \subseteq old \cup rows2
    OBVIOUS
  <1>2. \A q \in rows2 : \E x \in new2 \cap rows2 : x[1] = q[1]
    <2>. SUFFICES ASSUME NEW q \in rows2 PROVE \E x \in new2 \cap rows2 : x[1] = q[1]
      OBVIOUS
    <2>1. CASE q[1] = r[1]
      BY <2>1
    <2>2. CASE q[1] # r[1]
      <3>1. PICK x \in new \cap rows : x[1] = q[1]
        BY <2>2
      <3>. QED  BY <2>2, <3>1
    <2>. QED  BY <2>1, <2>2
  <1>3. \A q \in old : ~(\E x \in rows2 : x[1] = q[1]) => q \in new2
    OBVIOUS
  <1>. QED  BY <1>1, <1>2, <1>3 DEF new2

(* A key that has a row keeps having one. *)
LEMMA KeyKept ==
    ASSUME NEW old, NEW new, NEW rows, NEW k, Index!Written(old, new, rows), HasKey(old, k)
    PROVE  HasKey(new, k)
  BY DEF Index!Written, Index!HasKey, HasKey

(* A key that was written has a row. *)
LEMMA KeyWritten ==
    ASSUME NEW old, NEW new, NEW rows, NEW r \in rows, Index!Written(old, new, rows)
    PROVE  HasKey(new, r[1])
  BY DEF Index!Written, Index!HasKey, HasKey

(* The rows of a block, output by output. *)
LEMMA RowsToNext ==
    ASSUME NEW b, NEW k \in Nat
    PROVE  /\ TxoRowsTo(b, k + 1) = TxoRowsTo(b, k) \cup {TxoRow(vout[b][k + 1])}
           /\ AddrRowsTo(b, k + 1) = AddrRowsTo(b, k) \cup {AddrRow(vout[b][k + 1])}
  <1>. 1..(k + 1) = 1..k \cup {k + 1}
    OBVIOUS
  <1>. QED  BY DEF TxoRowsTo, AddrRowsTo

LEMMA RowsToAll ==
    ASSUME NEW b \in Blocks
    PROVE  /\ TxoRowsTo(b, Len(vout[b])) = TxoRows(b)
           /\ AddrRowsTo(b, Len(vout[b])) = AddrRows(b)
  <1>. DOMAIN vout[b] = 1..Len(vout[b])
    BY ChainAssumption DEF ChainAssumption
  <1>. QED  BY DEF TxoRowsTo, AddrRowsTo, TxoRows, AddrRows, OutputsOf

LEMMA RowsToNone ==
    ASSUME NEW b
    PROVE  TxoRowsTo(b, 0) = {} /\ AddrRowsTo(b, 0) = {}
  BY DEF TxoRowsTo, AddrRowsTo

-----------------------------------------------------------------------------
(* The steps. *)

(* A thread works only while PreLoadBlocks does, on tables that exist. *)
LEMMA Working ==
    ASSUME Inv, FlagsInv, NEW t \in Threads, pc[t] # "idle"
    PROVE  /\ main \in {"outputs", "spends", "finished"}
           /\ \A dbn \in Names : disk.dbi[dbn] = "plain"
  <1>1. main \in {"outputs", "spends", "finished"}
    BY DEF Inv, TypeOK, PhaseInv, MainStates
  <1>. QED  BY <1>1 DEF FlagsInv

(* Opening tables that exist changes nothing. *)
LEMMA OpenExisting ==
    ASSUME NEW dbi \in [Names -> DbFlags], \A dbn \in Names : dbi[dbn] = "plain"
    PROVE  OpenTables(dbi) = dbi
  BY DEF OpenTables, mdb_dbi_open, Names

(***************************************************************************)
(* Only a commit changes the committed rows, and a commit is a step of     *)
(* TXOIndex.                                                               *)
(***************************************************************************)
LEMMA CommitIsIndexStep ==
    ASSUME Inv, TxnInv, NEW t \in Threads, Commit(t)
    PROVE  /\ Blk(t) \in Blocks
           /\ disk'.dbi = disk.dbi
           /\ mode = 0 => Index!IndexBlock(Blk(t))
           /\ mode = 1 => Index!StoreHeader(Blk(t))
  <1>1. Blk(t) \in Blocks
    BY BlkType DEF Inv, Commit, AtBlock
  <1>2. disk' = work /\ pc[t] = "rows" /\ row[t] > Len(Rows(t))
    BY DEF Commit
  <1>3. /\ work.dbi = disk.dbi
        /\ work.blk = disk.blk \cup {Blk(t)}
    BY <1>2 DEF TxnInv, TxnOf
  <1>4. CASE mode = 0
    <2>1. vout[Blk(t)] \in Seq(Outputs)
      BY <1>1, ChainAssumption DEF ChainAssumption
    <2>2. row[t] - 1 = Len(vout[Blk(t)])
      BY <1>2, <1>4, <2>1 DEF TxnInv, TxnOf, Rows, Inv, TypeOK
    <2>3. /\ Index!Written(disk.txo, work.txo, TxoRows(Blk(t)))
          /\ Index!Written(disk.addr, work.addr, AddrRows(Blk(t)))
      BY <1>1, <1>2, <1>4, <2>2, RowsToAll DEF TxnInv, TxnOf
    <2>4. /\ Index!TxoRows(Blk(t)) = TxoRows(Blk(t))
          /\ Index!AddrRows(Blk(t)) = AddrRows(Blk(t))
      BY DEF Index!TxoRows, Index!AddrRows, Index!OutputsOf, Index!TxoRow, Index!AddrRow,
             Index!OutPointOf, Index!NullOutPoint, TxoRows, AddrRows, OutputsOf, TxoRow,
             AddrRow, OutPointOf, NullOutPoint
    <2>. QED  BY <1>1, <1>2, <1>3, <1>4, <2>3, <2>4 DEF Index!IndexBlock
  <1>5. CASE mode = 1
    <2>1. work.txo = disk.txo /\ work.addr = disk.addr
      BY <1>2, <1>5 DEF TxnInv, TxnOf
    <2>. QED  BY <1>1, <1>2, <1>3, <1>5, <2>1 DEF Index!StoreHeader
  <1>. QED  BY <1>1, <1>2, <1>3, <1>4, <1>5 DEF Inv, TypeOK

LEMMA OtherStepsKeepRows ==
    ASSUME Inv, Next, \A t \in Threads : ~Commit(t)
    PROVE  disk'.blk = disk.blk /\ disk'.txo = disk.txo /\ disk'.addr = disk.addr
  <1>1. ASSUME NEW dbn \in Names, GetTXOStats(dbn)
        PROVE  disk'.blk = disk.blk /\ disk'.txo = disk.txo /\ disk'.addr = disk.addr
    BY <1>1 DEF GetTXOStats, Inv, TypeOK, Tables
  <1>2. CASE \A dbn \in Names : ~GetTXOStats(dbn)
    <2>. disk' = disk
      BY <1>2
      DEF Next, MainStep, ThreadStep, ThreadFault, Open, StartupFails, StartPreload,
          JoinOutputs, JoinSpends, Crash, Ended, NoMoreFiles, TakeFile, PopFile,
          AdvancePos, EndOfFile, SkipRecord, FoundBlock, TxnBegin, TxnBeginPanics,
          WriteHeader, WriteRow, MapFull, ReadMapSize, GetEnvInfo, SetMapSize,
          SetMapSizeFails, TxnBeginFails, PutFails, CommitFails, ResizeFails, vars,
          storeVars
    <2>. QED  OBVIOUS
  <1>. QED  BY <1>1, <1>2

(* The flags of the tables. *)
LEMMA FlagsStep ==
    ASSUME Inv, FlagsInv, TxnInv, Next
    PROVE  FlagsInv'
  <1>1. ASSUME NEW dbn \in Names, GetTXOStats(dbn) PROVE FlagsInv'
    BY <1>1 DEF GetTXOStats, FlagsInv, mdb_dbi_open, StatsFlag, AfterStats, Names, Inv,
                TypeOK, Tables
  <1>2. ASSUME NEW t \in Threads, Commit(t) PROVE FlagsInv'
    BY <1>2, CommitIsIndexStep DEF Commit, FlagsInv, mainVars
  <1>3. CASE disk' = disk /\ main' = main
    BY <1>3 DEF FlagsInv
  <1>4. CASE Open \/ StartupFails \/ StartPreload \/ JoinOutputs \/ JoinSpends \/ Crash
    BY <1>4 DEF Open, StartupFails, StartPreload, JoinOutputs, JoinSpends, Crash,
                FlagsInv, storeVars, Names
  <1>. QED
    BY <1>1, <1>2, <1>3, <1>4
    DEF Next, MainStep, ThreadStep, ThreadFault, Ended, NoMoreFiles, TakeFile, PopFile,
        AdvancePos, EndOfFile, SkipRecord, FoundBlock, TxnBegin, TxnBeginPanics,
        WriteHeader, WriteRow, MapFull, ReadMapSize, GetEnvInfo, SetMapSize,
        SetMapSizeFails, TxnBeginFails, PutFails, CommitFails, ResizeFails, vars,
        storeVars, mainVars

(* The first step of a block's transaction: the header. *)
LEMMA HeaderWritten ==
    ASSUME Inv, TxnInv, NEW t \in Threads, WriteHeader(t)
    PROVE  TxnOf(t)'
  <1>1. Blk(t) \in Blocks
    BY BlkType DEF Inv, WriteHeader, AtBlock
  <1>2. /\ pc'[t] = "rows" /\ row'[t] = 1
        /\ mode' = mode /\ disk' = disk
        /\ Blk(t)' = Blk(t) /\ Rows(t)' = Rows(t)
    BY DEF WriteHeader, mainVars, storeVars, Blk, Rec, File, Rows, Inv, TypeOK
  <1>3. work' = [disk EXCEPT !.blk = @ \cup {Blk(t)}]
    BY DEF WriteHeader, PutHeader, TxnInv, TxnOf
  <1>4. /\ work'.dbi = disk.dbi /\ work'.txo = disk.txo /\ work'.addr = disk.addr
        /\ work'.blk = disk.blk \cup {Blk(t)}
    BY <1>3 DEF Inv, TypeOK, Tables
  <1>5. Len(Rows(t)) \in Nat
    BY <1>1, ChainAssumption DEF ChainAssumption, Rows
  <1>6. /\ Index!Written(disk.txo, disk.txo, TxoRowsTo(Blk(t), 0))
        /\ Index!Written(disk.addr, disk.addr, AddrRowsTo(Blk(t), 0))
    BY RowsToNone, WrittenNone
  <1>. QED  BY <1>2, <1>4, <1>5, <1>6 DEF TxnOf

(* A row of the block. *)
LEMMA RowWritten ==
    ASSUME Inv, FlagsInv, TxnInv, NEW t \in Threads, WriteRow(t)
    PROVE  TxnOf(t)'
  <1>1. Blk(t) \in Blocks
    BY BlkType DEF Inv, WriteRow, AtBlock
  <1>2. /\ pc[t] = "rows" /\ pc'[t] = "rows" /\ row'[t] = row[t] + 1
        /\ row[t] \in Nat \ {0} /\ row[t] <= Len(Rows(t))
        /\ mode' = mode /\ disk' = disk
        /\ Blk(t)' = Blk(t) /\ Rows(t)' = Rows(t)
        /\ work' = PutRow(t)
    BY DEF WriteRow, mainVars, storeVars, Blk, Rec, File, Rows, Inv, TypeOK
  <1>3. /\ work.dbi = disk.dbi
        /\ work.blk = disk.blk \cup {Blk(t)}
    BY <1>2 DEF TxnInv, TxnOf
  <1>4. Len(Rows(t)) \in Nat
    BY <1>1, ChainAssumption DEF ChainAssumption, Rows
  <1>5. CASE mode = 0
    <2>. DEFINE o == vout[Blk(t)][row[t]]
                k == row[t] - 1
    <2>1. work.dbi["txo"] = "plain" /\ work.dbi["addr"] = "plain"
      BY <1>2, <1>3, Working DEF Names
    <2>2. work' = [work EXCEPT !.addr = mdb_put(@, "plain", AddrRow(o)),
                               !.txo  = mdb_put(@, "plain", TxoRow(o))]
      BY <1>2, <1>5, <2>1 DEF PutRow, PutOutput
    <2>3. /\ work'.dbi = work.dbi /\ work'.blk = work.blk
          /\ work'.addr = mdb_put(work.addr, "plain", AddrRow(o))
          /\ work'.txo = mdb_put(work.txo, "plain", TxoRow(o))
      BY <2>2 DEF Inv, TypeOK, Tables
    <2>4. k \in Nat /\ k + 1 = row[t] /\ row'[t] - 1 = row[t]
      BY <1>2
    <2>5. /\ Index!Written(disk.txo, work.txo, TxoRowsTo(Blk(t), k))
          /\ Index!Written(disk.addr, work.addr, AddrRowsTo(Blk(t), k))
      BY <1>2, <1>5 DEF TxnInv, TxnOf
    <2>6. /\ Index!Written(disk.txo, work'.txo, TxoRowsTo(Blk(t), k) \cup {TxoRow(o)})
          /\ Index!Written(disk.addr, work'.addr, AddrRowsTo(Blk(t), k) \cup {AddrRow(o)})
      BY <2>3, <2>5, WrittenPut
    <2>7. /\ TxoRowsTo(Blk(t), row[t]) = TxoRowsTo(Blk(t), k) \cup {TxoRow(o)}
          /\ AddrRowsTo(Blk(t), row[t]) = AddrRowsTo(Blk(t), k) \cup {AddrRow(o)}
      BY <2>4, RowsToNext, ZenonT(60)
    <2>8. /\ Index!Written(disk.txo, work'.txo, TxoRowsTo(Blk(t), row'[t] - 1))
          /\ Index!Written(disk.addr, work'.addr, AddrRowsTo(Blk(t), row'[t] - 1))
      BY <2>4, <2>6, <2>7
    <2>9. row'[t] <= Len(Rows(t)) + 1
      BY <1>2, <1>4
    <2>10. work'.dbi = disk.dbi /\ work'.blk = disk.blk \cup {Blk(t)}
      BY <1>3, <2>3
    <2>. QED  BY <1>2, <1>5, <2>8, <2>9, <2>10 DEF TxnOf
  <1>6. CASE mode = 1
    <2>1. work' = work
      BY <1>2, <1>6 DEF PutRow, PutInput, InternalSpendTXO
    <2>. QED  BY <1>2, <1>3, <1>4, <1>6, <2>1 DEF TxnInv, TxnOf
  <1>. QED  BY <1>5, <1>6 DEF Inv, TypeOK

(***************************************************************************)
(* A thread in its transaction is the writer: whatever another thread does *)
(* leaves its transaction and the committed tables alone.                  *)
(***************************************************************************)
LEMMA OthersKeepTxn ==
    ASSUME Inv, TxnInv, NEW s \in Threads, NEW t \in Threads, s # t,
           ThreadStep(t) \/ ThreadFault(t)
    PROVE  TxnOf(s)'
  <1>. SUFFICES ASSUME pc'[s] \in {"header", "rows"} PROVE TxnOf(s)'
    BY DEF TxnOf
  <1>. USE DEF Inv, TypeOK, mainVars, poolVars, placeVars, storeVars, txnVars
  <1>1. ASSUME pc'[s] = pc[s], UNCHANGED <<mode, blk_path[s], rec[s], row[s]>>,
               UNCHANGED <<disk, work>>
        PROVE  TxnOf(s)'
    BY <1>1 DEF TxnInv, TxnOf, Blk, Rec, File, Rows
  <1>2. /\ pc'[s] = pc[s]
        /\ UNCHANGED <<mode, blk_path[s], rec[s], row[s]>>
    <2>1. CASE NoMoreFiles(t) \/ TakeFile(t) \/ AdvancePos(t)
      BY <2>1 DEF NoMoreFiles, TakeFile, PopFile, AdvancePos
    <2>2. CASE EndOfFile(t) \/ SkipRecord(t) \/ FoundBlock(t)
      BY <2>2 DEF EndOfFile, SkipRecord, FoundBlock
    <2>3. CASE TxnBegin(t) \/ TxnBeginPanics(t) \/ WriteHeader(t) \/ WriteRow(t)
      BY <2>3 DEF TxnBegin, TxnBeginPanics, WriteHeader, WriteRow, GiveUp
    <2>4. CASE MapFull(t) \/ Commit(t) \/ ReadMapSize(t) \/ SetMapSize(t)
      BY <2>4 DEF MapFull, Commit, ReadMapSize, GetEnvInfo, SetMapSize
    <2>5. CASE SetMapSizeFails(t) \/ ThreadFault(t)
      BY <2>5 DEF SetMapSizeFails, ThreadFault, TxnBeginFails, PutFails, CommitFails,
                  ResizeFails, GiveUp
    <2>. QED  BY <2>1, <2>2, <2>3, <2>4, <2>5 DEF ThreadStep
  <1>3. writer = s /\ pc[t] \notin {"header", "rows"} /\ ~PutMapFull(t)
    BY <1>2, FullInTxn DEF LockInv
  <1>4. UNCHANGED <<disk, work>>
    BY <1>3, TXODBAssumption
    DEF ThreadStep, ThreadFault, NoMoreFiles, TakeFile, PopFile, AdvancePos, EndOfFile,
        SkipRecord, FoundBlock, TxnBegin, TxnBeginPanics, WriteHeader, WriteRow, MapFull,
        Commit, ReadMapSize, GetEnvInfo, SetMapSize, SetMapSizeFails, TxnBeginFails,
        PutFails, CommitFails, ResizeFails
  <1>. QED  BY <1>1, <1>2, <1>4

LEMMA TxnStep ==
    ASSUME Inv, FlagsInv, TxnInv, Next
    PROVE  TxnInv'
  <1>. SUFFICES ASSUME NEW s \in Threads PROVE TxnOf(s)'
    BY DEF TxnInv
  <1>1. CASE pc'[s] \notin {"header", "rows"}
    BY <1>1 DEF TxnOf
  <1>2. ASSUME NEW t \in Threads, s # t, ThreadStep(t) \/ ThreadFault(t)
        PROVE  TxnOf(s)'
    BY <1>2, OthersKeepTxn
  <1>3. CASE TxnBegin(s)
    <2>1. OpenTables(disk.dbi) = disk.dbi
      <3>1. \A dbn \in Names : disk.dbi[dbn] = "plain"
        BY <1>3, Working DEF TxnBegin
      <3>. QED  BY <3>1, OpenExisting DEF Inv, TypeOK, Tables
    <2>2. work' = disk
      BY <1>3, <2>1 DEF TxnBegin, Inv, TypeOK, Tables
    <2>. QED  BY <1>3, <2>2 DEF TxnBegin, TxnOf, storeVars, Inv, TypeOK
  <1>4. CASE WriteHeader(s)
    BY <1>4, HeaderWritten
  <1>5. CASE WriteRow(s)
    BY <1>5, RowWritten
  <1>6. CASE /\ ThreadStep(s) \/ ThreadFault(s)
             /\ ~TxnBegin(s) /\ ~WriteHeader(s) /\ ~WriteRow(s)
    <2>. pc'[s] \notin {"header", "rows"}
      BY <1>6
      DEF ThreadStep, ThreadFault, NoMoreFiles, TakeFile, PopFile, AdvancePos, EndOfFile,
          SkipRecord, FoundBlock, TxnBeginPanics, MapFull, Commit, ReadMapSize,
          GetEnvInfo, SetMapSize, SetMapSizeFails, TxnBeginFails, PutFails, CommitFails,
          ResizeFails, GiveUp, Inv, TypeOK
    <2>. QED  BY <1>1
  <1>7. CASE MainStep \/ StartupFails \/ Crash
    <2>. pc'[s] \notin {"header", "rows"}
      BY <1>7
      DEF MainStep, Open, GetTXOStats, StartPreload, JoinOutputs, JoinSpends, StartupFails,
          Crash, NewThreads, AllJoined, Inv, PhaseInv, Names
    <2>. QED  BY <1>1
  <1>8. CASE Ended
    BY <1>8
    DEF Ended, TxnInv, TxnOf, Blk, Rec, File, Rows, vars, mainVars, placeVars, storeVars,
        txnVars
  <1>. QED  BY <1>2, <1>3, <1>4, <1>5, <1>6, <1>7, <1>8 DEF Next

-----------------------------------------------------------------------------
(* What is indexed stays indexed. *)

LEMMA IndexedKept ==
    ASSUME Inv, TxnInv, Next, NEW b, Indexed(disk, b)
    PROVE  Indexed(disk', b)
  <1>1. ASSUME NEW t \in Threads, Commit(t) PROVE Indexed(disk', b)
    <2>1. CASE mode = 0
      <3>1. /\ disk'.blk = disk.blk \cup {Blk(t)}
            /\ Index!Written(disk.txo, disk'.txo, Index!TxoRows(Blk(t)))
            /\ Index!Written(disk.addr, disk'.addr, Index!AddrRows(Blk(t)))
        BY <1>1, <2>1, CommitIsIndexStep DEF Index!IndexBlock
      <3>. QED  BY <3>1, KeyKept DEF Indexed
    <2>2. CASE mode = 1
      BY <1>1, <2>2, CommitIsIndexStep DEF Index!StoreHeader, Indexed
    <2>. QED  BY <2>1, <2>2 DEF Inv, TypeOK
  <1>2. CASE \A t \in Threads : ~Commit(t)
    BY <1>2, OtherStepsKeepRows DEF Indexed
  <1>. QED  BY <1>1, <1>2

LEMMA CommitIndexes ==
    ASSUME Inv, TxnInv, NEW t \in Threads, Commit(t), mode = 0
    PROVE  Indexed(disk', Blk(t))
  <1>1. /\ disk'.blk = disk.blk \cup {Blk(t)}
        /\ Index!Written(disk.txo, disk'.txo, Index!TxoRows(Blk(t)))
        /\ Index!Written(disk.addr, disk'.addr, Index!AddrRows(Blk(t)))
    BY CommitIsIndexStep DEF Index!IndexBlock
  <1>2. ASSUME NEW o \in OutputsOf(Blk(t))
        PROVE  HasKey(disk'.txo, o.tx) /\ HasKey(disk'.addr, o.sh)
    <2>1. /\ TxoRow(o) \in Index!TxoRows(Blk(t)) /\ TxoRow(o)[1] = o.tx
          /\ AddrRow(o) \in Index!AddrRows(Blk(t)) /\ AddrRow(o)[1] = o.sh
      BY DEF Index!TxoRows, Index!AddrRows, Index!OutputsOf, Index!TxoRow, Index!AddrRow,
             Index!OutPointOf, Index!NullOutPoint, TxoRows, AddrRows, OutputsOf, TxoRow,
             AddrRow, OutPointOf, NullOutPoint
    <2>. QED  BY <1>1, <2>1, KeyWritten
  <1>. QED  BY <1>1, <1>2 DEF Indexed

LEMMA FileKept ==
    ASSUME Inv, TxnInv, Next, NEW f
    PROVE  /\ FileIndexed(f) => FileIndexed(f)'
           /\ \A k : IndexedTo(f, k) => IndexedTo(f, k)'
  BY IndexedKept DEF FileIndexed, IndexedTo, Reached

(* At the end of a file all of it has been read. *)
LEMMA EndReached ==
    ASSUME NEW f, BlkFiles[f] \in Seq(Records), NEW k \in Nat \ {0},
           k \in DOMAIN BlkFiles[f] => BlkFiles[f][k].kind = "zero"
    PROVE  \A i \in Reached(f) : i < k
  <1>. SUFFICES ASSUME NEW i \in Reached(f), ~(i < k) PROVE FALSE
    OBVIOUS
  <1>1. /\ i \in 1..Len(BlkFiles[f]) /\ k \in 1..i
        /\ \A j \in 1..i : BlkFiles[f][j].kind # "zero"
    BY DEF Reached
  <1>2. k \in DOMAIN BlkFiles[f]
    BY <1>1
  <1>. QED  BY <1>1, <1>2

-----------------------------------------------------------------------------
(* The progress of the first pass. *)

(* A step that moves no thread from its place in its file. *)
LEMMA SamePlaces ==
    ASSUME Inv, TxnInv, LoadInv, Next,
           main' = main, lost' = lost, UNCHANGED <<pos_txo, blk_path, rec>>,
           \A s \in Threads :
              /\ HasFile(s)' <=> HasFile(s)
              /\ pc[s] = "advance" => pc'[s] = "advance"
              /\ pc'[s] = "done" => pc[s] = "done"
              /\ pc'[s] # "failed"
    PROVE  LoadInv'
  <1>. SUFFICES ASSUME main = "outputs", ~lost
                PROVE  HandedOut' /\ \A s \in Threads : ReadSoFar(s)'
    BY DEF LoadInv
  <1>1. HandedOut /\ \A s \in Threads : ReadSoFar(s)
    BY DEF LoadInv
  <1>2. HandedOut'
    BY <1>1, FileKept DEF HandedOut
  <1>3. ASSUME NEW s \in Threads PROVE ReadSoFar(s)'
    BY <1>1, FileKept DEF ReadSoFar
  <1>. QED  BY <1>2, <1>3

(* A step that moves thread t to another record, or out of its file. *)
LEMMA OnePlace ==
    ASSUME Inv, TxnInv, LoadInv, Next, main = "outputs", ~lost,
           NEW t \in Threads,
           UNCHANGED pos_txo,
           \A s \in Threads \ {t} : UNCHANGED <<pc[s], blk_path[s], rec[s]>>,
           \/ HasFile(t)' /\ blk_path'[t] = blk_path[t]
           \/ ~HasFile(t)
           \/ FileIndexed(blk_path[t]),
           ReadSoFar(t)'
    PROVE  HandedOut' /\ \A s \in Threads : ReadSoFar(s)'
  <1>1. HandedOut /\ \A s \in Threads : ReadSoFar(s)
    BY DEF LoadInv
  <1>2. ASSUME NEW s \in Threads PROVE ReadSoFar(s)'
    <2>1. CASE s # t
      BY <1>1, <2>1, FileKept DEF ReadSoFar, HasFile
    <2>. QED  BY <2>1
  <1>3. ASSUME NEW f \in 1..nBlockFiles,
               f < pos_txo, ~FileIndexed(f)'
        PROVE  \E s \in Threads : HasFile(s)' /\ blk_path'[s] = f
    <2>1. ~FileIndexed(f)
      BY <1>3, FileKept
    <2>2. PICK s \in Threads : HasFile(s) /\ blk_path[s] = f
      BY <1>1, <1>3, <2>1, FilesNat DEF HandedOut, Inv, TypeOK
    <2>3. CASE s # t
      BY <2>2, <2>3 DEF HasFile
    <2>4. CASE s = t
      BY <2>1, <2>2, <2>4
    <2>. QED  BY <2>3, <2>4
  <1>4. HandedOut'
    BY <1>3, FilesNat DEF HandedOut, Inv, TypeOK
  <1>. QED  BY <1>2, <1>4

LEMMA LoadStep ==
    ASSUME Inv, FlagsInv, TxnInv, LoadInv, Next
    PROVE  LoadInv'
  <1>. SUFFICES ASSUME main' = "outputs", ~lost'
                PROVE  HandedOut' /\ \A s \in Threads : ReadSoFar(s)'
    BY DEF LoadInv
  <1>1. CASE StartPreload
    BY <1>1 DEF StartPreload, NewThreads, HandedOut, ReadSoFar, HasFile
  <1>2. CASE StartupFails \/ Crash \/ Open \/ (\E dbn \in Names : GetTXOStats(dbn))
             \/ JoinOutputs \/ JoinSpends
    BY <1>2 DEF StartupFails, Crash, Open, GetTXOStats, AfterStats, JoinOutputs,
                JoinSpends, Names
  <1>3. ASSUME NEW t \in Threads, ThreadStep(t) \/ ThreadFault(t)
        PROVE  HandedOut' /\ \A s \in Threads : ReadSoFar(s)'
    <2>. USE DEF Inv, TypeOK
    <2>1. main = "outputs" /\ mode = 0
      BY <1>3
      DEF PhaseInv, ThreadStep, ThreadFault, NoMoreFiles, TakeFile, PopFile, AdvancePos,
          EndOfFile, SkipRecord, FoundBlock, TxnBegin, TxnBeginPanics, WriteHeader,
          WriteRow, MapFull, Commit, ReadMapSize, GetEnvInfo, SetMapSize,
          SetMapSizeFails, TxnBeginFails, PutFails, CommitFails, ResizeFails, mainVars
    <2>2. ~GiveUp(t) /\ ~CommitFails(t)
      BY <2>1 DEF GiveUp, CommitFails
    <2>3. ~lost
      BY <1>3, <2>2
      DEF ThreadStep, ThreadFault, NoMoreFiles, TakeFile, PopFile, AdvancePos,
          EndOfFile, SkipRecord, FoundBlock, TxnBegin, TxnBeginPanics, WriteHeader,
          WriteRow, MapFull, Commit, ReadMapSize, GetEnvInfo, SetMapSize,
          SetMapSizeFails, TxnBeginFails, PutFails, ResizeFails
    <2>4. HandedOut /\ \A s \in Threads : ReadSoFar(s)
      BY <2>1, <2>3 DEF LoadInv
    <2>5. CASE \/ FoundBlock(t) \/ TxnBegin(t) \/ WriteHeader(t) \/ WriteRow(t)
               \/ MapFull(t) \/ ReadMapSize(t) \/ SetMapSize(t)
      <3>1. /\ main' = main /\ lost' = lost
            /\ UNCHANGED <<pos_txo, blk_path, rec>>
        BY <2>5 DEF FoundBlock, TxnBegin, WriteHeader, WriteRow, MapFull, ReadMapSize,
                    GetEnvInfo, SetMapSize, mainVars, poolVars, placeVars
      <3>2. /\ pc[t] \in {"read"} \cup AtBlock
            /\ \/ pc' = pc
               \/ \E at \in AtBlock : pc' = [pc EXCEPT ![t] = at]
        BY <2>5, FullInTxn
        DEF FoundBlock, TxnBegin, WriteHeader, WriteRow, MapFull, ReadMapSize,
            GetEnvInfo, SetMapSize, AtBlock
      <3>3. \A s \in Threads :
              /\ HasFile(s)' <=> HasFile(s)
              /\ pc[s] = "advance" => pc'[s] = "advance"
              /\ pc'[s] = "done" => pc[s] = "done"
              /\ pc'[s] # "failed"
        BY <2>4, <3>2 DEF HasFile, AtBlock, ReadSoFar
      <3>4. LoadInv'
        BY <3>1, <3>3, SamePlaces
      <3>. QED  BY <3>4 DEF LoadInv
    <2>6. CASE NoMoreFiles(t)
      <3>1. /\ UNCHANGED pos_txo /\ ~HasFile(t)
            /\ \A s \in Threads \ {t} : UNCHANGED <<pc[s], blk_path[s], rec[s]>>
        BY <2>6 DEF NoMoreFiles, poolVars, placeVars, HasFile
      <3>2. ReadSoFar(t)'
        BY <2>6 DEF NoMoreFiles, poolVars, ReadSoFar, HasFile
      <3>. QED  BY <2>1, <2>3, <3>1, <3>2, OnePlace
    <2>7. CASE TakeFile(t)
      <3>1. /\ UNCHANGED pos_txo /\ ~HasFile(t)
            /\ \A s \in Threads \ {t} : UNCHANGED <<pc[s], blk_path[s], rec[s]>>
        BY <2>7 DEF TakeFile, PopFile, HasFile
      <3>2. ReadSoFar(t)'
        BY <2>7 DEF TakeFile, PopFile, ReadSoFar
      <3>. QED  BY <2>1, <2>3, <3>1, <3>2, OnePlace
    <2>8. CASE AdvancePos(t)
      <3>1. /\ pc[t] = "advance" /\ pc'[t] = "read" /\ rec'[t] = 1
            /\ blk_path' = blk_path /\ blk_path[t] = pos_txo
            /\ pos_txo' = pos_txo + 1
            /\ pos_txo <= nBlockFiles
            /\ \A s \in Threads \ {t} : UNCHANGED <<pc[s], rec[s]>>
        BY <2>8 DEF AdvancePos, PopInv, LockInv
      <3>2. ASSUME NEW s \in Threads PROVE ReadSoFar(s)'
        <4>1. CASE s = t
          <5>1. BlkFiles[blk_path[t]] \in Seq(Records)
            BY <3>1, FilesNat, ChainAssumption DEF ChainAssumption, nBlockFiles
          <5>2. \A i \in Reached(blk_path[t]) : ~(i < 1)
            BY <5>1 DEF Reached
          <5>3. IndexedTo(blk_path[t], rec[t])'
            BY <3>1, <5>2 DEF IndexedTo, Reached
          <5>. QED  BY <3>1, <4>1, <5>3 DEF ReadSoFar
        <4>2. CASE s # t
          BY <2>4, <3>1, <4>2, FileKept, FilesNat, SMTT(60) DEF ReadSoFar, HasFile
        <4>. QED  BY <4>1, <4>2
      <3>3. \A s \in Threads : HasFile(s) => HasFile(s)'
        BY <3>1 DEF HasFile
      <3>4. HasFile(t)
        BY <3>1 DEF HasFile
      <3>5. ASSUME NEW f \in 1..nBlockFiles, f < pos_txo', ~FileIndexed(f)'
            PROVE  \E s \in Threads : HasFile(s)' /\ blk_path'[s] = f
        <4>1. CASE f = pos_txo
          BY <3>1, <3>3, <3>4, <4>1
        <4>2. CASE f # pos_txo
          <5>1. f < pos_txo /\ ~FileIndexed(f)
            BY <3>1, <3>5, <4>2, FileKept, FilesNat
          <5>. QED  BY <2>4, <3>1, <3>3, <5>1, FilesNat DEF HandedOut
        <4>. QED  BY <4>1, <4>2
      <3>6. HandedOut'
        BY <3>1, <3>5, FilesNat DEF HandedOut
      <3>. QED  BY <3>2, <3>6
    <2>9. CASE EndOfFile(t)
      <3>1. /\ UNCHANGED pos_txo /\ HasFile(t) /\ pc[t] = "read" /\ pc'[t] = "pop"
            /\ \A s \in Threads \ {t} : UNCHANGED <<pc[s], blk_path[s], rec[s]>>
        BY <2>9 DEF EndOfFile, poolVars, placeVars, HasFile
      <3>2. BlkFiles[blk_path[t]] \in Seq(Records)
        BY <3>1, FilesNat, ChainAssumption DEF EachFileOnce, ChainAssumption, nBlockFiles
      <3>3. \A i \in Reached(blk_path[t]) : i < rec[t]
        BY <2>9, <3>2, EndReached DEF EndOfFile, AtEnd, Rec, File
      <3>4. FileIndexed(blk_path[t])
        BY <2>4, <3>1, <3>3 DEF ReadSoFar, IndexedTo, FileIndexed
      <3>5. ReadSoFar(t)'
        BY <3>1 DEF ReadSoFar, HasFile
      <3>. QED  BY <2>1, <2>3, <3>1, <3>4, <3>5, OnePlace
    <2>10. CASE SkipRecord(t) \/ Commit(t)
      <3>1. /\ UNCHANGED <<pos_txo, blk_path>> /\ pc'[t] = "read"
            /\ HasFile(t) /\ HasFile(t)' /\ pc[t] # "advance"
            /\ rec'[t] = rec[t] + 1
            /\ \A s \in Threads \ {t} : UNCHANGED <<pc[s], blk_path[s], rec[s]>>
        BY <2>10 DEF SkipRecord, Commit, poolVars, HasFile
      <3>2. IndexedTo(blk_path[t], rec[t])'
        <4>1. /\ IndexedTo(blk_path[t], rec[t])
              /\ \A i \in Reached(blk_path[t]) : i \in Nat
          BY <2>4, <3>1 DEF ReadSoFar, Reached
        <4>2. Rec(t).kind = "block" => Indexed(disk', Rec(t).blk)
          BY <2>1, <2>10, CommitIndexes DEF SkipRecord, Commit, SkippedKinds, Blk
        <4>3. ASSUME NEW i \in Reached(blk_path[t]), i < rec[t] + 1,
                     BlkFiles[blk_path[t]][i].kind = "block"
              PROVE  Indexed(disk', BlkFiles[blk_path[t]][i].blk)
          <5>1. CASE i = rec[t]
            BY <4>2, <4>3, <5>1 DEF Rec, File
          <5>2. CASE i < rec[t]
            BY <4>1, <4>3, <5>2, IndexedKept DEF IndexedTo
          <5>. QED  BY <4>1, <4>3, <5>1, <5>2
        <4>. QED  BY <3>1, <4>3 DEF IndexedTo, Reached
      <3>3. ReadSoFar(t)'
        BY <3>1, <3>2 DEF ReadSoFar
      <3>. QED  BY <2>1, <2>3, <3>1, <3>3, OnePlace
    <2>. QED
      BY <1>3, <2>2, <2>5, <2>6, <2>7, <2>8, <2>9, <2>10
      DEF ThreadStep, ThreadFault, TxnBeginPanics, SetMapSizeFails, TxnBeginFails, PutFails,
          ResizeFails
  <1>4. CASE Ended
    BY <1>4 DEF Ended, vars, mainVars
  <1>. QED  BY <1>1, <1>2, <1>3, <1>4 DEF Next, MainStep

(* The first pass hands over to the second with every block indexed. *)
LEMMA LoadedStep ==
    ASSUME Inv, TxnInv, LoadInv, LoadedUnlessLost, Next
    PROVE  LoadedUnlessLost'
  <1>. SUFFICES ASSUME main' \in {"spends", "finished"}, ~lost',
                       NEW f \in 1..nBlockFiles
                PROVE  FileIndexed(f)'
    BY DEF LoadedUnlessLost, AllBlocksIndexed, nBlockFiles
  <1>1. CASE JoinOutputs
    <2>1. HandedOut /\ \A t \in Threads : ReadSoFar(t)
      BY <1>1 DEF JoinOutputs, LoadInv
    <2>2. \A t \in Threads : pc[t] = "done"
      BY <1>1, <2>1 DEF JoinOutputs, AllJoined, ReadSoFar
    <2>3. pos_txo > nBlockFiles
      BY <2>1, <2>2, TXODBAssumption DEF ReadSoFar
    <2>4. FileIndexed(f)
      BY <2>1, <2>2, <2>3, FilesNat DEF HandedOut, HasFile, Inv, TypeOK
    <2>. QED  BY <2>4, FileKept
  <1>2. CASE main \in {"spends", "finished"} /\ ~lost
    BY <1>2, FileKept DEF LoadedUnlessLost, AllBlocksIndexed
  <1>3. ASSUME NEW t \in Threads, ThreadStep(t) \/ ThreadFault(t)
        PROVE  main' = main /\ ~lost
    <2>1. main' = main
      BY <1>3
      DEF ThreadStep, ThreadFault, NoMoreFiles, TakeFile, PopFile, AdvancePos, EndOfFile,
          SkipRecord, FoundBlock, TxnBegin, TxnBeginPanics, WriteHeader, WriteRow,
          MapFull, Commit, ReadMapSize, GetEnvInfo, SetMapSize, SetMapSizeFails,
          TxnBeginFails, PutFails, CommitFails, ResizeFails, GiveUp, mainVars
    <2>2. lost' = lost \/ lost' = (lost \/ mode = 0)
      BY <1>3
      DEF ThreadStep, ThreadFault, NoMoreFiles, TakeFile, PopFile, AdvancePos, EndOfFile,
          SkipRecord, FoundBlock, TxnBegin, TxnBeginPanics, WriteHeader, WriteRow,
          MapFull, Commit, ReadMapSize, GetEnvInfo, SetMapSize, SetMapSizeFails,
          TxnBeginFails, PutFails, CommitFails, ResizeFails, GiveUp
    <2>3. CASE lost = TRUE
      <3>. lost' = TRUE
        BY <2>2, <2>3
      <3>. QED  OBVIOUS
    <2>. QED  BY <2>1, <2>3 DEF Inv, TypeOK
  <1>4. CASE JoinSpends \/ Ended
    BY <1>2, <1>4 DEF JoinSpends, Ended, vars, mainVars
  <1>5. CASE StartupFails \/ Crash \/ Open \/ (\E dbn \in Names : GetTXOStats(dbn))
             \/ StartPreload
    BY <1>5 DEF StartupFails, Crash, Open, GetTXOStats, AfterStats, StartPreload, Names
  <1>. QED  BY <1>1, <1>2, <1>3, <1>4, <1>5 DEF Next, MainStep

(* The indexes agree after a step of TXOIndex if they did before. *)
LEMMA ConsistentStep ==
    ASSUME Inv, TxnInv, IndexConsistent, Next
    PROVE  IndexConsistent'
  <1>. USE DEF IndexConsistent, RowsOfStoredBlocks, AddrFindsTxo
  <1>1. ASSUME NEW t \in Threads, Commit(t), mode = 0 PROVE IndexConsistent'
    <2>. DEFINE b == Blk(t)
    <2>1. /\ disk'.blk = disk.blk \cup {b}
          /\ Index!Written(disk.txo, disk'.txo, TxoRows(b))
          /\ Index!Written(disk.addr, disk'.addr, AddrRows(b))
      <3>1. Index!TxoRows(b) = TxoRows(b) /\ Index!AddrRows(b) = AddrRows(b)
        BY DEF Index!TxoRows, Index!AddrRows, Index!OutputsOf, Index!TxoRow, Index!AddrRow,
               Index!OutPointOf, Index!NullOutPoint, TxoRows, AddrRows, OutputsOf, TxoRow,
               AddrRow, OutPointOf, NullOutPoint
      <3>. QED  BY <1>1, <3>1, CommitIsIndexStep DEF Index!IndexBlock
    <2>. HIDE DEF b
    <2>2. RowsOfStoredBlocks'
      BY <2>1 DEF Index!Written
    <2>3. ASSUME NEW r \in disk'.addr PROVE HasKey(disk'.txo, r[2].hash)
      <3>1. CASE r \in disk.addr
        BY <2>1, <3>1, KeyKept
      <3>2. CASE r \in AddrRows(b)
        <4>1. PICK o \in OutputsOf(b) : r = AddrRow(o)
          BY <3>2 DEF AddrRows
        <4>2. r[2].hash = o.tx /\ TxoRow(o) \in TxoRows(b) /\ TxoRow(o)[1] = o.tx
          BY <4>1 DEF AddrRow, OutPointOf, TxoRow, TxoRows
        <4>. QED  BY <2>1, <4>2, KeyWritten
      <3>. QED  BY <2>1, <3>1, <3>2 DEF Index!Written
    <2>. QED  BY <2>2, <2>3
  <1>2. ASSUME NEW t \in Threads, Commit(t), mode = 1 PROVE IndexConsistent'
    BY <1>2, CommitIsIndexStep DEF Index!StoreHeader
  <1>3. CASE \A t \in Threads : ~Commit(t)
    BY <1>3, OtherStepsKeepRows
  <1>. QED  BY <1>1, <1>2, <1>3 DEF Inv, TypeOK

-----------------------------------------------------------------------------
(* The theorems. *)

LEMMA InitIndexInv == Init => IndexInv
  <1>. SUFFICES ASSUME Init PROVE IndexInv
    OBVIOUS
  <1>1. Inv
    BY InitInv
  <1>2. FlagsInv /\ IndexConsistent
    BY DEF Init, EmptyTables, FlagsInv, Names, IndexConsistent, RowsOfStoredBlocks,
           AddrFindsTxo
  <1>3. TxnInv /\ LoadInv /\ LoadedUnlessLost
    BY DEF Init, TxnInv, TxnOf, LoadInv, LoadedUnlessLost
  <1>. QED  BY <1>1, <1>2, <1>3 DEF IndexInv

LEMMA NextIndexInv == IndexInv /\ [Next]_vars => IndexInv'
  <1>. SUFFICES ASSUME IndexInv, [Next]_vars PROVE IndexInv'
    OBVIOUS
  <1>1. Inv'
    BY NextInv DEF IndexInv
  <1>2. CASE Next
    BY <1>1, <1>2, FlagsStep, TxnStep, LoadStep, LoadedStep, ConsistentStep DEF IndexInv
  <1>3. CASE UNCHANGED vars
    <2>. USE <1>3 DEF vars, mainVars, poolVars, placeVars, storeVars, txnVars
    <2>1. FlagsInv' /\ IndexConsistent'
      BY DEF IndexInv, FlagsInv, IndexConsistent, RowsOfStoredBlocks, AddrFindsTxo
    <2>2. TxnInv'
      BY DEF IndexInv, TxnInv, TxnOf, Rows, Blk, Rec, File
    <2>3. LoadInv' /\ LoadedUnlessLost'
      BY DEF IndexInv, LoadInv, HandedOut, ReadSoFar, HasFile, IndexedTo, Reached,
             LoadedUnlessLost, AllBlocksIndexed, FileIndexed, Indexed, nBlockFiles
    <2>. QED  BY <1>1, <2>1, <2>2, <2>3 DEF IndexInv
  <1>. QED  BY <1>2, <1>3

THEOREM IndexInvariance == Spec => []IndexInv
  BY InitIndexInv, NextIndexInv, PTL DEF Spec

(***************************************************************************)
(* The committed indexes agree in every state: every row belongs to an     *)
(* output of a stored block, and the transaction an address points to is   *)
(* in the txo table, for any chain, any number of threads and any pattern  *)
(* of failing calls and crashes.                                           *)
(***************************************************************************)
THEOREM IndexesAgree == Spec => []IndexConsistent
  <1>1. IndexInv => IndexConsistent
    BY DEF IndexInv
  <1>. QED  BY <1>1, IndexInvariance, PTL

(***************************************************************************)
(* When "All outputs are loaded!" is logged and no thread of the first     *)
(* pass gave up and no commit failed, every block of every file is         *)
(* indexed.                                                                *)
(***************************************************************************)
THEOREM LoadsEveryBlock == Spec => []LoadedUnlessLost
  <1>1. IndexInv => LoadedUnlessLost
    BY DEF IndexInv
  <1>. QED  BY <1>1, IndexInvariance, PTL

(***************************************************************************)
(* The loader implements TXOIndex: a reader of the committed tables only   *)
(* ever sees them change by whole blocks.                                  *)
(***************************************************************************)
THEOREM ImplementsIndex == Spec => CommitsWholeBlocks
  <1>1. Init => Index!Init
    BY DEF Init, EmptyTables, Index!Init
  <1>2. IndexInv /\ [Next]_vars => [Index!Next]_(Index!vars)
    <2>. SUFFICES ASSUME IndexInv, [Next]_vars
                  PROVE  Index!Next \/ UNCHANGED Index!vars
      OBVIOUS
    <2>1. ASSUME NEW t \in Threads, Commit(t) PROVE Index!Next
      BY <2>1, CommitIsIndexStep DEF IndexInv, Inv, TypeOK, Index!Next
    <2>2. CASE Next /\ \A t \in Threads : ~Commit(t)
      BY <2>2, OtherStepsKeepRows DEF IndexInv, Index!vars
    <2>3. CASE UNCHANGED vars
      BY <2>3 DEF vars, storeVars, Index!vars
    <2>. QED  BY <2>1, <2>2, <2>3
  <1>. QED  BY <1>1, <1>2, IndexInvariance, PTL DEF Spec, CommitsWholeBlocks, Index!Spec
=============================================================================

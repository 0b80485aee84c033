-------------------------- MODULE AsyncLoggerProofs -------------------------
(***************************************************************************)
(* What is proved of the log, for any threads, any size of a file and any  *)
(* number of lines and days: everything has its type, the lines are in the *)
(* order in which they were pushed, also when the main thread or the       *)
(* writer handles a signal, and the files follow each other as their names *)
(* say, whichever thread does; until a signal the log is one queue.        *)
(***************************************************************************)
EXTENDS AsyncLogger, SequenceLemmas, FiniteSetTheorems, TLAPS

USE DEF Threads

-----------------------------------------------------------------------------
(* The invariant.                                                           *)

\* Only a batch that is not empty is handed over, in whichever thread: syncLoop
\* asks before it takes the second mutex.
Batches == \A t \in Threads : pc[t] \in {"queueLock", "enqueue"} => tmp_vec[t] # <<>>

\* The writer has a line to write, and a file, when it writes.
Writing ==
  /\ pc[Writer] \in {"open", "write"} => tmp # <<>>
  /\ pc[Writer] = "write" => files # <<>>

\* The threads that are about to push have their place among the lines; the
\* handler has one of its own.
Places == MaxLines + (IF handler = NoThread THEN 0 ELSE 1)

Counted == pushed + Cardinality(Pushing) <= Places

\* No file is of a day to come.
Dated == \A i \in DOMAIN files : files[i].m_date <= today

Inv == TypeOK /\ Batches /\ Writing /\ Counted /\ Dated /\ FilesAreFull

-----------------------------------------------------------------------------
(* Sets and records.                                                        *)

\* The threads that are about to push are finitely many.
LEMMA PushingFinite ==
  /\ IsFiniteSet(Threads) /\ IsFiniteSet(Pushing) /\ Cardinality(Pushing) \in Nat
<1>1. IsFiniteSet(Threads)
  <2>1. IsFiniteSet(Loggers \cup {Writer})
    BY FS_AddElement, LoggersAssumption
  <2> QED
    BY <2>1
<1>2. Pushing \subseteq Threads
  BY DEF Pushing
<1> QED
  BY <1>1, <1>2, FS_Subset, FS_CardinalityType

\* A thread that goes on without a push, or with one, or begins one.
LEMMA PushingMoves ==
  ASSUME pc \in [Threads -> LoggerPC \cup WriterPC], NEW t \in Threads, NEW label,
         pc' = [pc EXCEPT ![t] = label]
  PROVE  /\ label \in {"pushLock", "push"} => Pushing' = Pushing \cup {t}
         /\ label \notin {"pushLock", "push"} => Pushing' = Pushing \ {t}
BY DEF Pushing

\* A thread that does not push may go on.
LEMMA CountedFrame ==
  ASSUME Inv, NEW t \in Threads, NEW label, pc' = [pc EXCEPT ![t] = label],
         label \in {"pushLock", "push"} => pc[t] \in {"pushLock", "push"},
         pushed' = pushed, handler' = handler
  PROVE  Counted'
<1>1. pc \in [Threads -> LoggerPC \cup WriterPC] /\ pushed \in Nat
  BY LoggersAssumption DEF Inv, TypeOK
<1>2. Pushing' \subseteq Pushing
  BY <1>1, PushingMoves DEF Pushing
<1>3. Cardinality(Pushing') <= Cardinality(Pushing) /\ Cardinality(Pushing') \in Nat
  BY <1>2, PushingFinite, FS_Subset, FS_CardinalityType
<1>4. pushed + Cardinality(Pushing) <= Places /\ Places \in Nat /\ Places' = Places
  BY LoggersAssumption DEF Inv, Counted, Places
<1>5. Cardinality(Pushing)' = Cardinality(Pushing')
  OBVIOUS
<1> QED
  BY <1>1, <1>3, <1>4, <1>5, PushingFinite DEF Counted

FileType == [m_date : Nat, m_no : Nat, lines : Seq(Lines)]

\* What a file is.
LEMMA FileFacts ==
  ASSUME TypeOK
  PROVE  /\ files \in Seq(FileType) /\ Len(files) \in Nat /\ DOMAIN files = 1 .. Len(files)
         /\ \A i \in DOMAIN files :
              files[i] \in FileType /\ files[i].m_date \in Nat /\ files[i].m_no \in Nat
         /\ files # <<>> => Len(files) > 0 /\ Len(files) \in DOMAIN files
<1>1. files \in Seq(FileType)
  BY DEF TypeOK, FileType
<1>2. Len(files) \in Nat /\ DOMAIN files = 1 .. Len(files)
  BY <1>1
<1>3. \A i \in 1 .. Len(files) : files[i] \in FileType
  BY <1>1, ElementOfSeq
<1>4. \A file \in FileType : file.m_date \in Nat /\ file.m_no \in Nat
  BY DEF FileType
<1>5. files # <<>> => Len(files) > 0
  BY <1>1, <1>2, EmptySeq
<1> QED
  BY <1>1, <1>2, <1>3, <1>4, <1>5

\* A step that leaves the files alone, on the same day or on the next.
LEMMA FilesFrame ==
  ASSUME Inv, files' = files, today' \in {today, today + 1}
  PROVE  Dated' /\ FilesAreFull'
<1>1. \A i \in DOMAIN files : files[i].m_date \in Nat
  BY FileFacts DEF Inv
<1>2. today \in Nat
  BY DEF Inv, TypeOK
<1> QED
  BY <1>1, <1>2 DEF Inv, Dated, FilesAreFull

-----------------------------------------------------------------------------
(* Logger, in any thread.                                                   *)

\* A thread takes a mutex, gives it back or returns: it changes nothing else.
LEMMA MutexInv ==
  ASSUME Inv, NEW t \in Threads,
         \/ PushLock(t) \/ SyncLock(t) \/ QueueLock(t)
         \/ PushReturn(t) \/ QueueReturn(t) \/ SyncReturn(t)
  PROVE  Inv'
<1> USE DEF PushLock, SyncLock, QueueLock, PushReturn, QueueReturn, SyncReturn
<1>1. /\ UNCHANGED <<pushed, staged, tmp_vec, m_buffer, tmp, files, m_stop_flag, today, handler>>
      /\ app_locked' = app_locked /\ app_writer' \in {app_writer, "busy"}
      /\ logger_mutex' \in {logger_mutex, NoThread, t}
      /\ async_mutex' \in {async_mutex, NoThread, t}
  BY DEF stageVars, queueVars, fileVars, envVars, appVars
<1>2. PICK label \in LoggerPC \ {"pushLock"} : pc' = [pc EXCEPT ![t] = label]
  BY DEF Goto, LoggerPC
<1>3. /\ pc[t] \in LoggerPC \cup WriterPC /\ pc[t] \notin WriterPC
      /\ label = "push" => pc[t] = "pushLock"
      /\ label \in {"queueLock", "enqueue"} => pc[t] = "queueLock"
  BY <1>2 DEF Goto, WriterPC, Inv, TypeOK
<1>4. TypeOK'
  <2>1. pc' \in [Threads -> LoggerPC \cup WriterPC]
    BY <1>2 DEF Inv, TypeOK
  <2>2. logger_mutex' \in Threads \cup {NoThread} /\ async_mutex' \in Threads \cup {NoThread}
    BY <1>1 DEF Inv, TypeOK
  <2> QED
    BY <1>1, <2>1, <2>2 DEF Inv, TypeOK
<1>5. Batches'
  BY <1>1, <1>2, <1>3 DEF Inv, TypeOK, Batches
<1>6. Writing'
  BY <1>1, <1>2, <1>3 DEF Inv, TypeOK, Writing, LoggerPC
<1>7. Counted'
  BY <1>1, <1>2, <1>3, CountedFrame
<1>8. Dated' /\ FilesAreFull'
  BY <1>1, FilesFrame
<1> QED
  BY <1>4, <1>5, <1>6, <1>7, <1>8 DEF Inv

\* pushLog begins: there is room for one more line.
LEMMA PushBeginInv ==
  ASSUME Inv, NEW t \in Threads, PushBegin(t)
  PROVE  Inv'
<1>1. /\ UNCHANGED <<pushed, logger_mutex, staged, tmp_vec, async_mutex, m_buffer, tmp, files,
                     m_stop_flag, today, handler, app_locked, app_writer>>
      /\ pc' = [pc EXCEPT ![t] = "pushLock"] /\ pc[t] = "idle"
      /\ pushed + Cardinality(Pushing) < MaxLines
  BY DEF PushBegin, Goto, stageVars, queueVars, fileVars, envVars, appVars
<1>2. pc \in [Threads -> LoggerPC \cup WriterPC] /\ pushed \in Nat
  BY LoggersAssumption DEF Inv, TypeOK
<1>3. TypeOK'
  <2>1. pc' \in [Threads -> LoggerPC \cup WriterPC]
    BY <1>1, <1>2 DEF LoggerPC
  <2> QED
    BY <1>1, <2>1 DEF Inv, TypeOK
<1>4. Batches' /\ Writing'
  BY <1>1, <1>2 DEF Inv, Batches, Writing
<1>5. Counted'
  <2>1. Pushing' = Pushing \cup {t}
    BY <1>1, <1>2, PushingMoves
  <2>2. Cardinality(Pushing') <= Cardinality(Pushing) + 1 /\ Cardinality(Pushing') \in Nat
    <3>1. /\ Cardinality(Pushing) \in Nat
          /\ Cardinality(Pushing \cup {t}) =
               IF t \in Pushing THEN Cardinality(Pushing) ELSE Cardinality(Pushing) + 1
      BY PushingFinite, FS_AddElement
    <3> QED
      BY <2>1, <3>1
  <2>3. Places' = Places /\ Places >= MaxLines
    BY <1>1, LoggersAssumption DEF Places
  <2>4. Cardinality(Pushing)' = Cardinality(Pushing')
    OBVIOUS
  <2> QED
    BY <1>1, <1>2, <2>2, <2>3, <2>4, PushingFinite, LoggersAssumption DEF Counted, Places
<1>6. Dated' /\ FilesAreFull'
  BY <1>1, FilesFrame
<1> QED
  BY <1>3, <1>4, <1>5, <1>6 DEF Inv

\* The line is one of those that there is room for.
LEMMA PushInv ==
  ASSUME Inv, NEW t \in Threads, Push(t)
  PROVE  Inv'
<1>1. /\ UNCHANGED <<tmp_vec, async_mutex, m_buffer, tmp, files,
                     m_stop_flag, today, handler, app_locked, app_writer>>
      /\ logger_mutex' = NoThread
      /\ pc' = [pc EXCEPT ![t] = "pushReturn"] /\ pc[t] = "push"
      /\ pushed' = pushed + 1 /\ staged' = Append(staged, pushed + 1)
  BY DEF Push, Goto, queueVars, fileVars, envVars, appVars
<1>2. pc \in [Threads -> LoggerPC \cup WriterPC] /\ pushed \in Nat /\ staged \in Seq(Lines)
  BY LoggersAssumption DEF Inv, TypeOK
<1>3. t \in Pushing /\ Pushing' = Pushing \ {t}
  BY <1>1, <1>2, PushingMoves DEF Pushing
<1>4. /\ Cardinality(Pushing') = Cardinality(Pushing) - 1 /\ Cardinality(Pushing') \in Nat
      /\ Cardinality(Pushing)' = Cardinality(Pushing')
  BY <1>3, PushingFinite, FS_RemoveElement, FS_CardinalityType
<1>5. Places' = Places /\ Places \in Nat /\ Places <= MaxLines + 1
  BY <1>1, LoggersAssumption DEF Places
<1>6. pushed' + Cardinality(Pushing') <= Places /\ pushed + 1 <= MaxLines + 1
  BY <1>1, <1>2, <1>4, <1>5, PushingFinite, LoggersAssumption DEF Inv, Counted
<1>7. pushed + 1 \in Lines /\ pushed' \in 0 .. MaxLines + 1
  BY <1>1, <1>2, <1>6, LoggersAssumption DEF Lines
<1>8. TypeOK'
  <2>1. pc' \in [Threads -> LoggerPC \cup WriterPC]
    BY <1>1, <1>2 DEF LoggerPC
  <2>2. staged' \in Seq(Lines)
    BY <1>1, <1>2, <1>7
  <2> QED
    BY <1>1, <1>7, <2>1, <2>2 DEF Inv, TypeOK
<1>9. Batches' /\ Writing'
  BY <1>1, <1>2 DEF Inv, Batches, Writing
<1>10. Counted'
  BY <1>4, <1>5, <1>6 DEF Counted
<1>11. Dated' /\ FilesAreFull'
  BY <1>1, FilesFrame
<1> QED
  BY <1>8, <1>9, <1>10, <1>11 DEF Inv

\* syncLoop takes the lines, and goes on only if there are any.
LEMMA SwapInv ==
  ASSUME Inv, NEW t \in Threads, Swap(t)
  PROVE  Inv'
<1>1. /\ UNCHANGED <<pushed, async_mutex, m_buffer, tmp, files,
                     m_stop_flag, today, handler, app_locked, app_writer>>
      /\ logger_mutex' = NoThread /\ pc[t] = "swap"
      /\ tmp_vec' = [tmp_vec EXCEPT ![t] = staged] /\ staged' = <<>>
  BY DEF Swap, queueVars, fileVars, envVars, appVars
<1>2. PICK label \in {"queueLock", "syncReturn"} :
        pc' = [pc EXCEPT ![t] = label] /\ (label = "queueLock" => staged # <<>>)
  BY DEF Swap, Goto
<1>3. /\ pc \in [Threads -> LoggerPC \cup WriterPC] /\ staged \in Seq(Lines)
      /\ tmp_vec \in [Threads -> Seq(Lines)]
  BY DEF Inv, TypeOK
<1>4. TypeOK'
  <2>1. pc' \in [Threads -> LoggerPC \cup WriterPC]
    BY <1>2, <1>3 DEF LoggerPC
  <2>2. tmp_vec' \in [Threads -> Seq(Lines)] /\ staged' \in Seq(Lines)
    BY <1>1, <1>3
  <2> QED
    BY <1>1, <2>1, <2>2 DEF Inv, TypeOK
<1>5. Batches'
  BY <1>1, <1>2, <1>3 DEF Inv, Batches
<1>6. Writing'
  BY <1>1, <1>2, <1>3 DEF Inv, Writing
<1>7. Counted'
  BY <1>1, <1>2, CountedFrame
<1>8. Dated' /\ FilesAreFull'
  BY <1>1, FilesFrame
<1> QED
  BY <1>4, <1>5, <1>6, <1>7, <1>8 DEF Inv

\* pushLogBuffer pushes the batch and wakes the writer.
LEMMA EnqueueInv ==
  ASSUME Inv, NEW t \in Threads, Enqueue(t)
  PROVE  Inv'
<1>1. /\ UNCHANGED <<pushed, logger_mutex, staged, tmp, files,
                     m_stop_flag, today, handler, app_locked, app_writer>>
      /\ async_mutex' = NoThread /\ pc[t] = "enqueue"
      /\ m_buffer' = Append(m_buffer, tmp_vec[t])
      /\ tmp_vec' = [tmp_vec EXCEPT ![t] = <<>>]
      /\ pc' = [u \in Threads |-> IF u = t THEN "queueReturn"
                                  ELSE IF pc[u] = "waiting" THEN "lock" ELSE pc[u]]
  BY DEF Enqueue, stageVars, fileVars, envVars, appVars
<1>2. /\ pc \in [Threads -> LoggerPC \cup WriterPC] /\ tmp_vec \in [Threads -> Seq(Lines)]
      /\ m_buffer \in Seq(Seq(Lines) \ {<<>>}) /\ pushed \in Nat
  BY LoggersAssumption DEF Inv, TypeOK
<1>3. TypeOK'
  <2>1. pc' \in [Threads -> LoggerPC \cup WriterPC]
    BY <1>1, <1>2 DEF LoggerPC, WriterPC
  <2>2. tmp_vec[t] \in Seq(Lines) \ {<<>>}
    BY <1>1, <1>2 DEF Inv, Batches
  <2>3. m_buffer' \in Seq(Seq(Lines) \ {<<>>})
    BY <1>1, <1>2, <2>2
  <2>4. tmp_vec' \in [Threads -> Seq(Lines)]
    BY <1>1, <1>2
  <2> QED
    BY <1>1, <2>1, <2>3, <2>4 DEF Inv, TypeOK
<1>4. Batches'
  BY <1>1, <1>2 DEF Inv, Batches
<1>5. Writing'
  BY <1>1, <1>2 DEF Inv, Writing
<1>6. Counted'
  <2>1. Pushing' = Pushing
    BY <1>1, <1>2 DEF Pushing
  <2> QED
    BY <1>1, <2>1 DEF Inv, Counted, Places
<1>7. Dated' /\ FilesAreFull'
  BY <1>1, FilesFrame
<1> QED
  BY <1>3, <1>4, <1>5, <1>6, <1>7 DEF Inv

-----------------------------------------------------------------------------
(* The writer.                                                              *)

\* The steps of the writer between two batches.
LEMMA WriterIdleInv ==
  ASSUME Inv, WriterLock \/ Wait \/ Check
  PROVE  Inv'
<1> USE DEF WriterLock, Wait, Check
<1>1. /\ UNCHANGED <<pushed, logger_mutex, staged, tmp_vec, m_buffer, tmp, files, m_stop_flag,
                     today, handler, app_locked, app_writer>>
      /\ async_mutex' \in {NoThread, Writer} /\ Writer \in Threads
  BY DEF stageVars, fileVars, envVars, appVars
<1>2. PICK label \in {"take", "waiting", "done", "lock"} : pc' = [pc EXCEPT ![Writer] = label]
  BY DEF Goto
<1>3. pc \in [Threads -> LoggerPC \cup WriterPC]
  BY DEF Inv, TypeOK
<1>4. TypeOK'
  <2>1. pc' \in [Threads -> LoggerPC \cup WriterPC]
    BY <1>2, <1>3 DEF WriterPC
  <2> QED
    BY <1>1, <2>1 DEF Inv, TypeOK
<1>5. Batches' /\ Writing'
  BY <1>1, <1>2, <1>3 DEF Inv, Batches, Writing
<1>6. Counted'
  BY <1>1, <1>2, CountedFrame
<1>7. Dated' /\ FilesAreFull'
  BY <1>1, FilesFrame
<1> QED
  BY <1>4, <1>5, <1>6, <1>7 DEF Inv

\* The batch that is taken is not empty.
LEMMA TakeInv ==
  ASSUME Inv, Take
  PROVE  Inv'
<1>1. /\ UNCHANGED <<pushed, logger_mutex, staged, tmp_vec, files,
                     m_stop_flag, today, handler, app_locked, app_writer>>
      /\ async_mutex' = NoThread /\ m_buffer # <<>> /\ Writer \in Threads
      /\ tmp' = Head(m_buffer) /\ m_buffer' = Tail(m_buffer)
      /\ pc' = [pc EXCEPT ![Writer] = "open"]
  BY DEF Take, Goto, stageVars, envVars, appVars
<1>2. /\ pc \in [Threads -> LoggerPC \cup WriterPC]
      /\ m_buffer \in Seq(Seq(Lines) \ {<<>>})
  BY DEF Inv, TypeOK
<1>3. tmp' \in Seq(Lines) \ {<<>>} /\ m_buffer' \in Seq(Seq(Lines) \ {<<>>})
  <2>1. Head(m_buffer) \in Seq(Lines) \ {<<>>} /\ Tail(m_buffer) \in Seq(Seq(Lines) \ {<<>>})
    BY <1>1, <1>2, HeadTailProperties
  <2> QED
    BY <1>1, <2>1
<1>4. TypeOK'
  <2>1. pc' \in [Threads -> LoggerPC \cup WriterPC]
    BY <1>1, <1>2 DEF WriterPC
  <2> QED
    BY <1>1, <1>3, <2>1 DEF Inv, TypeOK
<1>5. Batches' /\ Writing'
  BY <1>1, <1>2, <1>3 DEF Inv, Batches, Writing
<1>6. Counted'
  BY <1>1, CountedFrame
<1>7. Dated' /\ FilesAreFull'
  BY <1>1, FilesFrame
<1> QED
  BY <1>4, <1>5, <1>6, <1>7 DEF Inv

\* The next file has the next number of its day, or is the first of a new one.
LEMMA OpenFileInv ==
  ASSUME Inv, OpenFile
  PROVE  Inv'
<1>1. /\ UNCHANGED <<pushed, logger_mutex, staged, tmp_vec, async_mutex, m_buffer, tmp,
                     m_stop_flag, today, handler, app_locked, app_writer>>
      /\ files' = NextFile /\ Writer \in Threads
      /\ pc' = [pc EXCEPT ![Writer] = "write"] /\ pc[Writer] = "open"
  BY DEF OpenFile, Goto, stageVars, queueVars, envVars, appVars
<1>2. /\ pc \in [Threads -> LoggerPC \cup WriterPC] /\ files \in Seq(FileType) /\ today \in Nat
  BY DEF Inv, TypeOK, FileType
<1>3. \A no \in Nat : /\ File(no) \in FileType /\ File(no).m_date = today
                      /\ File(no).m_no = no
  BY <1>2 DEF File, FileType
<1>4. CASE files' = files
  <2>1. files # <<>>
    <3>1. files = <<>> => files' = <<File(0)>>
      BY <1>1 DEF NextFile
    <3>2. Len(<<File(0)>>) = 1 /\ Len(<<>>) = 0
      OBVIOUS
    <3> QED
      BY <1>4, <3>1, <3>2
  <2>2. TypeOK'
    <3>1. pc' \in [Threads -> LoggerPC \cup WriterPC]
      BY <1>1, <1>2 DEF WriterPC
    <3> QED
      BY <1>1, <1>4, <3>1 DEF Inv, TypeOK
  <2>3. Batches' /\ Writing'
    BY <1>1, <1>2, <1>4, <2>1 DEF Inv, Batches, Writing
  <2>4. Counted'
    BY <1>1, CountedFrame
  <2>5. Dated' /\ FilesAreFull'
    BY <1>1, <1>4, FilesFrame
  <2> QED
    BY <2>2, <2>3, <2>4, <2>5 DEF Inv
<1>5. CASE files' # files
  <2>1. PICK file : /\ file \in FileType /\ file.m_date = today /\ files' = Append(files, file)
                    /\ \/ /\ file.m_no = 0
                          /\ files # <<>> => files[Len(files)].m_date # today
                       \/ /\ files # <<>> /\ files[Len(files)].m_date = today
                          /\ file.m_no = files[Len(files)].m_no + 1
                          /\ Len(files[Len(files)].lines) > MaxFileSize
    <3>1. CASE files = <<>>
      <4>1. files' = Append(files, File(0))
        BY <1>1, <3>1 DEF NextFile
      <4> QED
        BY <1>3, <3>1, <4>1
    <3>2. CASE files # <<>> /\ files[Len(files)].m_date # today
      <4>1. files' = Append(files, File(0))
        BY <1>1, <3>2 DEF NextFile
      <4> QED
        BY <1>3, <3>2, <4>1
    <3>3. CASE files # <<>> /\ files[Len(files)].m_date = today
      <4>1. /\ files' = Append(files, File(files[Len(files)].m_no + 1))
            /\ Len(files[Len(files)].lines) > MaxFileSize
        BY <1>1, <1>5, <3>3 DEF NextFile
      <4>2. files[Len(files)].m_no + 1 \in Nat
        BY <3>3, FileFacts DEF Inv
      <4> QED
        BY <1>3, <3>3, <4>1, <4>2
    <3> QED
      BY <3>1, <3>2, <3>3
  <2>2. /\ files' \in Seq(FileType) /\ files' # <<>> /\ Len(files') = Len(files) + 1
        /\ files'[Len(files) + 1] = file
        /\ \A i \in 1 .. Len(files) : files'[i] = files[i]
    BY <1>2, <2>1
  <2>3. TypeOK'
    <3>1. pc' \in [Threads -> LoggerPC \cup WriterPC]
      BY <1>1, <1>2 DEF WriterPC
    <3> QED
      BY <1>1, <2>2, <3>1 DEF Inv, TypeOK, FileType
  <2>4. Batches' /\ Writing'
    BY <1>1, <1>2, <2>2 DEF Inv, Batches, Writing
  <2>5. Counted'
    BY <1>1, CountedFrame
  <2>6. DOMAIN files = 1 .. Len(files) /\ DOMAIN files' = 1 .. Len(files) + 1
        /\ Len(files) \in Nat
    BY <1>2, <2>2
  <2>7. Dated'
    <3> SUFFICES ASSUME NEW i \in DOMAIN files' PROVE files'[i].m_date <= today
      BY <1>1 DEF Dated
    <3>1. CASE i = Len(files) + 1
      BY <1>2, <2>1, <2>2, <3>1
    <3>2. CASE i \in DOMAIN files
      BY <2>2, <2>6, <3>2 DEF Inv, Dated
    <3> QED
      BY <2>6, <3>1, <3>2
  <2>8. FilesAreFull'
    <3> SUFFICES ASSUME NEW i \in DOMAIN files'
                 PROVE  \/ /\ files'[i].m_no = 0
                           /\ i > 1 => files'[i - 1].m_date < files'[i].m_date
                        \/ /\ i > 1 /\ files'[i].m_date = files'[i - 1].m_date
                           /\ files'[i].m_no = files'[i - 1].m_no + 1
                           /\ Len(files'[i - 1].lines) > MaxFileSize
      BY DEF FilesAreFull
    <3>1. CASE i \in DOMAIN files
      <4>1. i > 1 => i - 1 \in 1 .. Len(files)
        BY <2>6, <3>1
      <4> QED
        BY <2>2, <2>6, <3>1, <4>1 DEF Inv, FilesAreFull
    <3>2. CASE i = Len(files) + 1
      <4>1. i > 1 => files # <<>> /\ files'[i - 1] = files[Len(files)]
        BY <1>2, <2>2, <2>6, <3>2
      <4>2. files # <<>> => /\ i > 1 /\ files[Len(files)].m_date \in Nat
                            /\ files[Len(files)].m_date <= today
        BY <2>6, <3>2, FileFacts DEF Inv, Dated
      <4> QED
        BY <1>2, <2>1, <2>2, <3>2, <4>1, <4>2
    <3> QED
      BY <2>6, <3>1, <3>2
  <2> QED
    BY <2>3, <2>4, <2>5, <2>7, <2>8 DEF Inv
<1> QED
  BY <1>4, <1>5

\* A line goes to the last file: the ones before it are left as they are.
LEMMA WriteInv ==
  ASSUME Inv, Write
  PROVE  Inv'
<1> DEFINE n == Len(files)
<1>1. /\ UNCHANGED <<pushed, logger_mutex, staged, tmp_vec, async_mutex, m_buffer, m_stop_flag,
                     today, handler, app_locked, app_writer>>
      /\ Writer \in Threads /\ pc[Writer] = "write"
      /\ files' = [files EXCEPT ![n].lines = Append(@, Head(tmp))] /\ tmp' = Tail(tmp)
  BY DEF Write, stageVars, queueVars, envVars, appVars
<1>2. PICK label \in {"check", "write"} : /\ pc' = [pc EXCEPT ![Writer] = label]
                                          /\ label = "write" => Tail(tmp) # <<>>
  BY DEF Write, Goto
<1>3. /\ pc \in [Threads -> LoggerPC \cup WriterPC] /\ files \in Seq(FileType) /\ today \in Nat
      /\ tmp \in Seq(Lines) /\ tmp # <<>> /\ files # <<>>
  BY <1>1, FileFacts DEF Inv, TypeOK, Writing
<1>4. Head(tmp) \in Lines /\ Tail(tmp) \in Seq(Lines)
  BY <1>3, HeadTailProperties
<1>5. n \in Nat /\ n > 0 /\ DOMAIN files = 1 .. n /\ files[n] \in FileType
  BY <1>3, FileFacts DEF Inv
<1>6. /\ DOMAIN files' = 1 .. n
      /\ files'[n] = [files[n] EXCEPT !.lines = Append(files[n].lines, Head(tmp))]
      /\ \A i \in 1 .. n : i # n => files'[i] = files[i]
  <2> HIDE DEF n
  <2> QED
    BY <1>1, <1>5
<1>7. files'[n] \in FileType /\ files'[n].m_no = files[n].m_no
        /\ files'[n].m_date = files[n].m_date
  <2> HIDE DEF n
  <2>1. Append(files[n].lines, Head(tmp)) \in Seq(Lines)
    BY <1>4, <1>5 DEF FileType
  <2> QED
    BY <1>5, <1>6, <2>1 DEF FileType
<1>8. files' \in Seq(FileType) /\ files' # <<>> /\ Len(files') = n
  <2>1. \A i \in 1 .. n : files'[i] \in FileType
    <3>1. \A i \in 1 .. n : files[i] \in FileType
      BY <1>5, FileFacts DEF Inv
    <3> QED
      BY <1>6, <1>7, <3>1
  <2>2. files' = [i \in 1 .. n |-> files'[i]]
    BY <1>1, <1>5, <1>6
  <2> HIDE DEF n
  <2>3. [i \in 1 .. n |-> files'[i]] \in Seq(FileType)
    BY <1>5, <2>1
  <2>4. files' \in Seq(FileType)
    BY <2>2, <2>3
  <2> QED
    BY <1>5, <1>6, <2>4
<1> HIDE DEF n
<1>9. TypeOK'
  <2>1. pc' \in [Threads -> LoggerPC \cup WriterPC]
    BY <1>2, <1>3 DEF WriterPC
  <2> QED
    BY <1>1, <1>4, <1>8, <2>1 DEF Inv, TypeOK, FileType
<1>10. Batches'
  BY <1>1, <1>2, <1>3 DEF Inv, Batches
<1>11. Writing'
  BY <1>1, <1>2, <1>3, <1>8 DEF Writing
<1>12. Counted'
  BY <1>1, <1>2, CountedFrame
<1>13. Dated'
  BY <1>1, <1>5, <1>6, <1>7 DEF Inv, Dated
<1>14. FilesAreFull'
  <2> SUFFICES ASSUME NEW i \in 1 .. n
               PROVE  \/ /\ files'[i].m_no = 0
                         /\ i > 1 => files'[i - 1].m_date < files'[i].m_date
                      \/ /\ i > 1 /\ files'[i].m_date = files'[i - 1].m_date
                         /\ files'[i].m_no = files'[i - 1].m_no + 1
                         /\ Len(files'[i - 1].lines) > MaxFileSize
    BY <1>6 DEF FilesAreFull
  <2>1. i > 1 => i - 1 \in 1 .. n /\ files'[i - 1] = files[i - 1]
    BY <1>5, <1>6
  <2>2. files'[i].m_no = files[i].m_no /\ files'[i].m_date = files[i].m_date
    BY <1>6, <1>7
  <2> QED
    BY <1>5, <2>1, <2>2 DEF Inv, FilesAreFull
<1> QED
  BY <1>9, <1>10, <1>11, <1>12, <1>13, <1>14 DEF Inv

-----------------------------------------------------------------------------
(* The signal and the date.                                                 *)

\* The interrupted thread has one more line to log.
LEMMA SignalInv ==
  ASSUME Inv, NEW t \in Threads, Signal(t)
  PROVE  Inv'
<1>1. /\ UNCHANGED <<pushed, logger_mutex, staged, tmp_vec, async_mutex, m_buffer, tmp, files,
                     m_stop_flag, today, app_writer>>
      /\ pc' = [pc EXCEPT ![t] = "pushLock"]
      /\ handler = NoThread /\ handler' = t /\ app_locked' \in BOOLEAN
  BY DEF Signal, Goto, stageVars, queueVars, fileVars
<1>2. pc \in [Threads -> LoggerPC \cup WriterPC] /\ pushed \in Nat
  BY LoggersAssumption DEF Inv, TypeOK
<1>3. TypeOK'
  <2>1. pc' \in [Threads -> LoggerPC \cup WriterPC]
    BY <1>1, <1>2 DEF LoggerPC
  <2> QED
    BY <1>1, <2>1 DEF Inv, TypeOK
<1>4. Batches' /\ Writing'
  BY <1>1, <1>2 DEF Inv, Batches, Writing
<1>5. Counted'
  <2>1. Pushing' = Pushing \cup {t}
    BY <1>1, <1>2, PushingMoves
  <2>2. Cardinality(Pushing') <= Cardinality(Pushing) + 1 /\ Cardinality(Pushing') \in Nat
    <3>1. /\ Cardinality(Pushing) \in Nat
          /\ Cardinality(Pushing \cup {t}) =
               IF t \in Pushing THEN Cardinality(Pushing) ELSE Cardinality(Pushing) + 1
      BY PushingFinite, FS_AddElement
    <3> QED
      BY <2>1, <3>1
  <2>3. Places' = Places + 1 /\ Places \in Nat
    BY <1>1, LoggersAssumption DEF Places
  <2>4. Cardinality(Pushing)' = Cardinality(Pushing')
    OBVIOUS
  <2>5. pushed + Cardinality(Pushing) <= Places
    BY DEF Inv, Counted
  <2> QED
    BY <1>1, <1>2, <2>2, <2>3, <2>4, <2>5, PushingFinite DEF Counted
<1>6. Dated' /\ FilesAreFull'
  BY <1>1, FilesFrame
<1> QED
  BY <1>3, <1>4, <1>5, <1>6 DEF Inv

\* AsyncLogger::stop and pthread_join.
LEMMA StopInv ==
  ASSUME Inv, NEW t \in Threads, Stop(t) \/ Join(t) \/ JoinApp(t)
  PROVE  Inv'
<1> USE DEF Stop, Join, JoinApp
<1>1. /\ UNCHANGED <<pushed, logger_mutex, staged, tmp_vec, async_mutex, m_buffer, tmp, files,
                     today, handler, app_locked, app_writer>>
      /\ m_stop_flag' \in {m_stop_flag, TRUE}
  BY DEF stageVars, queueVars, fileVars, envVars, appVars
<1>2. PICK label \in {"join", "joinApp", "raised"} : pc' = [pc EXCEPT ![t] = label]
  BY DEF Goto
<1>3. pc \in [Threads -> LoggerPC \cup WriterPC]
  BY DEF Inv, TypeOK
<1>4. TypeOK'
  <2>1. pc' \in [Threads -> LoggerPC \cup WriterPC]
    BY <1>2, <1>3 DEF LoggerPC
  <2>2. m_stop_flag' \in BOOLEAN
    BY <1>1 DEF Inv, TypeOK
  <2> QED
    BY <1>1, <2>1, <2>2 DEF Inv, TypeOK
<1>5. Batches' /\ Writing'
  BY <1>1, <1>2, <1>3 DEF Inv, Batches, Writing
<1>6. Counted'
  BY <1>1, <1>2, CountedFrame
<1>7. Dated' /\ FilesAreFull'
  BY <1>1, FilesFrame
<1> QED
  BY <1>4, <1>5, <1>6, <1>7 DEF Inv

\* A day ends, or nothing happens.
LEMMA DayInv ==
  ASSUME Inv, Midnight \/ AppWrite \/ UNCHANGED vars
  PROVE  Inv'
<1>1. /\ UNCHANGED <<pc, pushed, logger_mutex, staged, tmp_vec, async_mutex, m_buffer, tmp, files,
                     m_stop_flag, handler, app_locked>>
      /\ today' \in {today, today + 1} /\ app_writer' \in {app_writer, "asleep", "done"}
  BY DEF Midnight, AppWrite, vars, stageVars, queueVars, fileVars, envVars, appVars
<1>2. today' \in Nat
  BY <1>1 DEF Inv, TypeOK
<1>3. TypeOK'
  BY <1>1, <1>2 DEF Inv, TypeOK
<1>4. Batches' /\ Writing'
  BY <1>1 DEF Inv, Batches, Writing
<1>5. Counted'
  <2>1. Pushing' = Pushing /\ Places' = Places
    BY <1>1 DEF Pushing, Places
  <2> QED
    BY <1>1, <2>1 DEF Inv, Counted
<1>6. Dated' /\ FilesAreFull'
  BY <1>1, FilesFrame
<1> QED
  BY <1>3, <1>4, <1>5, <1>6 DEF Inv

\* SyncBegin: the timer of the main thread.
LEMMA SyncBeginInv ==
  ASSUME Inv, SyncBegin
  PROVE  Inv'
<1>1. /\ UNCHANGED <<pushed, logger_mutex, staged, tmp_vec, async_mutex, m_buffer, tmp, files,
                     m_stop_flag, today, handler, app_locked, app_writer>>
      /\ pc' = [pc EXCEPT ![Main] = "syncLock"] /\ Main \in Threads
  BY LoggersAssumption DEF SyncBegin, Goto, stageVars, queueVars, fileVars, envVars, appVars
<1>2. pc \in [Threads -> LoggerPC \cup WriterPC]
  BY DEF Inv, TypeOK
<1>3. TypeOK'
  <2>1. pc' \in [Threads -> LoggerPC \cup WriterPC]
    BY <1>1, <1>2 DEF LoggerPC
  <2> QED
    BY <1>1, <2>1 DEF Inv, TypeOK
<1>4. Batches' /\ Writing'
  BY <1>1, <1>2 DEF Inv, Batches, Writing
<1>5. Counted'
  BY <1>1, CountedFrame
<1>6. Dated' /\ FilesAreFull'
  BY <1>1, FilesFrame
<1> QED
  BY <1>3, <1>4, <1>5, <1>6 DEF Inv

-----------------------------------------------------------------------------
(* The theorems.                                                            *)

\* The initial state has the invariant.
LEMMA InitInv == Init => Inv
<1> SUFFICES ASSUME Init PROVE Inv
  OBVIOUS
<1> USE LoggersAssumption
<1>1. pc \in [Threads -> LoggerPC \cup WriterPC]
  BY DEF Init, LoggerPC, WriterPC
<1>2. /\ staged \in Seq(Lines) /\ tmp_vec \in [Threads -> Seq(Lines)]
      /\ m_buffer \in Seq(Seq(Lines) \ {<<>>}) /\ tmp \in Seq(Lines)
      /\ files \in Seq([m_date : Nat, m_no : Nat, lines : Seq(Lines)])
  BY DEF Init
<1>3. TypeOK
  <2>1. pushed \in 0 .. MaxLines + 1 /\ today \in Nat
    BY DEF Init
  <2>2. /\ logger_mutex \in Threads \cup {NoThread} /\ async_mutex \in Threads \cup {NoThread}
        /\ handler \in Threads \cup {NoThread}
    BY DEF Init
  <2>3. /\ m_stop_flag \in BOOLEAN
        /\ app_locked \in BOOLEAN /\ app_writer \in {"asleep", "busy", "done"}
    BY DEF Init
  <2> QED
    BY <1>1, <1>2, <2>1, <2>2, <2>3 DEF TypeOK
<1>4. Batches /\ Writing
  BY DEF Init, Batches, Writing
<1>5. Counted
  <2>1. Pushing = {}
    BY DEF Init, Pushing
  <2>2. Cardinality(Pushing) = 0
    BY <2>1, FS_EmptySet
  <2> QED
    BY <2>2 DEF Init, Counted, Places
<1>6. Dated /\ FilesAreFull
  BY DEF Init, Dated, FilesAreFull
<1> QED
  BY <1>3, <1>4, <1>5, <1>6 DEF Inv

\* Every step keeps it.
LEMMA NextInv == Inv /\ [Next]_vars => Inv'
<1> SUFFICES ASSUME Inv, [Next]_vars PROVE Inv'
  OBVIOUS
<1>1. ASSUME NEW t \in Threads, PushBegin(t) \/ ThreadStep(t) \/ Signal(t)
      PROVE  Inv'
  BY <1>1, PushBeginInv, MutexInv, PushInv, SwapInv, EnqueueInv, StopInv, SignalInv
  DEF ThreadStep, Lock
<1>2. ASSUME WriterStep
      PROVE  Inv'
  BY <1>2, WriterIdleInv, TakeInv, OpenFileInv, WriteInv DEF WriterStep
<1> QED
  BY <1>1, <1>2, SyncBeginInv, DayInv DEF Next

\* The invariant holds in every reachable state.
LEMMA Invariance == Spec => []Inv
BY InitInv, NextInv, PTL DEF Spec

\* Everything has its type: in particular no empty batch is handed over, and the
\* handler logs a single line.
THEOREM TypeCorrect == Spec => []TypeOK
<1>1. Inv => TypeOK
  BY DEF Inv
<1> QED
  BY <1>1, Invariance, PTL

\* A file is left only when it is full or of another day, and its number says which
\* of its day it is: no name is used twice.
THEOREM NamesFollow == Spec => []FilesAreFull
<1>1. Inv => FilesAreFull
  BY DEF Inv
<1> QED
  BY <1>1, Invariance, PTL

-----------------------------------------------------------------------------
(* The queue.                                                               *)

\* Until a signal only the main thread is in syncLoop, which has an empty vector
\* when it takes the lines; the writer has finished its batch when it takes the
\* next one.  This holds too while the main thread handles a signal, but for the
\* vector: the handler may have interrupted syncLoop with lines in it.
Syncing == {"syncLock", "swap", "queueLock", "enqueue"}

MainSyncs == \A t \in Threads : pc[t] \in Syncing => t = Main

WriterHolds == tmp # <<>> => pc[Writer] \in {"open", "write"}

MainHolds == tmp_vec[Main] # <<>> => pc[Main] \in {"queueLock", "enqueue"}

InLine ==
  /\ handler \in {NoThread, Main} => MainSyncs /\ WriterHolds
  /\ handler = NoThread => MainHolds
  /\ handler = Writer => pc[Writer] \in LoggerPC

\* Nobody is in line in the beginning.
LEMMA InitInLine == Init => InLine
<1> SUFFICES ASSUME Init PROVE InLine
  OBVIOUS
<1>1. Main \in Threads /\ Writer \in Threads /\ handler = NoThread
  BY LoggersAssumption DEF Init
<1>2. MainSyncs
  BY DEF Init, MainSyncs, Syncing
<1>3. WriterHolds /\ MainHolds
  BY <1>1 DEF Init, WriterHolds, MainHolds
<1>4. NoThread # Writer
  BY LoggersAssumption
<1> QED
  BY <1>1, <1>2, <1>3, <1>4 DEF InLine

\* A thread that goes on without lines.
LEMMA InLineMoves ==
  ASSUME Inv, InLine, NEW t \in Threads, NEW label,
         pc' = [pc EXCEPT ![t] = label], UNCHANGED <<tmp_vec, tmp, handler>>,
         label \in Syncing => t = Main \/ pc[t] \in Syncing \/ t = handler,
         pc[t] \in {"queueLock", "enqueue"} => label \in {"queueLock", "enqueue"},
         pc[t] \notin {"open", "write"},
         t = Writer /\ pc[t] \in LoggerPC => label \in LoggerPC
  PROVE  InLine'
<1>1. /\ pc \in [Threads -> LoggerPC \cup WriterPC] /\ NoThread \notin Threads
      /\ Main \in Threads /\ Writer \in Threads /\ Main # Writer
  BY LoggersAssumption DEF Inv, TypeOK
<1>2. handler \in {NoThread, Main} => MainSyncs'
  BY <1>1 DEF InLine, MainSyncs
<1>3. handler \in {NoThread, Main} => WriterHolds'
  BY <1>1 DEF InLine, WriterHolds
<1>4. handler = NoThread => MainHolds'
  BY <1>1 DEF InLine, MainHolds
<1>5. handler = Writer => pc'[Writer] \in LoggerPC
  BY <1>1 DEF InLine
<1> QED
  BY <1>2, <1>3, <1>4, <1>5 DEF InLine

\* Every step keeps the line.
LEMMA NextInLine ==
  ASSUME Inv, InLine, [Next]_vars
  PROVE  InLine'
<1> USE LoggersAssumption
<1>0. /\ pc \in [Threads -> LoggerPC \cup WriterPC] /\ NoThread \notin Threads
      /\ Main \in Threads /\ Writer \in Threads /\ Main # Writer
      /\ LoggerPC \cap WriterPC = {}
  BY DEF Inv, TypeOK, LoggerPC, WriterPC
<1>1. ASSUME NEW t \in Threads, PushBegin(t) \/ PushLock(t) \/ SyncLock(t) \/ QueueLock(t)
      PROVE  InLine'
  <2>1. UNCHANGED <<tmp_vec, tmp, handler>>
    BY <1>1 DEF PushBegin, PushLock, SyncLock, QueueLock, stageVars, fileVars, envVars, appVars
  <2>2. PICK label \in {"pushLock", "push", "swap", "enqueue"} :
          /\ pc' = [pc EXCEPT ![t] = label]
          /\ label = "swap" => pc[t] = "syncLock"
          /\ label = "enqueue" => pc[t] = "queueLock"
          /\ pc[t] \notin {"open", "write", "enqueue"}
          /\ label # "enqueue" => pc[t] # "queueLock"
    BY <1>1 DEF PushBegin, PushLock, SyncLock, QueueLock, Goto
  <2>3. label \in LoggerPC
    BY <2>2 DEF LoggerPC
  <2> QED
    BY <2>1, <2>2, <2>3, InLineMoves DEF Syncing
<1>2. ASSUME NEW t \in Threads,
             PushReturn(t) \/ QueueReturn(t) \/ SyncReturn(t) \/ Stop(t) \/ Join(t)
             \/ JoinApp(t) \/ Push(t)
      PROVE  InLine'
  <2>1. UNCHANGED <<tmp_vec, tmp, handler>>
    BY <1>2 DEF PushReturn, QueueReturn, SyncReturn, Stop, Join, JoinApp, Push, stageVars,
                fileVars, envVars, appVars
  <2>2. PICK label \in {"pushReturn", "syncLock", "idle", "syncReturn", "stop", "join",
                       "joinApp", "raised"} :
          /\ pc' = [pc EXCEPT ![t] = label]
          /\ label = "syncLock" => t = handler
          /\ pc[t] \in {"pushReturn", "queueReturn", "syncReturn", "stop", "join",
                         "joinApp", "push"}
    BY <1>2 DEF PushReturn, QueueReturn, SyncReturn, Stop, Join, JoinApp, Push, Goto
  <2>3. label \in LoggerPC
    BY <2>2 DEF LoggerPC
  <2> QED
    BY <2>1, <2>2, <2>3, InLineMoves DEF Syncing
<1>3. ASSUME NEW t \in Threads, Swap(t)
      PROVE  InLine'
  <2>1. /\ UNCHANGED <<tmp, handler>> /\ pc[t] = "swap"
        /\ tmp_vec' = [tmp_vec EXCEPT ![t] = staged]
    BY <1>3 DEF Swap, fileVars, envVars, appVars
  <2>2. PICK label \in {"queueLock", "syncReturn"} :
          pc' = [pc EXCEPT ![t] = label] /\ (label = "syncReturn" => staged = <<>>)
    BY <1>3 DEF Swap, Goto
  <2>3. handler \in {NoThread, Main} => MainSyncs'
    BY <1>0, <2>1, <2>2 DEF InLine, MainSyncs, Syncing
  <2>4. handler \in {NoThread, Main} => WriterHolds'
    BY <1>0, <2>1, <2>2 DEF InLine, WriterHolds
  <2>5. handler = NoThread => MainHolds'
    <3>1. handler = NoThread => t = Main
      BY <2>1 DEF InLine, MainSyncs, Syncing
    <3>2. tmp_vec \in [Threads -> Seq(Lines)]
      BY DEF Inv, TypeOK
    <3> QED
      BY <1>0, <2>1, <2>2, <3>1, <3>2 DEF MainHolds
  <2>6. handler = Writer => pc'[Writer] \in LoggerPC
    BY <1>0, <2>2 DEF InLine, LoggerPC
  <2> QED
    BY <2>1, <2>3, <2>4, <2>5, <2>6 DEF InLine
<1>4. ASSUME NEW t \in Threads, Enqueue(t)
      PROVE  InLine'
  <2>1. /\ UNCHANGED <<tmp, handler>> /\ pc[t] = "enqueue"
        /\ tmp_vec' = [tmp_vec EXCEPT ![t] = <<>>]
        /\ pc' = [u \in Threads |-> IF u = t THEN "queueReturn"
                                    ELSE IF pc[u] = "waiting" THEN "lock" ELSE pc[u]]
    BY <1>4 DEF Enqueue, fileVars, envVars, appVars
  <2>2. handler \in {NoThread, Main} => MainSyncs'
    BY <1>0, <2>1 DEF InLine, MainSyncs, Syncing
  <2>3. handler \in {NoThread, Main} => WriterHolds'
    BY <1>0, <2>1 DEF InLine, WriterHolds
  <2>4. handler = NoThread => MainHolds'
    <3>1. handler = NoThread => t = Main
      BY <2>1 DEF InLine, MainSyncs, Syncing
    <3>2. tmp_vec \in [Threads -> Seq(Lines)]
      BY DEF Inv, TypeOK
    <3> QED
      BY <1>0, <2>1, <3>1, <3>2 DEF MainHolds
  <2>5. handler = Writer => pc'[Writer] \in LoggerPC
    BY <1>0, <2>1 DEF InLine, LoggerPC
  <2> QED
    BY <2>1, <2>2, <2>3, <2>4, <2>5 DEF InLine
<1>5. ASSUME NEW t \in Threads, Signal(t)
      PROVE  InLine'
  <2>1. /\ UNCHANGED <<tmp_vec, tmp>> /\ pc' = [pc EXCEPT ![t] = "pushLock"]
        /\ handler = NoThread /\ handler' = t
    BY <1>5 DEF Signal, Goto, fileVars
  <2>2. MainSyncs'
    BY <1>0, <2>1 DEF InLine, MainSyncs, Syncing
  <2>3. t # Writer => WriterHolds'
    BY <1>0, <2>1 DEF InLine, WriterHolds
  <2>4. t = Writer => pc'[Writer] \in LoggerPC
    BY <1>0, <2>1 DEF LoggerPC
  <2> QED
    BY <1>0, <2>1, <2>2, <2>3, <2>4 DEF InLine
<1>6. ASSUME SyncBegin
      PROVE  InLine'
  <2>1. /\ UNCHANGED <<tmp_vec, tmp, handler>> /\ pc[Main] = "idle"
        /\ pc' = [pc EXCEPT ![Main] = "syncLock"]
    BY <1>6 DEF SyncBegin, Goto, fileVars, envVars, appVars
  <2>2. pc[Main] \notin {"open", "write", "queueLock", "enqueue"}
    BY <2>1
  <2> QED
    BY <1>0, <2>1, <2>2, InLineMoves
<1>7. ASSUME WriterStep
      PROVE  InLine'
  <2>1. /\ UNCHANGED <<tmp_vec, handler>> /\ pc[Writer] \in WriterPC
        /\ tmp' # <<>> => \/ tmp' = tmp /\ pc[Writer] # "write"
                         \/ pc'[Writer] \in {"open", "write"}
    BY <1>0, <1>7
    DEF WriterStep, WriterLock, Wait, Take, OpenFile, Write, Check, Goto, fileVars, envVars,
        appVars, WriterPC
  <2>2. PICK label \in WriterPC :
          pc' = [pc EXCEPT ![Writer] = label] /\ (pc[Writer] = "open" => label = "write")
    BY <1>7
    DEF WriterStep, WriterLock, Wait, Take, OpenFile, Write, Check, Goto, WriterPC
  <2>3. label \notin Syncing
    BY <2>2 DEF WriterPC, Syncing
  <2>4. handler \in {NoThread, Main} => MainSyncs'
    BY <1>0, <2>1, <2>2, <2>3 DEF InLine, MainSyncs
  <2>5. handler \in {NoThread, Main} => WriterHolds'
    BY <1>0, <2>1, <2>2 DEF InLine, WriterHolds
  <2>6. handler = NoThread => MainHolds'
    BY <1>0, <2>1, <2>2 DEF InLine, MainHolds
  <2>7. handler # Writer
    BY <1>0, <2>1 DEF InLine
  <2> QED
    BY <2>1, <2>4, <2>5, <2>6, <2>7 DEF InLine
<1>8. ASSUME Midnight \/ AppWrite \/ UNCHANGED vars
      PROVE  InLine'
  <2>1. UNCHANGED <<pc, tmp_vec, tmp, handler>>
    BY <1>8 DEF Midnight, AppWrite, vars, fileVars, envVars, appVars
  <2> QED
    BY <2>1 DEF InLine, MainSyncs, WriterHolds, MainHolds
<1> QED
  BY <1>1, <1>2, <1>3, <1>4, <1>5, <1>6, <1>7, <1>8 DEF Next, ThreadStep, Lock

-----------------------------------------------------------------------------
(* What the steps do to the lines that are not written yet.                 *)

\* The parts of the queue.
LEMMA QueueParts ==
  ASSUME TypeOK
  PROVE  /\ tmp \in Seq(Lines) /\ staged \in Seq(Lines) /\ tmp_vec \in [Threads -> Seq(Lines)]
         /\ Main \in Threads /\ tmp_vec[Main] \in Seq(Lines)
         /\ m_buffer \in Seq(Seq(Lines)) /\ FlattenSeq(m_buffer) \in Seq(Lines)
         /\ tmp \o FlattenSeq(m_buffer) \in Seq(Lines)
         /\ tmp \o FlattenSeq(m_buffer) \o tmp_vec[Main] \in Seq(Lines)
         /\ Unwritten \in Seq(Lines)
<1>1. /\ tmp \in Seq(Lines) /\ staged \in Seq(Lines) /\ tmp_vec \in [Threads -> Seq(Lines)]
      /\ Main \in Threads /\ m_buffer \in Seq(Seq(Lines) \ {<<>>})
  BY LoggersAssumption DEF TypeOK
<1>2. m_buffer \in Seq(Seq(Lines))
  <2>1. Seq(Lines) \ {<<>>} \subseteq Seq(Lines)
    OBVIOUS
  <2> QED
    BY <1>1, <2>1, SeqMonotonic
<1>3. FlattenSeq(m_buffer) \in Seq(Lines)
  BY <1>2, FlattenType
<1>4. tmp_vec[Main] \in Seq(Lines)
  BY <1>1
<1>5. tmp \o FlattenSeq(m_buffer) \in Seq(Lines)
  BY <1>1, <1>3, ConcatProperties
<1>6. tmp \o FlattenSeq(m_buffer) \o tmp_vec[Main] \in Seq(Lines)
  BY <1>4, <1>5, ConcatProperties
<1>7. Unwritten \in Seq(Lines)
  BY <1>1, <1>6, ConcatProperties DEF Unwritten
<1> QED
  BY <1>1, <1>2, <1>3, <1>4, <1>5, <1>6, <1>7

\* A line is added at the end.
LEMMA PushQueue ==
  ASSUME Inv, NEW t \in Threads, Push(t)
  PROVE  Unwritten' = Append(Unwritten, pushed + 1) /\ pushed + 1 \in Lines
<1>1. /\ UNCHANGED <<tmp, m_buffer, tmp_vec>> /\ staged' = Append(staged, pushed + 1)
      /\ pushed' = pushed + 1
  BY DEF Push, queueVars, fileVars
<1>2. pushed + 1 \in Lines
  <2>1. pushed' \in 0 .. MaxLines + 1
    BY PushInv DEF Inv, TypeOK
  <2>2. pushed \in Nat
    BY LoggersAssumption DEF Inv, TypeOK
  <2> QED
    BY <1>1, <2>1, <2>2, LoggersAssumption DEF Lines
<1> DEFINE front == tmp \o FlattenSeq(m_buffer) \o tmp_vec[Main]
<1>3. front \in Seq(Lines) /\ staged \in Seq(Lines)
  BY QueueParts DEF Inv
<1>4. Unwritten = front \o staged /\ Unwritten' = front \o Append(staged, pushed + 1)
  BY <1>1 DEF Unwritten
<1> HIDE DEF front
<1>5. front \o Append(staged, pushed + 1) = Append(front \o staged, pushed + 1)
  BY <1>2, <1>3, ConcatAppend
<1> QED
  BY <1>2, <1>4, <1>5

\* syncLoop takes the lines: they are in its vector then, which was empty.
LEMMA SwapQueue ==
  ASSUME Inv, Swap(Main)
  PROVE  /\ Unwritten' = tmp \o FlattenSeq(m_buffer) \o staged
         /\ tmp_vec[Main] = <<>> => Unwritten' = Unwritten
<1>1. /\ UNCHANGED <<tmp, m_buffer>> /\ staged' = <<>>
      /\ tmp_vec' = [tmp_vec EXCEPT ![Main] = staged]
  BY DEF Swap, queueVars, fileVars
<1> DEFINE front == tmp \o FlattenSeq(m_buffer)
<1>2. /\ front \in Seq(Lines) /\ staged \in Seq(Lines)
      /\ Main \in Threads /\ tmp_vec \in [Threads -> Seq(Lines)]
  BY QueueParts DEF Inv
<1>3. tmp_vec'[Main] = staged
  BY <1>1, <1>2
<1>4. Unwritten = front \o tmp_vec[Main] \o staged /\ Unwritten' = front \o staged \o <<>>
  BY <1>1, <1>3 DEF Unwritten
<1> HIDE DEF front
<1>5. front \o staged \in Seq(Lines)
  BY <1>2, ConcatProperties
<1>6. (front \o staged) \o <<>> = front \o staged /\ front \o <<>> = front
  BY <1>2, <1>5, ConcatEmptySeq
<1>7. Unwritten' = front \o staged
  BY <1>4, <1>6
<1>8. tmp_vec[Main] = <<>> => Unwritten' = Unwritten
  BY <1>4, <1>6
<1> QED
  BY <1>7, <1>8 DEF front

\* pushLogBuffer puts the vector's lines behind the batches.
LEMMA EnqueueQueue ==
  ASSUME Inv, Enqueue(Main)
  PROVE  Unwritten' = Unwritten
<1>1. /\ UNCHANGED <<tmp, staged>> /\ m_buffer' = Append(m_buffer, tmp_vec[Main])
      /\ tmp_vec' = [tmp_vec EXCEPT ![Main] = <<>>]
  BY DEF Enqueue, stageVars, fileVars
<1> DEFINE batches == FlattenSeq(m_buffer)
           lines == tmp_vec[Main]
<1>2. /\ tmp \in Seq(Lines) /\ batches \in Seq(Lines) /\ lines \in Seq(Lines)
      /\ m_buffer \in Seq(Seq(Lines))
      /\ Main \in Threads /\ tmp_vec \in [Threads -> Seq(Lines)]
  BY QueueParts DEF Inv
<1>3. tmp_vec'[Main] = <<>>
  BY <1>1, <1>2
<1>4. FlattenSeq(m_buffer') = batches \o lines
  BY <1>1, <1>2, FlattenAppend
<1>5. /\ Unwritten = tmp \o batches \o lines \o staged
      /\ Unwritten' = tmp \o (batches \o lines) \o <<>> \o staged
  BY <1>1, <1>3, <1>4 DEF Unwritten
<1> HIDE DEF batches, lines
<1>6. batches \o lines \in Seq(Lines)
  BY <1>2, ConcatProperties
<1>7. tmp \o (batches \o lines) \in Seq(Lines)
  BY <1>2, <1>6, ConcatProperties
<1>8. (tmp \o (batches \o lines)) \o <<>> = tmp \o (batches \o lines)
  BY <1>7, ConcatEmptySeq
<1>9. tmp \o (batches \o lines) = (tmp \o batches) \o lines
  <2>1. ASSUME NEW S, NEW u \in Seq(S), NEW v \in Seq(S), NEW w \in Seq(S)
        PROVE  u \o (v \o w) = (u \o v) \o w
    BY ConcatAssociative, SMTT(40)
  <2> QED
    BY <1>2, <2>1
<1> QED
  BY <1>5, <1>8, <1>9

\* The writer takes the first batch.
LEMMA TakeQueue ==
  ASSUME Inv, Take, tmp = <<>>
  PROVE  Unwritten' = Unwritten
<1>1. /\ UNCHANGED <<tmp_vec, staged>> /\ m_buffer # <<>>
      /\ tmp' = Head(m_buffer) /\ m_buffer' = Tail(m_buffer)
  BY DEF Take, stageVars
<1>2. m_buffer \in Seq(Seq(Lines)) /\ FlattenSeq(m_buffer) \in Seq(Lines)
  BY QueueParts DEF Inv
<1>3. FlattenSeq(m_buffer) = Head(m_buffer) \o FlattenSeq(Tail(m_buffer))
  BY <1>1, <1>2, FlattenHead
<1>4. tmp \o FlattenSeq(m_buffer) = FlattenSeq(m_buffer)
  <2>1. \A s \in Seq(Lines) : <<>> \o s = s
    BY ConcatEmptySeq
  <2> QED
    BY <1>2, <2>1
<1>5. tmp' \o FlattenSeq(m_buffer') = tmp \o FlattenSeq(m_buffer)
  BY <1>1, <1>3, <1>4
<1> QED
  BY <1>1, <1>5 DEF Unwritten

\* A line is written: it was the first one.
LEMMA WriteQueue ==
  ASSUME Inv, Write
  PROVE  Unwritten # <<>> /\ Head(Unwritten) = Head(tmp) /\ Unwritten' = Tail(Unwritten)
<1>1. UNCHANGED <<tmp_vec, staged, m_buffer>> /\ tmp' = Tail(tmp) /\ tmp # <<>>
  BY DEF Write, stageVars, queueVars, Inv, Writing
<1> DEFINE batches == FlattenSeq(m_buffer)
           lines == tmp_vec[Main]
<1>2. /\ tmp \in Seq(Lines) /\ batches \in Seq(Lines) /\ lines \in Seq(Lines)
      /\ staged \in Seq(Lines)
  BY QueueParts DEF Inv
<1>3. /\ Unwritten = tmp \o batches \o lines \o staged
      /\ Unwritten' = Tail(tmp) \o batches \o lines \o staged
  BY <1>1 DEF Unwritten
<1> HIDE DEF batches, lines
<1>4. /\ tmp \o batches # <<>> /\ Head(tmp \o batches) = Head(tmp)
      /\ Tail(tmp \o batches) = Tail(tmp) \o batches /\ tmp \o batches \in Seq(Lines)
  BY <1>1, <1>2, HeadTailConcat, ConcatProperties
<1> DEFINE two == tmp \o batches
<1>5. /\ two \o lines # <<>> /\ Head(two \o lines) = Head(two)
      /\ Tail(two \o lines) = Tail(two) \o lines /\ two \o lines \in Seq(Lines)
  <2> HIDE DEF two
  <2>1. two # <<>> /\ two \in Seq(Lines)
    BY <1>4 DEF two
  <2> QED
    BY <1>2, <2>1, HeadTailConcat, ConcatProperties
<1> DEFINE three == two \o lines
<1>6. /\ three \o staged # <<>> /\ Head(three \o staged) = Head(three)
      /\ Tail(three \o staged) = Tail(three) \o staged
  <2> HIDE DEF three
  <2>1. three # <<>> /\ three \in Seq(Lines)
    BY <1>5 DEF three
  <2> QED
    BY <1>2, <2>1, HeadTailConcat
<1> QED
  BY <1>3, <1>4, <1>5, <1>6

\* All other steps leave the queue alone.
LEMMA OtherQueue ==
  ASSUME \/ \E t \in Threads :
              \/ PushBegin(t) \/ Lock(t) \/ PushReturn(t) \/ QueueReturn(t) \/ SyncReturn(t)
              \/ Stop(t) \/ Join(t) \/ JoinApp(t) \/ Signal(t)
         \/ SyncBegin \/ WriterLock \/ Wait \/ OpenFile \/ Check \/ Midnight \/ AppWrite
         \/ UNCHANGED vars
  PROVE  UNCHANGED <<pushed, staged, tmp_vec, m_buffer, tmp>> /\ Unwritten' = Unwritten
<1>1. UNCHANGED <<pushed, staged, tmp_vec, m_buffer, tmp>>
  BY DEF PushBegin, Lock, PushLock, SyncLock, QueueLock, PushReturn, QueueReturn, SyncReturn,
         Stop, Join, JoinApp, Signal, SyncBegin, WriterLock, Wait, OpenFile, Check, Midnight,
         AppWrite, vars, stageVars, queueVars, fileVars
<1> QED
  BY <1>1 DEF Unwritten

\* The log is an executor: until a signal, every step pushes a line, writes the
\* first one, or changes nothing.
LEMMA QueueStep ==
  ASSUME Inv, InLine, [Next]_vars
  PROVE  (handler' = NoThread => Log!Next) \/ Unwritten' = Unwritten
<1> SUFFICES ASSUME handler' = NoThread PROVE Log!Next \/ Unwritten' = Unwritten
  OBVIOUS
<1>1. handler = NoThread
  BY LoggersAssumption
  DEF Next, ThreadStep, Lock, PushBegin, PushLock, SyncLock, QueueLock, Push, PushReturn, Swap,
      Enqueue, QueueReturn, SyncReturn, Stop, Join, JoinApp, Signal, SyncBegin, WriterStep,
      WriterLock, Wait, Take, OpenFile, Write, Check, Midnight, AppWrite, vars, envVars, appVars
<1>2. MainSyncs /\ WriterHolds /\ MainHolds
  BY <1>1 DEF InLine
<1>3. ASSUME NEW t \in Threads, Push(t) PROVE Log!Next
  BY <1>3, PushQueue DEF Log!Next, Log!Submit
<1>4. ASSUME NEW t \in Threads, Swap(t) PROVE Unwritten' = Unwritten
  <2>1. t = Main /\ tmp_vec[Main] = <<>>
    BY <1>2, <1>4 DEF Swap, MainSyncs, MainHolds, Syncing
  <2> QED
    BY <1>4, <2>1, SwapQueue
<1>5. ASSUME NEW t \in Threads, Enqueue(t) PROVE Unwritten' = Unwritten
  <2>1. t = Main
    BY <1>2, <1>5 DEF Enqueue, MainSyncs, Syncing
  <2> QED
    BY <1>5, <2>1, EnqueueQueue
<1>6. ASSUME Take PROVE Unwritten' = Unwritten
  <2>1. tmp = <<>>
    BY <1>2, <1>6 DEF Take, WriterHolds
  <2> QED
    BY <1>6, <2>1, TakeQueue
<1>7. ASSUME Write PROVE Log!Next
  BY <1>7, WriteQueue DEF Log!Next, Log!Execute
<1> QED
  BY <1>3, <1>4, <1>5, <1>6, <1>7, OtherQueue DEF Next, ThreadStep, WriterStep

\* From the thread that logs to the files the lines are one queue, for any number
\* of threads and lines: until a signal none is lost, written twice or overtaken.
THEOREM LogRefinesExecutor == Spec => LogIsQueue
<1>1. Init => Log!Init
  <2> SUFFICES ASSUME Init PROVE Unwritten = <<>>
    BY DEF Log!Init
  <2>1. /\ tmp = <<>> /\ m_buffer = <<>> /\ staged = <<>> /\ tmp_vec[Main] = <<>>
    BY LoggersAssumption DEF Init
  <2>2. <<>> \o <<>> = <<>>
    OBVIOUS
  <2> QED
    BY <2>1, <2>2, FlattenEmpty DEF Unwritten
<1>2. Inv /\ InLine /\ [Next]_vars => [handler' = NoThread => Log!Next]_Unwritten
  BY QueueStep
<1>3. Inv /\ InLine /\ [Next]_vars => InLine'
  BY NextInLine
<1> QED
  BY <1>1, <1>2, <1>3, InitInv, NextInv, InitInLine, PTL DEF Spec, LogIsQueue

-----------------------------------------------------------------------------
(* The lines in the files.                                                  *)

\* The lines of each file, and of all of them.
FileLines == [i \in DOMAIN files |-> files[i].lines]

InFiles == FlattenSeq(FileLines)

\* The lines are in order: those in the files, and those still to be written.  If
\* the writer handles the signal, it writes no more; if it is a third thread, its
\* lines may overtake the main thread's.
Ordered ==
  /\ handler \in {NoThread, Main} =>
       Increasing(InFiles \o Unwritten) /\ AtMost(InFiles \o Unwritten, pushed)
  /\ handler = Writer => Increasing(InFiles)

\* They are lines.
LEMMA InFilesType ==
  ASSUME TypeOK
  PROVE  /\ FileLines \in Seq(Seq(Lines)) /\ Len(FileLines) = Len(files)
         /\ InFiles \in Seq(Lines) /\ InFiles \o Unwritten \in Seq(Lines)
<1>1. /\ Len(files) \in Nat /\ DOMAIN files = 1 .. Len(files)
      /\ \A i \in DOMAIN files : files[i] \in FileType
  BY FileFacts
<1>2. \A i \in 1 .. Len(files) : files[i].lines \in Seq(Lines)
  BY <1>1 DEF FileType
<1>3. FileLines = [i \in 1 .. Len(files) |-> files[i].lines]
  BY <1>1 DEF FileLines
<1>4. FileLines \in Seq(Seq(Lines)) /\ Len(FileLines) = Len(files)
  BY <1>1, <1>2, <1>3
<1>5. InFiles \in Seq(Lines)
  BY <1>4, FlattenType DEF InFiles
<1> QED
  BY <1>4, <1>5, QueueParts, ConcatProperties

\* Lines are numbers.
LEMMA LinesAreNumbers == Seq(Lines) \subseteq Seq(Int)
<1>1. Lines \subseteq Int
  BY LoggersAssumption DEF Lines
<1> QED
  BY <1>1, SeqMonotonic

\* A new file has no lines.
LEMMA OpenFileLines ==
  ASSUME Inv, OpenFile
  PROVE  InFiles' = InFiles
<1>1. files' = NextFile
  BY DEF OpenFile
<1>2. CASE files' = files
  BY <1>2 DEF InFiles, FileLines
<1>3. CASE files' # files
  <2>1. PICK no : files' = Append(files, File(no))
    <3>1. files = <<>> => files' = Append(files, File(0))
      BY <1>1 DEF NextFile
    <3>2. files # <<>> => \/ files' = Append(files, File(0))
                          \/ files' = Append(files, File(files[Len(files)].m_no + 1))
      BY <1>1, <1>3 DEF NextFile
    <3> QED
      BY <3>1, <3>2
  <2>2. /\ files \in Seq(FileType) /\ files' \in Seq(FileType)
        /\ Len(files) \in Nat /\ DOMAIN files = 1 .. Len(files)
    <3>1. TypeOK'
      BY OpenFileInv DEF Inv
    <3> QED
      BY <3>1, FileFacts DEF Inv, TypeOK, FileType
  <2>3. File(no).lines = <<>>
    BY DEF File
  <2>4. /\ DOMAIN files' = 1 .. Len(files) + 1 /\ files'[Len(files) + 1] = File(no)
        /\ \A i \in 1 .. Len(files) : files'[i] = files[i]
    BY <2>1, <2>2
  <2>5. FileLines \in Seq(Seq(Lines)) /\ Len(FileLines) = Len(files)
    BY InFilesType DEF Inv
  <2>6. FileLines' = Append(FileLines, <<>>)
    <3>1. FileLines' = [i \in 1 .. Len(files) + 1 |-> files'[i].lines]
      BY <2>4 DEF FileLines
    <3>2. \A i \in 1 .. Len(files) : FileLines[i] = files[i].lines
      BY <2>2 DEF FileLines
    <3>3. <<>> \in Seq(Lines)
      OBVIOUS
    <3>4. /\ Append(FileLines, <<>>) \in Seq(Seq(Lines))
          /\ Len(Append(FileLines, <<>>)) = Len(files) + 1
          /\ \A i \in 1 .. Len(files) : Append(FileLines, <<>>)[i] = FileLines[i]
          /\ Append(FileLines, <<>>)[Len(files) + 1] = <<>>
      BY <2>5, <3>3, AppendProperties
    <3> DEFINE more == Append(FileLines, <<>>)
    <3>5. DOMAIN more = 1 .. Len(files) + 1 /\ more = [i \in 1 .. Len(files) + 1 |-> more[i]]
      <4> HIDE DEF more
      <4>1. more \in Seq(Seq(Lines)) /\ Len(more) = Len(files) + 1
        BY <3>4 DEF more
      <4>2. more \in [1 .. Len(more) -> Seq(Lines)]
        BY <4>1, LenProperties
      <4> QED
        BY <4>1, <4>2
    <3> HIDE DEF more
    <3>6. \A i \in 1 .. Len(files) : more[i] = files[i].lines
      BY <3>2, <3>4 DEF more
    <3>7. \A i \in 1 .. Len(files) + 1 : more[i] = files'[i].lines
      <4>1. more[Len(files) + 1] = <<>>
        BY <3>4 DEF more
      <4>2. \A i \in 1 .. Len(files) + 1 : i \in 1 .. Len(files) \/ i = Len(files) + 1
        BY <2>2
      <4> QED
        BY <2>3, <2>4, <3>6, <4>1, <4>2
    <3>8. FileLines' = more
      BY <3>1, <3>5, <3>7
    <3> QED
      BY <3>8 DEF more
  <2>7. <<>> \in Seq(Lines)
    OBVIOUS
  <2>8. FlattenSeq(Append(FileLines, <<>>)) = FlattenSeq(FileLines) \o <<>>
    BY <2>5, <2>7, FlattenAppend
  <2>9. FlattenSeq(FileLines) \o <<>> = FlattenSeq(FileLines)
    BY <2>5, FlattenType, ConcatEmptySeq
  <2> QED
    BY <2>6, <2>8, <2>9 DEF InFiles
<1> QED
  BY <1>2, <1>3

\* The line goes to the end of the last file.
LEMMA WriteLines ==
  ASSUME Inv, Write
  PROVE  InFiles' = Append(InFiles, Head(tmp)) /\ Head(tmp) \in Lines
<1> DEFINE n == Len(files)
           x == Head(tmp)
<1>1. files' = [files EXCEPT ![n].lines = Append(@, x)] /\ pc[Writer] = "write"
  BY DEF Write
<1>2. tmp \in Seq(Lines) /\ tmp # <<>> /\ files # <<>>
  BY <1>1 DEF Inv, TypeOK, Writing
<1>3. x \in Lines
  BY <1>2, HeadTailProperties
<1>4. n \in Nat /\ n \in 1 .. n /\ DOMAIN files = 1 .. n /\ \A i \in 1 .. n : files[i] \in FileType
  <2>1. n > 0 /\ n \in Nat
    BY <1>2, FileFacts DEF Inv
  <2> QED
    BY <2>1, FileFacts DEF Inv
<1>5. FileLines \in Seq(Seq(Lines)) /\ Len(FileLines) = n /\ FileLines # <<>>
  <2>1. FileLines \in Seq(Seq(Lines)) /\ Len(FileLines) = n
    BY InFilesType DEF Inv
  <2>2. FileLines # <<>>
    BY <1>4, <2>1
  <2> QED
    BY <2>1, <2>2
<1> HIDE DEF n, x
<1>6. DOMAIN files' = 1 .. n /\ \A i \in 1 .. n :
        files'[i] = IF i = n THEN [files[n] EXCEPT !.lines = Append(files[n].lines, x)] ELSE files[i]
  BY <1>1, <1>4
<1>7. \A i \in 1 .. n :
        files'[i].lines = IF i = n THEN Append(files[n].lines, x) ELSE files[i].lines
  <2>1. "lines" \in DOMAIN files[n]
    BY <1>4 DEF FileType
  <2> QED
    BY <1>6, <2>1
<1>8. FileLines = [i \in 1 .. n |-> files[i].lines] /\ FileLines' = [i \in 1 .. n |-> files'[i].lines]
  BY <1>4, <1>6 DEF FileLines
<1>9. FileLines' = [FileLines EXCEPT ![n] = Append(@, x)]
  BY <1>4, <1>7, <1>8
<1>10. FlattenSeq([FileLines EXCEPT ![n] = Append(@, x)]) = Append(FlattenSeq(FileLines), x)
  BY <1>3, <1>5, FlattenExtend
<1>11. InFiles' = Append(InFiles, x)
  BY <1>9, <1>10 DEF InFiles
<1> QED
  BY <1>3, <1>11 DEF x

\* Every step keeps the order.
LEMMA NextOrdered ==
  ASSUME Inv, InLine, Ordered, [Next]_vars
  PROVE  Ordered'
<1>0. /\ NoThread \notin Threads /\ Main \in Threads /\ Writer \in Threads /\ Main # Writer
      /\ InFiles \in Seq(Lines) /\ Unwritten \in Seq(Lines)
      /\ InFiles \o Unwritten \in Seq(Lines) /\ InFiles \o Unwritten \in Seq(Int)
      /\ pushed \in Int /\ LoggerPC \cap WriterPC = {}
  BY LoggersAssumption, InFilesType, QueueParts, LinesAreNumbers
  DEF Inv, TypeOK, LoggerPC, WriterPC
<1>1. ASSUME InFiles' = InFiles, Unwritten' = Unwritten, pushed' = pushed,
             handler' = handler \/ handler = NoThread
      PROVE  Ordered'
  <2>1. handler' \in {NoThread, Main} => handler \in {NoThread, Main}
    BY <1>1, <1>0
  <2>2. handler \in {NoThread, Main} => Increasing(InFiles)
    <3>1. InFiles \in Seq(Int) /\ Unwritten \in Seq(Int)
      BY <1>0, LinesAreNumbers
    <3> QED
      BY <3>1, IncreasingConcat DEF Ordered
  <2>3. handler' = Writer => Increasing(InFiles)
    BY <1>1, <2>2 DEF Ordered
  <2> QED
    BY <1>1, <2>1, <2>3 DEF Ordered
<1>2. ASSUME handler \notin {NoThread, Main}, handler' = handler, InFiles' = InFiles
      PROVE  Ordered'
  BY <1>2 DEF Ordered
<1>3. ASSUME NEW t \in Threads, Push(t)
      PROVE  Ordered'
  <2>1. handler' = handler /\ pushed' = pushed + 1 /\ InFiles' = InFiles
    BY <1>3 DEF Push, envVars, appVars, fileVars, InFiles, FileLines
  <2>2. Unwritten' = Append(Unwritten, pushed + 1) /\ pushed + 1 \in Lines
    BY <1>3, PushQueue
  <2>3. InFiles \o Append(Unwritten, pushed + 1) = Append(InFiles \o Unwritten, pushed + 1)
    BY <1>0, <2>2, ConcatAppend
  <2>4. ASSUME handler \in {NoThread, Main}
        PROVE  /\ Increasing(Append(InFiles \o Unwritten, pushed + 1))
               /\ AtMost(Append(InFiles \o Unwritten, pushed + 1), pushed + 1)
    <3>1. Increasing(InFiles \o Unwritten) /\ AtMost(InFiles \o Unwritten, pushed)
      BY <2>4 DEF Ordered
    <3> QED
      BY <1>0, <3>1, IncreasingAppend
  <2> QED
    BY <2>1, <2>2, <2>3, <2>4 DEF Ordered
<1>4. ASSUME NEW t \in Threads, Swap(t)
      PROVE  Ordered'
  <2>1. handler' = handler /\ pushed' = pushed /\ InFiles' = InFiles
    BY <1>4 DEF Swap, envVars, appVars, fileVars, InFiles, FileLines
  <2>2. ASSUME handler \in {NoThread, Main} PROVE Ordered'
    <3>1. t = Main
      BY <1>4, <2>2 DEF Swap, InLine, MainSyncs, Syncing
    <3> DEFINE front == tmp \o FlattenSeq(m_buffer)
               lines == tmp_vec[Main]
    <3>2. Unwritten' = front \o staged
      BY <1>4, <3>1, SwapQueue
    <3>3. Unwritten = front \o lines \o staged
      BY DEF Unwritten
    <3>4. front \in Seq(Lines) /\ lines \in Seq(Lines) /\ staged \in Seq(Lines)
      BY QueueParts DEF Inv
    <3>5. Increasing(InFiles \o Unwritten) /\ AtMost(InFiles \o Unwritten, pushed)
      BY <2>2 DEF Ordered
    <3> HIDE DEF front, lines
    <3>7. InFiles \in Seq(Lines) /\ Lines \subseteq Int
      BY <1>0, LoggersAssumption DEF Lines
    <3>8. /\ Increasing(InFiles \o (front \o lines \o staged))
          /\ AtMost(InFiles \o (front \o lines \o staged), pushed)
      BY <3>3, <3>5
    <3>9. Increasing(InFiles \o (front \o staged)) /\ AtMost(InFiles \o (front \o staged), pushed)
      BY <3>4, <3>7, <3>8, IncreasingDropInner
    <3>10. Increasing(InFiles' \o Unwritten') /\ AtMost(InFiles' \o Unwritten', pushed')
      BY <2>1, <3>2, <3>9
    <3>11. handler' # Writer
      BY <1>0, <2>1, <2>2
    <3> QED
      BY <3>10, <3>11 DEF Ordered
  <2> QED
    BY <1>2, <2>1, <2>2
<1>5. ASSUME NEW t \in Threads, Enqueue(t)
      PROVE  Ordered'
  <2>1. handler' = handler /\ pushed' = pushed /\ InFiles' = InFiles
    BY <1>5 DEF Enqueue, envVars, appVars, fileVars, stageVars, InFiles, FileLines
  <2>2. ASSUME handler \in {NoThread, Main} PROVE Ordered'
    <3>1. t = Main
      BY <1>5, <2>2 DEF Enqueue, InLine, MainSyncs, Syncing
    <3> QED
      BY <1>1, <1>5, <2>1, <3>1, EnqueueQueue
  <2> QED
    BY <1>2, <2>1, <2>2
<1>6. ASSUME Take
      PROVE  Ordered'
  <2>1. handler' = handler /\ pushed' = pushed /\ InFiles' = InFiles /\ pc[Writer] = "take"
    BY <1>6 DEF Take, envVars, appVars, stageVars, InFiles, FileLines
  <2>2. ASSUME handler \in {NoThread, Main} PROVE Ordered'
    <3>1. tmp = <<>>
      BY <2>1, <2>2 DEF InLine, WriterHolds
    <3> QED
      BY <1>1, <1>6, <2>1, <3>1, TakeQueue
  <2> QED
    BY <1>2, <2>1, <2>2
<1>7. ASSUME Write
      PROVE  Ordered'
  <2>1. handler' = handler /\ pushed' = pushed /\ pc[Writer] = "write"
    BY <1>7 DEF Write, envVars, appVars, stageVars
  <2>2. Unwritten # <<>> /\ Head(Unwritten) = Head(tmp) /\ Unwritten' = Tail(Unwritten)
    BY <1>7, WriteQueue
  <2>3. InFiles' = Append(InFiles, Head(tmp))
    BY <1>7, WriteLines
  <2>4. Append(InFiles, Head(Unwritten)) \o Tail(Unwritten) = InFiles \o Unwritten
    BY <1>0, <2>2, HeadMoves
  <2>5. InFiles' \o Unwritten' = InFiles \o Unwritten
    BY <2>2, <2>3, <2>4
  <2>6. handler # Writer
    BY <1>0, <2>1 DEF InLine, LoggerPC
  <2> QED
    BY <2>1, <2>5, <2>6 DEF Ordered
<1>8. ASSUME OpenFile
      PROVE  Ordered'
  <2>1. handler' = handler
    BY <1>8 DEF OpenFile, envVars, appVars
  <2>2. pushed' = pushed /\ Unwritten' = Unwritten
    BY <1>8, OtherQueue
  <2> QED
    BY <1>1, <1>8, <2>1, <2>2, OpenFileLines
<1>9. ASSUME \/ \E t \in Threads :
                  \/ PushBegin(t) \/ Lock(t) \/ PushReturn(t) \/ QueueReturn(t) \/ SyncReturn(t)
                  \/ Stop(t) \/ Join(t) \/ JoinApp(t) \/ Signal(t)
             \/ SyncBegin \/ WriterLock \/ Wait \/ Check \/ Midnight \/ AppWrite \/ UNCHANGED vars
      PROVE  Ordered'
  <2>1. files' = files /\ (handler' = handler \/ handler = NoThread)
    BY <1>9
    DEF PushBegin, Lock, PushLock, SyncLock, QueueLock, PushReturn, QueueReturn, SyncReturn,
        Stop, Join, JoinApp, Signal, SyncBegin, WriterLock, Wait, Check, Midnight, AppWrite,
        vars, fileVars, envVars, appVars
  <2>2. pushed' = pushed /\ Unwritten' = Unwritten
    BY <1>9, OtherQueue
  <2>3. InFiles' = InFiles
    BY <2>1 DEF InFiles, FileLines
  <2> QED
    BY <1>1, <2>1, <2>2, <2>3
<1> QED
  BY <1>3, <1>4, <1>5, <1>6, <1>7, <1>8, <1>9 DEF Next, ThreadStep, WriterStep

\* Nothing is pushed in the beginning.
LEMMA InitOrdered == Init => Ordered
<1> SUFFICES ASSUME Init PROVE Ordered
  OBVIOUS
<1>1. /\ tmp = <<>> /\ m_buffer = <<>> /\ staged = <<>> /\ tmp_vec[Main] = <<>>
      /\ files = <<>> /\ handler = NoThread /\ NoThread # Writer
  BY LoggersAssumption DEF Init
<1>2. <<>> \o <<>> = <<>> /\ DOMAIN <<>> = {}
  OBVIOUS
<1>3. FileLines = <<>>
  BY <1>1 DEF FileLines
<1>4. InFiles \o Unwritten = <<>>
  BY <1>1, <1>2, <1>3, FlattenEmpty DEF InFiles, Unwritten
<1> QED
  BY <1>1, <1>2, <1>4 DEF Ordered, Increasing, AtMost

\* The files hold the lines in the order in which they were pushed, for any number
\* of threads, lines and files, also those that the handler hands over when it has
\* interrupted the main thread or the writer.
THEOREM LinesInOrder == Spec => []WrittenInOrder
<1>1. Inv /\ Ordered => WrittenInOrder
  <2> SUFFICES ASSUME Inv, Ordered, handler \in {NoThread, Main, Writer}
               PROVE  \A i, j \in DOMAIN InFiles : i < j => InFiles[i] < InFiles[j]
    BY DEF WrittenInOrder, InFiles, FileLines
  <2>1. InFiles \in Seq(Int) /\ Unwritten \in Seq(Int)
    BY InFilesType, QueueParts, LinesAreNumbers DEF Inv
  <2>2. Increasing(InFiles)
    BY <2>1, IncreasingConcat DEF Ordered
  <2> QED
    BY <2>2 DEF Increasing
<1>2. Inv /\ InLine /\ Ordered /\ [Next]_vars => InLine' /\ Ordered'
  BY NextInLine, NextOrdered
<1> QED
  BY <1>1, <1>2, InitInv, NextInv, InitInLine, InitOrdered, PTL DEF Spec

=============================================================================

----------------------------- MODULE AsyncLogger ----------------------------
(***************************************************************************)
(* The log (common/log.cc).  Threads push lines to Logger; a timer of the  *)
(* main thread's loop hands them in batches to an AsyncLogger, whose own   *)
(* thread writes them to files, one file after the other.  On a signal,    *)
(* CoredumpHandler runs in the thread that was interrupted, wherever that  *)
(* was: it hands over what there is, stops the writer and joins it.        *)
(*                                                                         *)
(* Logger has two logs, of the framework and of its user, that share no    *)
(* data: this is the first, with as much of the other as the handler waits *)
(* for.  The two mutexes of a log are taken through ScopeMutex, which      *)
(* unlocks twice (see EventLoop): a behaviour ends when two threads are at *)
(* the same container (Raced).  Lines are numbered in the order in which   *)
(* they are pushed, and all have the size 1; there are no files of an      *)
(* earlier process, files can be opened, and what is written to them       *)
(* reaches the disk (fflush).                                              *)
(***************************************************************************)
EXTENDS Integers, FiniteSets, SequencesExt

CONSTANTS
  Loggers,      \* the threads that log
  Main,         \* the one of them whose loop has the timer
  Writer,       \* AsyncLogger::m_thread
  NoThread,     \* "the mutex is free", "no signal"
  MaxFileSize,  \* m_max_file_size
  MaxLines,     \* BOUND: how many lines are logged, but for the handler's
  MaxDays       \* BOUND: how often the date changes

Threads == Loggers \cup {Writer}

ASSUME LoggersAssumption ==
  /\ IsFiniteSet(Loggers) /\ Main \in Loggers
  /\ Writer \notin Loggers /\ NoThread \notin Loggers \cup {Writer}
  /\ MaxFileSize \in Nat /\ MaxLines \in Nat /\ MaxDays \in Nat

VARIABLES
  pc,           \* pc[t]: where thread t is
  pushed,       \* the number of the last line
  logger_mutex, \* Logger::m_mutex: the thread that locked it last
  staged,       \* Logger::m_buffer
  tmp_vec,      \* tmp_vec[t]: syncLoop's, in thread t
  async_mutex,  \* AsyncLogger::m_mutex
  m_buffer,     \* AsyncLogger::m_buffer: a queue of batches
  tmp,          \* what is left of the batch that the writer writes
  files,        \* the files: [m_date, m_no, lines], the last one is open
  m_stop_flag,
  today,        \* the date
  handler,      \* the thread that CoredumpHandler runs in
  app_locked,   \* that thread had locked a mutex of the other log
  app_writer    \* the writer of the other log: asleep, busy or done

stageVars == <<pushed, logger_mutex, staged>>
queueVars == <<async_mutex, m_buffer>>
fileVars  == <<tmp, files>>
appVars   == <<app_locked, app_writer>>
envVars   == <<today, handler, appVars>>
vars == <<pc, stageVars, tmp_vec, queueVars, fileVars, m_stop_flag, envVars>>

LoggerPC == {"idle", "pushLock", "push", "pushReturn", "syncLock", "swap",
             "queueLock", "enqueue", "queueReturn", "syncReturn", "stop", "join",
             "joinApp", "raised"}
WriterPC == {"lock", "waiting", "take", "open", "write", "check", "return", "done"}

Lines == 1 .. MaxLines + 1

Init ==
  /\ pc = [t \in Threads |-> IF t = Writer THEN "lock" ELSE "idle"]
  /\ pushed = 0
  /\ logger_mutex = NoThread /\ staged = <<>>
  /\ tmp_vec = [t \in Threads |-> <<>>]
  /\ async_mutex = NoThread /\ m_buffer = <<>>
  /\ tmp = <<>> /\ files = <<>>
  /\ m_stop_flag = FALSE
  /\ today = 0
  /\ handler = NoThread
  /\ app_locked = FALSE /\ app_writer = "asleep"

Goto(t, label) == pc' = [pc EXCEPT ![t] = label]

\* Two threads are at the same container.
At(t, labels) == pc[t] \in labels
Raced == \E t, u \in Threads : t # u /\
           \/ At(t, {"push", "swap"}) /\ At(u, {"push", "swap"})
           \/ At(t, {"enqueue", "take"}) /\ At(u, {"enqueue", "take"})

-----------------------------------------------------------------------------
(* Logger::pushLog.                                                         *)

Pushing == {u \in Threads : pc[u] \in {"pushLock", "push"}}

PushBegin(t) ==
  /\ t \in Loggers /\ pc[t] = "idle" /\ pushed + Cardinality(Pushing) < MaxLines
  /\ Goto(t, "pushLock")
  /\ UNCHANGED <<stageVars, tmp_vec, queueVars, fileVars, m_stop_flag, envVars>>

PushLock(t) ==
  /\ pc[t] = "pushLock" /\ logger_mutex = NoThread
  /\ logger_mutex' = t
  /\ Goto(t, "push")
  /\ UNCHANGED <<pushed, staged, tmp_vec, queueVars, fileVars, m_stop_flag, envVars>>

\* push_back, unlock.
Push(t) ==
  /\ pc[t] = "push"
  /\ pushed' = pushed + 1
  /\ staged' = Append(staged, pushed + 1)
  /\ logger_mutex' = NoThread
  /\ Goto(t, "pushReturn")
  /\ UNCHANGED <<tmp_vec, queueVars, fileVars, m_stop_flag, envVars>>

\* The second unlock.  The handler goes on with flush().
PushReturn(t) ==
  /\ pc[t] = "pushReturn"
  /\ logger_mutex' = NoThread
  /\ Goto(t, IF t = handler THEN "syncLock" ELSE "idle")
  /\ UNCHANGED <<pushed, staged, tmp_vec, queueVars, fileVars, m_stop_flag, envVars>>

-----------------------------------------------------------------------------
(* Logger::syncLoop and AsyncLogger::pushLogBuffer.                         *)

SyncBegin ==
  /\ pc[Main] = "idle"
  /\ Goto(Main, "syncLock")
  /\ UNCHANGED <<stageVars, tmp_vec, queueVars, fileVars, m_stop_flag, envVars>>

SyncLock(t) ==
  /\ pc[t] = "syncLock" /\ logger_mutex = NoThread
  /\ logger_mutex' = t
  /\ Goto(t, "swap")
  /\ UNCHANGED <<pushed, staged, tmp_vec, queueVars, fileVars, m_stop_flag, envVars>>

\* Mutant: the lines are copied.
CopyStaged(t) ==
  /\ pc[t] = "swap"
  /\ tmp_vec' = [tmp_vec EXCEPT ![t] = staged]
  /\ logger_mutex' = NoThread
  /\ Goto(t, IF staged = <<>> THEN "syncReturn" ELSE "queueLock")
  /\ UNCHANGED <<pushed, staged, queueVars, fileVars, m_stop_flag, envVars>>

\* Mutant: an empty batch is handed over, too.
SwapAlways(t) ==
  /\ pc[t] = "swap"
  /\ tmp_vec' = [tmp_vec EXCEPT ![t] = staged]
  /\ staged' = <<>>
  /\ logger_mutex' = NoThread
  /\ Goto(t, "queueLock")
  /\ UNCHANGED <<pushed, queueVars, fileVars, m_stop_flag, envVars>>

\* swap with a new vector, unlock, empty().
Swap(t) ==
  /\ pc[t] = "swap"
  /\ tmp_vec' = [tmp_vec EXCEPT ![t] = staged]
  /\ staged' = <<>>
  /\ logger_mutex' = NoThread
  /\ Goto(t, IF staged = <<>> THEN "syncReturn" ELSE "queueLock")
  /\ UNCHANGED <<pushed, queueVars, fileVars, m_stop_flag, envVars>>

QueueLock(t) ==
  /\ pc[t] = "queueLock" /\ async_mutex = NoThread
  /\ async_mutex' = t
  /\ Goto(t, "enqueue")
  /\ UNCHANGED <<stageVars, tmp_vec, m_buffer, fileVars, m_stop_flag, envVars>>

\* Mutant: no pthread_cond_signal.
EnqueueSilently(t) ==
  /\ pc[t] = "enqueue"
  /\ m_buffer' = Append(m_buffer, tmp_vec[t])
  /\ tmp_vec' = [tmp_vec EXCEPT ![t] = <<>>]
  /\ async_mutex' = NoThread
  /\ Goto(t, "queueReturn")
  /\ UNCHANGED <<stageVars, fileVars, m_stop_flag, envVars>>

\* push, pthread_cond_signal, unlock.
Enqueue(t) ==
  /\ pc[t] = "enqueue"
  /\ m_buffer' = Append(m_buffer, tmp_vec[t])
  /\ tmp_vec' = [tmp_vec EXCEPT ![t] = <<>>]
  /\ async_mutex' = NoThread
  /\ pc' = [u \in Threads |-> IF u = t THEN "queueReturn"
                              ELSE IF pc[u] = "waiting" THEN "lock" ELSE pc[u]]
  /\ UNCHANGED <<stageVars, fileVars, m_stop_flag, envVars>>

QueueReturn(t) ==
  /\ pc[t] = "queueReturn"
  /\ async_mutex' = NoThread
  /\ Goto(t, "syncReturn")
  /\ UNCHANGED <<stageVars, tmp_vec, m_buffer, fileVars, m_stop_flag, envVars>>

\* Then the same for the other log.  What its writer does is of interest from the
\* handler's syncLoop on: it may be writing by then, or be given a batch later.
SyncReturn(t) ==
  /\ pc[t] = "syncReturn" /\ ~app_locked
  /\ logger_mutex' = NoThread
  /\ \/ UNCHANGED app_writer
     \/ app_writer = "asleep" /\ (t = handler \/ m_stop_flag) /\ app_writer' = "busy"
  /\ Goto(t, IF t = handler THEN "stop" ELSE "idle")
  /\ UNCHANGED <<pushed, staged, tmp_vec, queueVars, fileVars, m_stop_flag,
                 today, handler, app_locked>>

-----------------------------------------------------------------------------
(* AsyncLogger::Loop.                                                       *)

\* ScopeMutex, and the return from pthread_cond_wait, which takes it again.
WriterLock ==
  /\ pc[Writer] = "lock" /\ async_mutex = NoThread
  /\ async_mutex' = Writer
  /\ Goto(Writer, "take")
  /\ UNCHANGED <<stageVars, tmp_vec, m_buffer, fileVars, m_stop_flag, envVars>>

\* pthread_cond_wait: sleep, without the mutex, until there is a batch.
Wait ==
  /\ pc[Writer] = "take" /\ m_buffer = <<>>
  /\ async_mutex' = NoThread
  /\ Goto(Writer, "waiting")
  /\ UNCHANGED <<stageVars, tmp_vec, m_buffer, fileVars, m_stop_flag, envVars>>

\* swap with front, pop, unlock.
Take ==
  /\ pc[Writer] = "take" /\ m_buffer # <<>>
  /\ tmp' = Head(m_buffer)
  /\ m_buffer' = Tail(m_buffer)
  /\ async_mutex' = NoThread
  /\ Goto(Writer, "open")
  /\ UNCHANGED <<stageVars, tmp_vec, files, m_stop_flag, envVars>>

File(no) == [m_date |-> today, m_no |-> no, lines |-> <<>>]

\* Mutant: a file that has just the size allowed is left.
NextFileAtSize ==
  IF files = <<>> THEN <<File(0)>>
  ELSE LET last == files[Len(files)]
       IN  IF last.m_date # today THEN Append(files, File(0))
           ELSE IF Len(last.lines) >= MaxFileSize THEN Append(files, File(last.m_no + 1))
           ELSE files

\* The file for the next batch: a new one on a new day, or when the last is full.
NextFile ==
  IF files = <<>> THEN <<File(0)>>
  ELSE LET last == files[Len(files)]
       IN  IF last.m_date # today THEN Append(files, File(0))
           ELSE IF Len(last.lines) > MaxFileSize THEN Append(files, File(last.m_no + 1))
           ELSE files

OpenFile ==
  /\ pc[Writer] = "open"
  /\ files' = NextFile
  /\ Goto(Writer, "write")
  /\ UNCHANGED <<stageVars, tmp_vec, queueVars, tmp, m_stop_flag, envVars>>

\* fwrite of a line, and fflush after the last one.
Write ==
  /\ pc[Writer] = "write"
  /\ files' = [files EXCEPT ![Len(files)].lines = Append(@, Head(tmp))]
  /\ tmp' = Tail(tmp)
  /\ Goto(Writer, IF Tail(tmp) = <<>> THEN "check" ELSE "write")
  /\ UNCHANGED <<stageVars, tmp_vec, queueVars, m_stop_flag, envVars>>

\* Mutant: the flag is not looked at.
CheckNever ==
  /\ pc[Writer] = "check"
  /\ async_mutex' = NoThread
  /\ Goto(Writer, "lock")
  /\ UNCHANGED <<stageVars, tmp_vec, m_buffer, fileVars, m_stop_flag, envVars>>

\* return when m_stop_flag; either way the mutex is unlocked once more.
Check ==
  /\ pc[Writer] = "check"
  /\ async_mutex' = NoThread
  /\ Goto(Writer, IF m_stop_flag THEN "done" ELSE "lock")
  /\ UNCHANGED <<stageVars, tmp_vec, m_buffer, fileVars, m_stop_flag, envVars>>

\* The Loop of the other log's writer, to pthread_cond_wait or to its return.
AppWrite ==
  /\ app_writer = "busy"
  /\ app_writer' = IF m_stop_flag THEN "done" ELSE "asleep"
  /\ UNCHANGED <<pc, stageVars, tmp_vec, queueVars, fileVars, m_stop_flag,
                 today, handler, app_locked>>

-----------------------------------------------------------------------------
(* CoredumpHandler, and the date.                                           *)

\* A signal: the thread leaves what it is doing, with the mutexes it holds.  Where
\* it has none of this log, it may have one of the other's.
Signal(t) ==
  /\ handler = NoThread /\ pc[t] # "done"
  /\ handler' = t
  /\ app_locked' \in {FALSE} \cup {b \in {TRUE} : pc[t] \in {"idle", "syncReturn"}}
  /\ Goto(t, "pushLock")
  /\ UNCHANGED <<stageVars, tmp_vec, queueVars, fileVars, m_stop_flag, today, app_writer>>

\* Of both logs stop, which does not signal the condition, and flush.
Stop(t) ==
  /\ pc[t] = "stop"
  /\ m_stop_flag' = TRUE
  /\ Goto(t, "join")
  /\ UNCHANGED <<stageVars, tmp_vec, queueVars, fileVars, envVars>>

\* pthread_join of the writer, which fails at once in the writer itself.
Join(t) ==
  /\ pc[t] = "join"
  /\ t = Writer \/ pc[Writer] = "done"
  /\ Goto(t, "joinApp")
  /\ UNCHANGED <<stageVars, tmp_vec, queueVars, fileVars, m_stop_flag, envVars>>

\* pthread_join of the other log's writer; raise ends the process.
JoinApp(t) ==
  /\ pc[t] = "joinApp"
  /\ app_writer = "done"
  /\ Goto(t, "raised")
  /\ UNCHANGED <<stageVars, tmp_vec, queueVars, fileVars, m_stop_flag, envVars>>

Midnight ==
  /\ today < MaxDays
  /\ today' = today + 1
  /\ UNCHANGED <<pc, stageVars, tmp_vec, queueVars, fileVars, m_stop_flag, handler, appVars>>

-----------------------------------------------------------------------------

Ended == \E t \in Threads : pc[t] = "raised"

Lock(t) == PushLock(t) \/ SyncLock(t) \/ QueueLock(t)

ThreadStep(t) ==
  \/ Lock(t) \/ Push(t) \/ PushReturn(t)
  \/ Swap(t) \/ Enqueue(t) \/ QueueReturn(t) \/ SyncReturn(t)
  \/ Stop(t) \/ Join(t) \/ JoinApp(t)

WriterStep == WriterLock \/ Wait \/ Take \/ OpenFile \/ Write \/ Check

Next ==
  /\ ~Raced /\ ~Ended
  /\ \/ \E t \in Threads : PushBegin(t) \/ ThreadStep(t) \/ Signal(t)
     \/ SyncBegin \/ WriterStep \/ AppWrite \/ Midnight

Spec == Init /\ [][Next]_vars

\* Threads go on with what they have begun, the timer runs syncLoop again and
\* again, and a mutex that is free again and again is taken.
Fairness ==
  /\ WF_vars(SyncBegin /\ ~Raced /\ ~Ended)
  /\ WF_vars(AppWrite /\ ~Raced /\ ~Ended)
  /\ WF_vars(WriterStep /\ ~Raced /\ ~Ended) /\ SF_vars(WriterLock /\ ~Raced /\ ~Ended)
  /\ \A t \in Threads : /\ WF_vars(ThreadStep(t) /\ ~Raced /\ ~Ended)
                       /\ SF_vars(Lock(t) /\ ~Raced /\ ~Ended)

FairSpec == Spec /\ Fairness

-----------------------------------------------------------------------------
(* Properties.                                                              *)

TypeOK ==
  /\ pc \in [Threads -> LoggerPC \cup WriterPC]
  /\ pushed \in 0 .. MaxLines + 1
  /\ logger_mutex \in Threads \cup {NoThread}
  /\ staged \in Seq(Lines)
  /\ tmp_vec \in [Threads -> Seq(Lines)]
  /\ async_mutex \in Threads \cup {NoThread}
  /\ m_buffer \in Seq(Seq(Lines) \ {<<>>})
  /\ tmp \in Seq(Lines)
  /\ files \in Seq([m_date : Nat, m_no : Nat, lines : Seq(Lines)])
  /\ m_stop_flag \in BOOLEAN
  /\ today \in Nat
  /\ handler \in Threads \cup {NoThread}
  /\ app_locked \in BOOLEAN /\ app_writer \in {"asleep", "busy", "done"}

\* From the thread that logs, over the main thread, to the files, the lines are
\* one queue: until a signal, none is lost, written twice or overtaken.
Unwritten == tmp \o FlattenSeq(m_buffer) \o tmp_vec[Main] \o staged

Log == INSTANCE FifoExecutor WITH Task <- Lines, queue <- Unwritten

LogIsQueue == Log!Init /\ [][handler' = NoThread => Log!Next]_Unwritten

\* The files hold the lines in the order in which they were pushed, each once;
\* also those that the handler hands over, unless it runs in a third thread,
\* which may overtake what the main thread holds.
WrittenInOrder ==
  handler \in {NoThread, Main, Writer} =>
    LET written == FlattenSeq([i \in DOMAIN files |-> files[i].lines])
    IN  \A i, j \in DOMAIN written : i < j => written[i] < written[j]

\* A file is left for the next one of its day only when it is full, the days
\* are in order, and each begins with the number 0: no name is used twice.
FilesAreFull ==
  \A i \in DOMAIN files :
    \/ files[i].m_no = 0 /\ (i > 1 => files[i - 1].m_date < files[i].m_date)
    \/ /\ i > 1 /\ files[i].m_date = files[i - 1].m_date
       /\ files[i].m_no = files[i - 1].m_no + 1
       /\ Len(files[i - 1].lines) > MaxFileSize

\* Every line is written in the end, although nothing but the push of a batch
\* wakes the writer.
Written(n) == \E i \in DOMAIN files : n \in ToSet(files[i].lines)

LinesAreWritten ==
  \A n \in 1 .. MaxLines :
    pushed >= n ~> Written(n) \/ handler # NoThread \/ Raced

\* CoredumpHandler waits for mutexes and for two writers, which stop() wakes
\* neither of.  It comes to its first pthread_join unless the thread that it has
\* interrupted had locked a mutex that it needs.  A writer that has something to
\* write then sees the flag, and is joined; a writer that sleeps need not.
HandlerAt(labels) == handler # NoThread /\ pc[handler] \in labels

SelfLocked ==
  \/ HandlerAt({"pushLock", "syncLock"}) /\ logger_mutex = handler
  \/ HandlerAt({"queueLock"}) /\ async_mutex = handler
  \/ HandlerAt({"syncReturn"}) /\ app_locked

WriterHasWork == m_buffer # <<>> \/ pc[Writer] \in {"open", "write", "check"}

HandlerEnds ==
  /\ handler # NoThread ~> HandlerAt({"join", "joinApp", "raised"}) \/ SelfLocked \/ Raced
  /\ HandlerAt({"join"}) /\ WriterHasWork ~> HandlerAt({"joinApp", "raised"}) \/ Raced
  /\ HandlerAt({"joinApp"}) /\ app_writer # "asleep" ~> Ended \/ Raced

=============================================================================

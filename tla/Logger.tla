------------------------------- MODULE Logger -------------------------------
(***************************************************************************)
(* Logger: any thread may log, add a file logger, remove one or all.  log  *)
(* and addfilelogger take the mutex; removefileloggerat and                *)
(* clearfileloggers do not, and removefileloggerat logs when it has        *)
(* nothing to remove.                                                      *)
(*                                                                         *)
(* An entry stands for its severity, its time and who logs it.  What time  *)
(* it is given is open: gettimestring runs before the mutex is taken, the  *)
(* clock may be set back between its two readings, and what it formats is  *)
(* the tm of std::localtime, which another thread's call overwrites before *)
(* strftime has read it or while it does.  Standard output, written at the *)
(* moment the mutex is taken, has its entries in that order; which of them *)
(* it has is left out.                                                     *)
(***************************************************************************)
EXTENDS Naturals, Sequences, SequencesExt

CONSTANTS Threads, NoThread,
          Severities,      \* of the entries that are logged; 0 is LOGSEVERITYNONE
          FileSeverities,  \* of the file loggers that are added
          Warning,     \* the severity of the logger's own entries
          Times,       \* that gettimestring may give
          MaxLogs,     \* bound: calls of log from outside
          MaxFiles,    \* bound: file loggers added
          MaxRemovals  \* bound: calls that remove file loggers

ASSUME LoggerAssumption ==
    /\ NoThread \notin Threads
    /\ Severities \subseteq Nat /\ FileSeverities \subseteq Nat
    /\ Warning \in Severities
    /\ MaxLogs \in Nat /\ MaxFiles \in Nat /\ MaxRemovals \in Nat

VARIABLES fileloggers,  \* the file loggers, by number, in their order
          loggermutex,  \* the thread that holds it
          pc, entry,    \* where each thread is, and its entry
          it,           \* position of each thread in fileloggers
          logs, added, removals,
          filelog,      \* history: the severity and entries of each file logger
          order,        \* history: the entries in the order the mutex was taken
          since,        \* history: how many there were when a file logger came
          fault

files == <<fileloggers, filelog, since>>
bounded == <<logs, added, removals>>

vars == <<files, loggermutex, pc, entry, it, bounded, order, fault>>

NoEntry == [severity |-> 0, by |-> NoThread]

Init ==
    /\ fileloggers = <<>>
    /\ loggermutex = NoThread
    /\ pc = [t \in Threads |-> "idle"] /\ entry = [t \in Threads |-> NoEntry]
    /\ it = [t \in Threads |-> 1]
    /\ logs = 0 /\ added = 0 /\ removals = 0
    /\ filelog = <<>> /\ order = <<>> /\ since = <<>>
    /\ fault = FALSE

\* The test of an output: entries and outputs of severity NONE are silent.
Passes(severity, least) == severity > 0 /\ least > 0 /\ severity >= least

Step(t, from, to) ==
    /\ ~fault /\ UNCHANGED fault
    /\ pc[t] = from /\ pc' = [pc EXCEPT ![t] = to]

-----------------------------------------------------------------------------
(* log *)

\* The text of the entry is made, with whatever time gettimestring gives.
Enter(t, from, severity) ==
    /\ Step(t, from, "lock")
    /\ \E time \in Times :
         entry' = [entry EXCEPT ![t] = [severity |-> severity, time |-> time, by |-> t]]
    /\ UNCHANGED <<files, loggermutex, it, added, removals, order>>

Log(t, severity) ==
    /\ logs < MaxLogs /\ logs' = logs + 1
    /\ Enter(t, "idle", severity)

\* The mutex is taken and the entry written to standard output.
Write(t, holder) ==
    /\ loggermutex = NoThread /\ loggermutex' = holder
    /\ Step(t, "lock", "files")
    /\ order' = Append(order, entry[t])
    /\ it' = [it EXCEPT ![t] = 1]
    /\ UNCHANGED <<files, entry, bounded>>

\* Mutant of Lock: the mutex covers standard output only.
LockBriefly(t) == Write(t, NoThread)

Lock(t) == Write(t, t)

\* No other thread is about to delete file loggers.
Undisturbed(t) == \A u \in Threads \ {t} : pc[u] \notin {"remove", "clear"}

\* No other thread goes through them either.
Alone(t) == \A u \in Threads \ {t} : pc[u] \notin {"files", "remove", "clear"}

WriteFile(t) ==
    /\ Step(t, "files", "files")
    /\ it[t] <= Len(fileloggers) /\ it' = [it EXCEPT ![t] = @ + 1]
    /\ LET f == fileloggers[it[t]] IN
       filelog' = IF Passes(entry[t].severity, filelog[f].severity)
                    THEN [filelog EXCEPT ![f].entries = Append(@, entry[t])] ELSE filelog
    /\ UNCHANGED <<fileloggers, since, loggermutex, entry, bounded, order>>

Unlock(t) ==
    /\ Step(t, "files", "idle")
    /\ it[t] > Len(fileloggers)
    /\ loggermutex' = IF loggermutex = t THEN NoThread ELSE loggermutex
    /\ entry' = [entry EXCEPT ![t] = NoEntry]
    /\ UNCHANGED <<files, it, bounded, order>>

-----------------------------------------------------------------------------
(* The file loggers *)

AddFileLogger(t, severity) ==
    /\ Step(t, "idle", "idle")
    /\ loggermutex = NoThread /\ Undisturbed(t)
    /\ added < MaxFiles /\ added' = added + 1
    /\ fileloggers' = Append(fileloggers, added + 1)
    /\ filelog' = Append(filelog, [severity |-> severity, entries |-> <<>>])
    /\ since' = Append(since, Len(order))
    /\ UNCHANGED <<loggermutex, entry, it, logs, removals, order>>

\* removefileloggerat has read the size.  It goes on to delete a file logger, or
\* to log a warning.
BeginRemove(t) ==
    /\ Step(t, "idle", IF fileloggers = <<>> THEN "warn" ELSE "remove")
    /\ removals < MaxRemovals /\ removals' = removals + 1
    /\ UNCHANGED <<files, loggermutex, entry, it, logs, added, order>>

\* Mutant of Warn: the mutex is taken for the whole of removefileloggerat.
WarnLocked(t) ==
    /\ Step(t, "warn", "lock")
    /\ loggermutex = NoThread /\ loggermutex' = t
    /\ \E time \in Times :
         entry' = [entry EXCEPT ![t] = [severity |-> Warning, time |-> time, by |-> t]]
    /\ UNCHANGED <<files, it, bounded, order>>

\* Mutant of Warn: logged with the severity of an output that is switched off.
WarnOfNothing(t) == Enter(t, "warn", 0) /\ UNCHANGED logs

\* Nothing to remove, or the index is out of range: logged like anything else.
Warn(t) == Enter(t, "warn", Warning) /\ UNCHANGED logs

IndexOutOfRange(t) == Enter(t, "remove", Warning) /\ UNCHANGED logs

EndRemove(t, index) ==
    /\ Step(t, "remove", "idle")
    /\ Alone(t)
    /\ index <= Len(fileloggers)
    /\ fileloggers' = RemoveAt(fileloggers, index)
    /\ UNCHANGED <<filelog, since, loggermutex, entry, it, bounded, order>>

BeginClear(t) ==
    /\ Step(t, "idle", "clear")
    /\ removals < MaxRemovals /\ removals' = removals + 1
    /\ UNCHANGED <<files, loggermutex, entry, it, logs, added, order>>

EndClear(t) ==
    /\ Step(t, "clear", "idle")
    /\ Alone(t)
    /\ fileloggers' = <<>>
    /\ UNCHANGED <<filelog, since, loggermutex, entry, it, bounded, order>>

\* File loggers are deleted, and the vector changed, while another thread goes
\* through them, adds one or deletes them too.
Race(t) ==
    /\ ~fault /\ fault' = TRUE
    /\ pc[t] \in {"remove", "clear"}
    /\ ~Alone(t) \/ (added < MaxFiles /\ \E u \in Threads : pc[u] = "idle")
    /\ UNCHANGED <<files, loggermutex, pc, entry, it, bounded, order>>

-----------------------------------------------------------------------------

\* What a thread that has called goes on with.
Proceed(t) ==
    \/ Lock(t) \/ WriteFile(t) \/ Unlock(t)
    \/ Warn(t) \/ IndexOutOfRange(t) \/ EndClear(t) \/ Race(t)
    \/ \E index \in 1 .. MaxFiles : EndRemove(t, index)

Next ==
    \E t \in Threads :
        \/ Proceed(t)
        \/ BeginRemove(t) \/ BeginClear(t)
        \/ \E severity \in Severities : Log(t, severity)
        \/ \E severity \in FileSeverities : AddFileLogger(t, severity)

Spec == Init /\ [][Next]_vars

\* Threads are scheduled.
FairSpec == Spec /\ \A t \in Threads : WF_vars(Proceed(t))

-----------------------------------------------------------------------------
(* Properties *)

Entries == [severity : Severities, time : Times, by : Threads]

\* Types of the members and of the locals of log.
TypeOK ==
    /\ fileloggers \in Seq(1 .. MaxFiles) /\ loggermutex \in Threads \cup {NoThread}
    /\ pc \in [Threads -> {"idle", "lock", "files", "warn", "remove", "clear"}]
    /\ entry \in [Threads -> Entries \cup {NoEntry}]
    /\ it \in [Threads -> 1 .. MaxFiles + 1]
    /\ logs \in 0 .. MaxLogs /\ added \in 0 .. MaxFiles /\ removals \in 0 .. MaxRemovals
    /\ order \in Seq(Entries)
    /\ filelog \in Seq([severity : FileSeverities, entries : Seq(Entries)])
    /\ since \in Seq(Nat)
    /\ fault \in BOOLEAN

\* The entries that pass, in their order, of those behind the first ones.
PassingAfter(first, entries, least) ==
    LET passing[i \in 0 .. Len(entries)] ==
          IF i <= first THEN <<>>
          ELSE IF Passes(entries[i].severity, least) THEN Append(passing[i - 1], entries[i])
          ELSE passing[i - 1]
    IN  passing[Len(entries)]

\* The entries file f has to have, of those that took the mutex since it came.
Due(f) == PassingAfter(since[f], order, filelog[f].severity)

\* Every file logger has the entries of its severity in the one order in which
\* all of them were written, none left out and none twice;
\* the entry being written is the only one it may still lack.
OutputsAgree ==
    \A i \in 1 .. Len(fileloggers) :
        LET f == fileloggers[i]
            written == filelog[f].entries
        IN  /\ IsPrefix(written, Due(f))
            /\ Len(Due(f)) <= Len(written) + 1
            /\ (\A t \in Threads : pc[t] # "files") => written = Due(f)

\* A call that logs returns, the warning of removefileloggerat included.
LogReturns ==
    \A t \in Threads : pc[t] \in {"lock", "files", "warn"} ~> pc[t] = "idle" \/ fault
=============================================================================

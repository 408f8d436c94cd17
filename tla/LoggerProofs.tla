---------------------------- MODULE LoggerProofs ----------------------------
(***************************************************************************)
(* What the outputs of Logger have and when, for any threads, severities   *)
(* and file loggers.                                                       *)
(***************************************************************************)
EXTENDS Logger, SequenceLemmas

-----------------------------------------------------------------------------
(* The inductive invariant *)

\* File loggers are numbered as they come and stay in that order, and a history is
\* kept for each of them.
Numbered ==
    /\ Len(filelog) = added /\ Len(since) = added
    /\ Len(fileloggers) <= added
    /\ \A i \in 1 .. Len(fileloggers) : fileloggers[i] \in 1 .. added
    /\ \A i, j \in 1 .. Len(fileloggers) : i < j => fileloggers[i] < fileloggers[j]
    /\ \A f \in 1 .. added : since[f] <= Len(order)

\* The mutex is held by the thread that goes through the file loggers.
MutexHeld == \A t \in Threads : pc[t] = "files" <=> loggermutex = t

\* A thread that logs has an entry.
Logging == \A t \in Threads : pc[t] \in {"lock", "files"} => entry[t] \in Entries

\* What the next entry makes of those that have passed.
Grown(d, e, least) == IF Passes(e.severity, least) THEN Append(d, e) ELSE d

\* A file lacks the entry that a thread is writing as long as the thread has not
\* come to it, and nothing else.
WrittenTo(f, i) ==
    /\ (\A t \in Threads : pc[t] = "files" => i < it[t]) => Due(f) = filelog[f].entries
    /\ \A t \in Threads : pc[t] = "files" /\ it[t] <= i =>
         Due(f) = Grown(filelog[f].entries, entry[t], filelog[f].severity)

Written == \A i \in 1 .. Len(fileloggers) : WrittenTo(fileloggers[i], i)

IInv == TypeOK /\ Numbered /\ MutexHeld /\ Logging /\ Written

-----------------------------------------------------------------------------
(* Lemmas on PassingAfter: its function exists, and grows with the entries *)

\* What has passed after each of the first n entries of s.
IsPassing(g, s, from, least, n) ==
    g = [i \in 0 .. n |-> IF i <= from THEN <<>> ELSE Grown(g[i - 1], s[i], least)]

\* The function by which PassingAfter is defined exists, for any number of entries.
LEMMA PassingExists ==
    ASSUME NEW s, NEW from \in Nat, NEW least, NEW n \in Nat
    PROVE  \E g : IsPassing(g, s, from, least, n)
<1> DEFINE T == {m \in Nat : ~ \E g : IsPassing(g, s, from, least, m)}
<1> SUFFICES ASSUME T # {}
             PROVE  FALSE
  BY Zenon
<1>1. PICK m \in T : \A k \in T : m <= k
  <2>1. T \in SUBSET Nat
    OBVIOUS
  <2> HIDE DEF T
  <2> QED
    BY <2>1, SmallestOf
<1>2. m \in Nat /\ ~ \E g : IsPassing(g, s, from, least, m)
  BY <1>1
<1>3. CASE m = 0
  <2> DEFINE g == [i \in 0 .. 0 |-> <<>>]
  <2>1. g = [i \in 0 .. 0 |-> IF i <= from THEN <<>> ELSE Grown(g[i - 1], s[i], least)]
    OBVIOUS
  <2>2. IsPassing(g, s, from, least, 0)
    BY <2>1 DEF IsPassing
  <2> QED
    BY <1>2, <1>3, <2>2
<1>4. CASE m # 0
  <2>1. m - 1 \in Nat /\ m - 1 \notin T
    BY <1>1, <1>2, <1>4
  <2>2. PICK h : IsPassing(h, s, from, least, m - 1)
    BY <2>1
  <2> DEFINE g == [i \in 0 .. m |->
                     IF i <= from THEN <<>> ELSE Grown(h[i - 1], s[i], least)]
  <2>3. ASSUME NEW i \in 0 .. m - 1
        PROVE  g[i] = h[i]
    <3>1. i \in 0 .. m
      BY <1>2
    <3>2. g[i] = IF i <= from THEN <<>> ELSE Grown(h[i - 1], s[i], least)
      BY <3>1
    <3>3. h[i] = IF i <= from THEN <<>> ELSE Grown(h[i - 1], s[i], least)
      BY <2>2 DEF IsPassing
    <3> QED
      BY <3>2, <3>3
  <2>4. ASSUME NEW i \in 0 .. m, ~ (i <= from)
        PROVE  g[i - 1] = h[i - 1]
    <3>1. i - 1 \in 0 .. m - 1
      BY <1>2, <2>4
    <3> HIDE DEF g
    <3> QED
      BY <2>3, <3>1
  <2>5. g = [i \in 0 .. m |-> IF i <= from THEN <<>> ELSE Grown(g[i - 1], s[i], least)]
    <3> DEFINE k == [i \in 0 .. m |-> IF i <= from THEN <<>> ELSE Grown(g[i - 1], s[i], least)]
    <3>1. \A i \in 0 .. m : g[i] = k[i]
      <4> TAKE i \in 0 .. m
      <4>1. g[i] = IF i <= from THEN <<>> ELSE Grown(h[i - 1], s[i], least)
        OBVIOUS
      <4>2. k[i] = IF i <= from THEN <<>> ELSE Grown(g[i - 1], s[i], least)
        BY Zenon
      <4> HIDE DEF g, k
      <4> QED
        BY <2>4, <4>1, <4>2
    <3>2. DOMAIN g = 0 .. m /\ DOMAIN k = 0 .. m /\ g = [i \in 0 .. m |-> g[i]] /\ k = [i \in 0 .. m |-> k[i]]
      OBVIOUS
    <3> HIDE DEF g, k
    <3>3. g = k
      BY <3>1, <3>2
    <3> QED
      BY <3>3 DEF k
  <2> HIDE DEF g
  <2>6. IsPassing(g, s, from, least, m)
    BY <2>5 DEF IsPassing
  <2> QED
    BY <1>2, <2>6
<1> QED
  BY <1>3, <1>4

\* Two of them agree as far as their entries do.
LEMMA PassingAgrees ==
    ASSUME NEW s, NEW t, NEW from \in Nat, NEW least, NEW m \in Nat, NEW n \in Nat,
           m <= n, \A i \in 1 .. m : s[i] = t[i],
           NEW g, NEW h, IsPassing(g, s, from, least, m), IsPassing(h, t, from, least, n)
    PROVE  \A i \in 0 .. m : g[i] = h[i]
<1> DEFINE T == {i \in 0 .. m : g[i] # h[i]}
<1> SUFFICES ASSUME T # {}
             PROVE  FALSE
  OBVIOUS
<1>1. PICK i \in T : \A k \in T : i <= k
  <2>1. T \in SUBSET Nat
    OBVIOUS
  <2> HIDE DEF T
  <2> QED
    BY <2>1, SmallestOf
<1>2. i \in 0 .. m /\ i \in 0 .. n /\ g[i] # h[i]
  BY <1>1
<1>3. g[i] = IF i <= from THEN <<>> ELSE Grown(g[i - 1], s[i], least)
  BY <1>2 DEF IsPassing
<1>4. h[i] = IF i <= from THEN <<>> ELSE Grown(h[i - 1], t[i], least)
  BY <1>2 DEF IsPassing
<1>5. ~ (i <= from)
  BY <1>2, <1>3, <1>4
<1>6. i \in 1 .. m /\ i - 1 \in 0 .. m /\ i - 1 \notin T
  BY <1>1, <1>2, <1>5
<1>7. g[i - 1] = h[i - 1] /\ s[i] = t[i]
  BY <1>6
<1> QED
  BY <1>2, <1>3, <1>4, <1>7

\* PassingAfter is the last value of such a function.
LEMMA PassingIs ==
    ASSUME NEW s, NEW from \in Nat, NEW least, Len(s) \in Nat
    PROVE  \E g : IsPassing(g, s, from, least, Len(s)) /\ PassingAfter(from, s, least) = g[Len(s)]
<1> DEFINE passing == CHOOSE g : IsPassing(g, s, from, least, Len(s))
<1>1. PassingAfter(from, s, least) = passing[Len(s)]
  BY Zenon DEF PassingAfter, IsPassing, Grown
<1>2. IsPassing(passing, s, from, least, Len(s))
  BY PassingExists, Zenon
<1> QED
  BY <1>1, <1>2

\* Nothing has passed as long as there are no entries behind the first ones.
LEMMA PassingNone ==
    ASSUME NEW s, NEW from \in Nat, NEW least, Len(s) \in Nat, Len(s) <= from
    PROVE  PassingAfter(from, s, least) = <<>>
<1>1. PICK g : IsPassing(g, s, from, least, Len(s)) /\ PassingAfter(from, s, least) = g[Len(s)]
  BY PassingIs
<1> QED
  BY <1>1 DEF IsPassing

\* One more entry is one more that passes, or none.
LEMMA PassingAppend ==
    ASSUME NEW S, NEW s \in Seq(S), NEW e \in S, NEW from \in 0 .. Len(s), NEW least
    PROVE  PassingAfter(from, Append(s, e), least) = Grown(PassingAfter(from, s, least), e, least)
<1> DEFINE t == Append(s, e)
           n == Len(s)
<1>1. /\ n \in Nat /\ from \in Nat /\ Len(t) = n + 1 /\ t[n + 1] = e
      /\ \A i \in 1 .. n : s[i] = t[i]
  OBVIOUS
<1> HIDE DEF t
<1>2. PICK g : IsPassing(g, s, from, least, n) /\ PassingAfter(from, s, least) = g[n]
  BY <1>1, PassingIs
<1>3. PICK h : IsPassing(h, t, from, least, n + 1) /\ PassingAfter(from, t, least) = h[n + 1]
  <2>1. n + 1 \in Nat
    BY <1>1
  <2> QED
    BY <1>1, <2>1, PassingIs
<1>4. h[n + 1] = Grown(h[n], t[n + 1], least)
  <2>1. n + 1 \in 0 .. n + 1 /\ ~ (n + 1 <= from) /\ n + 1 - 1 = n
    BY <1>1
  <2> DEFINE k == n + 1
  <2> HIDE DEF k
  <2>2. h[k] = IF k <= from THEN <<>> ELSE Grown(h[k - 1], t[k], least)
    <3>1. k \in 0 .. n + 1
      BY <2>1 DEF k
    <3>2. h = [i \in 0 .. n + 1 |-> IF i <= from THEN <<>> ELSE Grown(h[i - 1], t[i], least)]
      BY <1>3, Zenon DEF IsPassing
    <3> HIDE DEF n
    <3> QED
      BY <3>1, <3>2, Zenon
  <2>3. k = n + 1 /\ k - 1 = n /\ ~ (k <= from)
    BY <2>1 DEF k
  <2> HIDE DEF n
  <2> QED
    BY <2>2, <2>3, Zenon
<1>5. g[n] = h[n]
  <2> DEFINE k == n + 1
  <2>1. k \in Nat /\ n <= k /\ n \in 0 .. n
    BY <1>1
  <2>2. IsPassing(h, t, from, least, k)
    BY <1>3
  <2> HIDE DEF n, k
  <2>3. \A i \in 0 .. n : g[i] = h[i]
    BY <1>1, <1>2, <2>1, <2>2, PassingAgrees
  <2> QED
    BY <2>1, <2>3
<1> QED
  BY <1>1, <1>2, <1>3, <1>4, <1>5 DEF t
-----------------------------------------------------------------------------
(* Lemmas on steps and file loggers *)

Positions == {"idle", "lock", "files", "warn", "remove", "clear"}

\* A step of a thread moves it alone.
LEMMA Moves ==
    ASSUME pc \in [Threads -> Positions], NEW t \in Threads, NEW from, NEW to \in Positions,
           Step(t, from, to)
    PROVE  /\ pc' \in [Threads -> Positions]
           /\ pc[t] = from /\ pc'[t] = to
           /\ \A u \in Threads \ {t} : pc'[u] = pc[u]
           /\ fault' = fault
  BY DEF Step

-----------------------------------------------------------------------------

(***************************************************************************)
(* Typing.  A position in the file loggers is within their bound because   *)
(* there are no more of them than were added.                              *)
(***************************************************************************)
LEMMA TypeInductive == TypeOK /\ Numbered /\ Logging /\ [Next]_vars => TypeOK'
<1> SUFFICES ASSUME TypeOK, Numbered, Logging, [Next]_vars
             PROVE  TypeOK'
  OBVIOUS
<1> USE LoggerAssumption
<1>0. pc \in [Threads -> Positions]
  BY DEF TypeOK, Positions
<1>1. ASSUME NEW t \in Threads, NEW from, NEW severity \in Severities, Enter(t, from, severity)
      PROVE  /\ pc' \in [Threads -> Positions]
             /\ entry' \in [Threads -> Entries \cup {NoEntry}]
             /\ UNCHANGED <<files, loggermutex, it, added, removals, order, fault>>
  <2>1. PICK time \in Times :
               entry' = [entry EXCEPT ![t] = [severity |-> severity, time |-> time, by |-> t]]
    BY <1>1 DEF Enter
  <2>2. [severity |-> severity, time |-> time, by |-> t] \in Entries
    BY DEF Entries
  <2>3. entry' \in [Threads -> Entries \cup {NoEntry}]
    BY <2>1, <2>2 DEF TypeOK
  <2>4. pc' \in [Threads -> Positions] /\ fault' = fault
    BY <1>0, <1>1, Moves DEF Enter, Positions
  <2> QED
    BY <1>1, <2>3, <2>4 DEF Enter
<1>2. ASSUME NEW t \in Threads, NEW severity \in Severities, Log(t, severity)
      PROVE  TypeOK'
  <2>1. logs' \in 0 .. MaxLogs
    BY <1>2 DEF Log, TypeOK
  <2> QED
    BY <1>1, <1>2, <2>1 DEF Log, TypeOK, Positions, files
<1>3. ASSUME NEW t \in Threads, Warn(t) \/ IndexOutOfRange(t)
      PROVE  TypeOK'
  BY <1>1, <1>3 DEF Warn, IndexOutOfRange, TypeOK, Positions, files
<1>4. ASSUME NEW t \in Threads, Lock(t)
      PROVE  TypeOK'
  <2>1. pc[t] = "lock" /\ pc' \in [Threads -> Positions] /\ fault' = fault
    BY <1>0, <1>4, Moves DEF Lock, Write, Positions
  <2>2. entry[t] \in Entries
    BY <2>1 DEF Logging
  <2>3. order' \in Seq(Entries)
    BY <1>4, <2>2 DEF Lock, Write, TypeOK
  <2>4. it' \in [Threads -> 1 .. MaxFiles + 1]
    BY <1>4 DEF Lock, Write, TypeOK
  <2> QED
    BY <1>4, <2>1, <2>3, <2>4 DEF Lock, Write, TypeOK, Positions, files, bounded
<1>5. ASSUME NEW t \in Threads, WriteFile(t)
      PROVE  TypeOK'
  <2> DEFINE f == fileloggers[it[t]]
  <2>1. pc[t] = "files" /\ pc' \in [Threads -> Positions] /\ fault' = fault
    BY <1>0, <1>5, Moves DEF WriteFile, Positions
  <2>2. /\ it[t] \in 1 .. Len(fileloggers) /\ it' = [it EXCEPT ![t] = it[t] + 1]
        /\ Len(fileloggers) \in Nat /\ Len(fileloggers) <= added /\ added <= MaxFiles
    BY <1>5 DEF WriteFile, TypeOK, Numbered
  <2>3. it' \in [Threads -> 1 .. MaxFiles + 1]
    BY <2>2, SMTT(30) DEF TypeOK
  <2>4. f \in 1 .. Len(filelog)
    BY <2>2 DEF Numbered
  <2>5. entry[t] \in Entries
    BY <2>1 DEF Logging
  <2> HIDE DEF f
  <2>6. /\ filelog[f] \in [severity : FileSeverities, entries : Seq(Entries)]
        /\ filelog[f].entries \in Seq(Entries)
    <3>1. filelog \in Seq([severity : FileSeverities, entries : Seq(Entries)])
      BY DEF TypeOK
    <3>2. filelog[f] \in [severity : FileSeverities, entries : Seq(Entries)]
      BY <2>4, <3>1, ElementOfSeq
    <3> QED
      BY <3>2
  <2>7. Append(filelog[f].entries, entry[t]) \in Seq(Entries)
    BY <2>5, <2>6
  <2>8. [filelog[f] EXCEPT !.entries = Append(filelog[f].entries, entry[t])]
          \in [severity : FileSeverities, entries : Seq(Entries)]
    BY <2>6, <2>7
  <2>9. filelog' \in Seq([severity : FileSeverities, entries : Seq(Entries)])
    <3>1. filelog \in Seq([severity : FileSeverities, entries : Seq(Entries)])
      BY DEF TypeOK
    <3>2. CASE filelog' = filelog
      BY <3>1, <3>2
    <3>3. CASE filelog' = [filelog EXCEPT ![f] =
                 [filelog[f] EXCEPT !.entries = Append(filelog[f].entries, entry[t])]]
      BY <2>4, <2>8, <3>1, <3>3, ExceptSeq, SMTT(30)
    <3> QED
      BY <1>5, <3>2, <3>3, Zenon DEF WriteFile, f
  <2> QED
    BY <1>5, <2>1, <2>3, <2>9 DEF WriteFile, TypeOK, Positions, bounded
<1>6. ASSUME NEW t \in Threads, Unlock(t)
      PROVE  TypeOK'
  <2>1. pc' \in [Threads -> Positions] /\ fault' = fault
    BY <1>0, <1>6, Moves DEF Unlock, Positions
  <2>2. entry' \in [Threads -> Entries \cup {NoEntry}]
    BY <1>6 DEF Unlock, TypeOK
  <2> QED
    BY <1>6, <2>1, <2>2 DEF Unlock, TypeOK, Positions, files, bounded
<1>7. ASSUME NEW t \in Threads, NEW severity \in FileSeverities, AddFileLogger(t, severity)
      PROVE  TypeOK'
  <2>1. pc' \in [Threads -> Positions] /\ fault' = fault
    BY <1>0, <1>7, Moves DEF AddFileLogger, Positions
  <2>2. added' \in 0 .. MaxFiles /\ added + 1 \in 1 .. MaxFiles
    BY <1>7 DEF AddFileLogger, TypeOK
  <2>3. fileloggers' \in Seq(1 .. MaxFiles)
    BY <1>7, <2>2 DEF AddFileLogger, TypeOK
  <2>4. [severity |-> severity, entries |-> <<>>]
          \in [severity : FileSeverities, entries : Seq(Entries)]
    OBVIOUS
  <2>5. filelog' \in Seq([severity : FileSeverities, entries : Seq(Entries)])
    BY <1>7, <2>4 DEF AddFileLogger, TypeOK
  <2>6. since' \in Seq(Nat)
    BY <1>7 DEF AddFileLogger, TypeOK
  <2> QED
    BY <1>7, <2>1, <2>2, <2>3, <2>5, <2>6 DEF AddFileLogger, TypeOK, Positions
<1>8. ASSUME NEW t \in Threads, BeginRemove(t) \/ BeginClear(t)
       PROVE  TypeOK'
  <2>1. pc' \in [Threads -> Positions] /\ fault' = fault
    BY <1>0, <1>8, Moves DEF BeginRemove, BeginClear, Positions
  <2>2. removals' \in 0 .. MaxRemovals
    BY <1>8 DEF BeginRemove, BeginClear, TypeOK
  <2> QED
    BY <1>8, <2>1, <2>2 DEF BeginRemove, BeginClear, TypeOK, Positions, files
<1>9. ASSUME NEW t \in Threads, NEW index \in 1 .. MaxFiles, EndRemove(t, index)
       PROVE  TypeOK'
  <2>1. pc' \in [Threads -> Positions] /\ fault' = fault
    BY <1>0, <1>9, Moves DEF EndRemove, Positions
  <2>2. index \in 1 .. Len(fileloggers) /\ fileloggers' = RemoveAt(fileloggers, index)
    BY <1>9 DEF EndRemove, TypeOK
  <2>3. fileloggers' \in Seq(1 .. MaxFiles)
    BY <2>2, RemoveAtIs DEF TypeOK
  <2> QED
    BY <1>9, <2>1, <2>3 DEF EndRemove, TypeOK, Positions, bounded
<1>10. ASSUME NEW t \in Threads, EndClear(t)
       PROVE  TypeOK'
  <2>1. pc' \in [Threads -> Positions] /\ fault' = fault
    BY <1>0, <1>10, Moves DEF EndClear, Positions
  <2> QED
    BY <1>10, <2>1 DEF EndClear, TypeOK, Positions, bounded
<1>11. ASSUME NEW t \in Threads, Race(t)
       PROVE  TypeOK'
  <2>1. fault' \in BOOLEAN
    BY <1>11, Zenon DEF Race
  <2> QED
    BY <1>11, <2>1 DEF Race, TypeOK, files, bounded
<1>12. CASE UNCHANGED vars
  BY <1>12 DEF vars, TypeOK, files, bounded
<1> QED
  BY <1>2, <1>3, <1>4, <1>5, <1>6, <1>7, <1>8, <1>9, <1>10, <1>11, <1>12
     DEF Next, Proceed
-----------------------------------------------------------------------------
(* The invariant is kept *)

\* What changes the file loggers, the histories, or who goes through them.
LEMMA WhoWrites ==
    ASSUME TypeOK, [Next]_vars
    PROVE  \/ /\ UNCHANGED <<files, order, it, loggermutex, added>>
              /\ \/ UNCHANGED <<pc, entry>>
                 \/ \E t \in Threads :
                      /\ pc[t] # "files" /\ pc'[t] # "files"
                      /\ \A u \in Threads \ {t} : pc'[u] = pc[u] /\ entry'[u] = entry[u]
           \/ \E t \in Threads :
                \/ Lock(t) \/ WriteFile(t) \/ Unlock(t) \/ EndClear(t)
                \/ \E index \in 1 .. MaxFiles : EndRemove(t, index)
                \/ \E severity \in FileSeverities : AddFileLogger(t, severity)
<1> USE DEF Positions
<1>0. pc \in [Threads -> Positions] /\ entry \in [Threads -> Entries \cup {NoEntry}]
  BY DEF TypeOK
<1>1. CASE UNCHANGED vars \/ \E t \in Threads : Race(t)
  BY <1>1 DEF vars, Race, bounded
<1>2. ASSUME NEW t \in Threads,
             (\E severity \in Severities : Log(t, severity)) \/ Warn(t) \/ IndexOutOfRange(t)
      PROVE  /\ UNCHANGED <<files, order, it, loggermutex, added>>
             /\ pc[t] # "files" /\ pc'[t] # "files"
             /\ \A u \in Threads \ {t} : pc'[u] = pc[u] /\ entry'[u] = entry[u]
  <2>1. PICK from, severity : Enter(t, from, severity) /\ from \in {"idle", "warn", "remove"}
    BY <1>2 DEF Log, Warn, IndexOutOfRange
  <2>2. /\ pc[t] # "files" /\ pc'[t] # "files"
        /\ \A u \in Threads \ {t} : pc'[u] = pc[u]
    BY <1>0, <2>1, Moves DEF Enter
  <2> QED
    BY <1>0, <2>1, <2>2 DEF Enter
<1>3. ASSUME NEW t \in Threads, BeginRemove(t) \/ BeginClear(t)
      PROVE  /\ UNCHANGED <<files, order, it, loggermutex, added>>
             /\ pc[t] # "files" /\ pc'[t] # "files"
             /\ \A u \in Threads \ {t} : pc'[u] = pc[u] /\ entry'[u] = entry[u]
  <2>1. /\ pc[t] # "files" /\ pc'[t] # "files"
        /\ \A u \in Threads \ {t} : pc'[u] = pc[u]
    BY <1>0, <1>3, Moves DEF BeginRemove, BeginClear
  <2> QED
    BY <1>0, <1>3, <2>1 DEF BeginRemove, BeginClear, bounded
<1> QED
  BY <1>1, <1>2, <1>3 DEF Next, Proceed

\* Taking the mutex and giving it back keeps it with the thread in the file loggers.
LEMMA MutexInductive ==
    ASSUME TypeOK, MutexHeld, [Next]_vars
    PROVE  MutexHeld'
<1> USE LoggerAssumption DEF MutexHeld, Positions
<1>0. pc \in [Threads -> Positions]
  BY DEF TypeOK
<1>1. CASE /\ UNCHANGED <<files, order, it, loggermutex, added>>
           /\ \/ UNCHANGED <<pc, entry>>
              \/ \E t \in Threads :
                   /\ pc[t] # "files" /\ pc'[t] # "files"
                   /\ \A u \in Threads \ {t} : pc'[u] = pc[u] /\ entry'[u] = entry[u]
  BY <1>1
<1>2. ASSUME NEW t \in Threads, Lock(t)
      PROVE  MutexHeld'
  BY <1>0, <1>2, Moves DEF Lock, Write
<1>3. ASSUME NEW t \in Threads, Unlock(t)
      PROVE  MutexHeld'
  BY <1>0, <1>3, Moves DEF Unlock
<1>4. ASSUME NEW t \in Threads, WriteFile(t)
      PROVE  MutexHeld'
  BY <1>0, <1>4, Moves DEF WriteFile
<1>5. ASSUME NEW t \in Threads, EndClear(t)
      PROVE  MutexHeld'
  BY <1>0, <1>5, Moves DEF EndClear
<1>6. ASSUME NEW t \in Threads, NEW index, EndRemove(t, index)
      PROVE  MutexHeld'
  BY <1>0, <1>6, Moves DEF EndRemove
<1>7. ASSUME NEW t \in Threads, NEW severity, AddFileLogger(t, severity)
      PROVE  MutexHeld'
  BY <1>0, <1>7, Moves DEF AddFileLogger
<1> QED
  BY <1>1, <1>2, <1>3, <1>4, <1>5, <1>6, <1>7, WhoWrites

\* Adding and removing file loggers keeps their numbers in order.
LEMMA NumberedInductive ==
    ASSUME TypeOK, Numbered, [Next]_vars
    PROVE  Numbered'
<1>1. ASSUME UNCHANGED <<fileloggers, since, added>>,
             Len(filelog') = Len(filelog), Len(order) <= Len(order'), Len(order') \in Nat
      PROVE  Numbered'
  <2>1. ASSUME NEW f \in 1 .. added
        PROVE  since[f] <= Len(order')
    <3>1. since[f] \in Nat /\ since[f] <= Len(order) /\ Len(order) \in Nat
      BY DEF Numbered, TypeOK
    <3> QED
      BY <1>1, <3>1
  <2> QED
    BY <1>1, <2>1 DEF Numbered
<1>2. /\ Len(order) \in Nat /\ Len(filelog) \in Nat /\ Len(since) \in Nat
      /\ Len(fileloggers) \in Nat /\ added \in Nat
  BY DEF TypeOK
<1>3. CASE UNCHANGED <<files, order, it, loggermutex, added>>
  BY <1>1, <1>2, <1>3 DEF files
<1>4. ASSUME NEW t \in Threads, Lock(t)
      PROVE  Numbered'
  <2>1. Len(order') = Len(order) + 1
    BY <1>4 DEF Lock, Write, TypeOK
  <2> QED
    BY <1>1, <1>2, <1>4, <2>1 DEF Lock, Write, files, bounded
<1>5. ASSUME NEW t \in Threads, Unlock(t)
      PROVE  Numbered'
  BY <1>1, <1>2, <1>5 DEF Unlock, files, bounded
<1>6. ASSUME NEW t \in Threads, WriteFile(t)
      PROVE  Numbered'
  <2>1. Len(filelog') = Len(filelog)
    <3>1. CASE filelog' = filelog
      BY <3>1
    <3>2. CASE filelog' = [filelog EXCEPT ![fileloggers[it[t]]].entries = Append(@, entry[t])]
      BY <3>2 DEF TypeOK
    <3> QED
      BY <1>6, <3>1, <3>2 DEF WriteFile
  <2> QED
    BY <1>1, <1>2, <1>6, <2>1 DEF WriteFile, bounded
<1>7. ASSUME NEW t \in Threads, EndClear(t)
      PROVE  Numbered'
  <2>1. fileloggers' = <<>> /\ UNCHANGED <<filelog, since, added, order>>
    BY <1>7 DEF EndClear, bounded
  <2>2. Len(fileloggers') = 0
    BY <2>1
  <2> QED
    BY <1>2, <2>1, <2>2 DEF Numbered
<1>8. ASSUME NEW t \in Threads, NEW index \in 1 .. MaxFiles, EndRemove(t, index)
      PROVE  Numbered'
  <2>1. /\ index \in 1 .. Len(fileloggers) /\ fileloggers' = RemoveAt(fileloggers, index)
        /\ UNCHANGED <<filelog, since, added, order>>
    BY <1>2, <1>8 DEF EndRemove, bounded
  <2>2. /\ Len(fileloggers') = Len(fileloggers) - 1
        /\ \A i \in 1 .. Len(fileloggers) - 1 :
             fileloggers'[i] = IF i < index THEN fileloggers[i] ELSE fileloggers[i + 1]
    BY <2>1, RemoveAtIs DEF TypeOK
  <2>3. ASSUME NEW i \in 1 .. Len(fileloggers')
        PROVE  fileloggers'[i] \in 1 .. added
    <3>1. i \in 1 .. Len(fileloggers) /\ i + 1 \in 1 .. Len(fileloggers)
      BY <1>2, <2>2
    <3> QED
      BY <1>2, <2>2, <3>1 DEF Numbered
  <2>4. ASSUME NEW i \in 1 .. Len(fileloggers'), NEW j \in 1 .. Len(fileloggers'), i < j
        PROVE  fileloggers'[i] < fileloggers'[j]
    <3>1. /\ i \in 1 .. Len(fileloggers) /\ i + 1 \in 1 .. Len(fileloggers)
          /\ j \in 1 .. Len(fileloggers) /\ j + 1 \in 1 .. Len(fileloggers)
          /\ i < j + 1 /\ i + 1 < j + 1 /\ (j < index => i < index)
      BY <1>2, <2>1, <2>2, <2>4
    <3>2. /\ fileloggers[i] < fileloggers[j] /\ fileloggers[i] < fileloggers[j + 1]
          /\ fileloggers[i + 1] < fileloggers[j + 1]
      BY <2>4, <3>1 DEF Numbered
    <3> QED
      BY <1>2, <2>2, <3>1, <3>2
  <2>5. Len(fileloggers') <= added
    BY <1>2, <2>2 DEF Numbered
  <2> QED
    BY <2>1, <2>3, <2>4, <2>5 DEF Numbered
<1>9. ASSUME NEW t \in Threads, NEW severity, AddFileLogger(t, severity)
      PROVE  Numbered'
  <2> DEFINE r == [severity |-> severity, entries |-> <<>>]
  <2>1. /\ added' = added + 1 /\ order' = order
        /\ fileloggers' = Append(fileloggers, added + 1)
        /\ filelog' = Append(filelog, r) /\ since' = Append(since, Len(order))
    BY <1>9 DEF AddFileLogger
  <2> HIDE DEF r
  <2>2. /\ Len(filelog') = Len(filelog) + 1 /\ Len(since') = Len(since) + 1
        /\ \A f \in 1 .. Len(since) : since'[f] = since[f]
        /\ since'[Len(since) + 1] = Len(order)
    BY <2>1 DEF TypeOK
  <2>3. /\ Len(fileloggers') = Len(fileloggers) + 1
        /\ \A i \in 1 .. Len(fileloggers) : fileloggers'[i] = fileloggers[i]
        /\ fileloggers'[Len(fileloggers) + 1] = added + 1
    BY <2>1 DEF TypeOK
  <2>4. ASSUME NEW i \in 1 .. Len(fileloggers')
        PROVE  fileloggers'[i] \in 1 .. added'
    BY <1>2, <2>1, <2>3 DEF Numbered
  <2>5. ASSUME NEW i \in 1 .. Len(fileloggers'), NEW j \in 1 .. Len(fileloggers'), i < j
        PROVE  fileloggers'[i] < fileloggers'[j]
    <3>1. i \in 1 .. Len(fileloggers) /\ fileloggers'[i] = fileloggers[i]
      BY <1>2, <2>3, <2>5
    <3>2. CASE j = Len(fileloggers) + 1
      BY <1>2, <2>3, <3>1, <3>2 DEF Numbered
    <3>3. CASE j \in 1 .. Len(fileloggers)
      BY <2>3, <2>5, <3>1, <3>3 DEF Numbered
    <3> QED
      BY <1>2, <2>3, <3>2, <3>3
  <2>6. ASSUME NEW f \in 1 .. added'
        PROVE  since'[f] <= Len(order')
    <3>1. CASE f = added + 1
      BY <1>2, <2>1, <2>2, <3>1 DEF Numbered
    <3>2. CASE f \in 1 .. added
      BY <2>1, <2>2, <3>2 DEF Numbered
    <3>3. f = added + 1 \/ f \in 1 .. added
      BY <1>2, <2>1
    <3> QED
      BY <3>1, <3>2, <3>3, Zenon
  <2>7. /\ Len(filelog') = added' /\ Len(since') = added'
        /\ Len(fileloggers') <= added'
    BY <1>2, <2>1, <2>2, <2>3 DEF Numbered
  <2> QED
    BY <2>4, <2>5, <2>6, <2>7 DEF Numbered
<1> QED
  BY <1>3, <1>4, <1>5, <1>6, <1>7, <1>8, <1>9, WhoWrites

\* A thread comes to the mutex with an entry, and keeps it until it has given the
\* mutex back.
LEMMA LoggingInductive ==
    ASSUME TypeOK, Logging, [Next]_vars
    PROVE  Logging'
<1> USE DEF Positions
<1>0. pc \in [Threads -> Positions] /\ entry \in [Threads -> Entries \cup {NoEntry}]
  BY DEF TypeOK
<1>1. ASSUME NEW t \in Threads,
             \A u \in Threads \ {t} : pc'[u] = pc[u] /\ entry'[u] = entry[u],
             pc'[t] \in {"lock", "files"} => entry'[t] \in Entries
      PROVE  Logging'
  BY <1>1 DEF Logging
<1>2. ASSUME NEW t \in Threads, NEW from, NEW severity \in Severities, Enter(t, from, severity)
      PROVE  Logging'
  <2>1. PICK time \in Times :
               entry' = [entry EXCEPT ![t] = [severity |-> severity, time |-> time, by |-> t]]
    BY <1>2 DEF Enter
  <2>2. [severity |-> severity, time |-> time, by |-> t] \in Entries
    BY DEF Entries
  <2>3. entry'[t] \in Entries /\ \A u \in Threads \ {t} : entry'[u] = entry[u]
    BY <1>0, <2>1, <2>2
  <2>4. \A u \in Threads \ {t} : pc'[u] = pc[u]
    BY <1>0, <1>2, Moves DEF Enter
  <2> QED
    BY <1>1, <2>3, <2>4
<1>3. ASSUME NEW t \in Threads,
             (\E severity \in Severities : Log(t, severity)) \/ Warn(t) \/ IndexOutOfRange(t)
      PROVE  Logging'
  BY <1>2, <1>3, LoggerAssumption DEF Log, Warn, IndexOutOfRange
<1>4. ASSUME NEW t \in Threads, Lock(t) \/ WriteFile(t)
      PROVE  Logging'
  <2>1. /\ pc[t] \in {"lock", "files"} /\ entry' = entry
        /\ \A u \in Threads \ {t} : pc'[u] = pc[u]
    BY <1>0, <1>4, Moves DEF Lock, Write, WriteFile
  <2> QED
    BY <1>1, <2>1 DEF Logging
<1>5. ASSUME NEW t \in Threads, Unlock(t)
      PROVE  Logging'
  <2>1. /\ pc'[t] = "idle"
        /\ \A u \in Threads \ {t} : pc'[u] = pc[u]
    BY <1>0, <1>5, Moves DEF Unlock
  <2>2. \A u \in Threads \ {t} : entry'[u] = entry[u]
    BY <1>0, <1>5 DEF Unlock
  <2> QED
    BY <1>1, <2>1, <2>2
<1>6. ASSUME NEW t \in Threads, NEW to \in {"idle", "warn", "remove", "clear"}, NEW from,
             Step(t, from, to), entry' = entry
      PROVE  Logging'
  <2>1. pc'[t] = to /\ \A u \in Threads \ {t} : pc'[u] = pc[u]
    BY <1>0, <1>6, Moves
  <2> QED
    BY <1>1, <1>6, <2>1
<1>7. ASSUME NEW t \in Threads, BeginRemove(t) \/ BeginClear(t) \/ EndClear(t)
      PROVE  Logging'
  BY <1>6, <1>7 DEF BeginRemove, BeginClear, EndClear
<1>8. ASSUME NEW t \in Threads,
             \/ \E index \in 1 .. MaxFiles : EndRemove(t, index)
             \/ \E severity \in FileSeverities : AddFileLogger(t, severity)
      PROVE  Logging'
  BY <1>6, <1>8 DEF EndRemove, AddFileLogger
<1>9. CASE UNCHANGED vars \/ \E t \in Threads : Race(t)
  <2>1. UNCHANGED <<pc, entry>>
    BY <1>9 DEF vars, Race
  <2> QED
    BY <2>1 DEF Logging
<1> QED
  BY <1>3, <1>4, <1>5, <1>7, <1>8, <1>9 DEF Next, Proceed

\* The files: an entry that is written becomes due in every one of them at once, and
\* each gets it as the thread comes to it, once because no file logger has two places.
LEMMA WrittenInductive ==
    ASSUME TypeOK, Numbered, MutexHeld, Logging, Written, [Next]_vars
    PROVE  Written'
<1> USE DEF Positions
<1>0. /\ pc \in [Threads -> Positions] /\ entry \in [Threads -> Entries \cup {NoEntry}]
      /\ it \in [Threads -> 1 .. MaxFiles + 1] /\ MaxFiles \in Nat
      /\ Len(fileloggers) \in Nat /\ Len(order) \in Nat /\ added \in Nat
  BY LoggerAssumption DEF TypeOK
<1>1. ASSUME UNCHANGED <<files, order, it>>,
             \A u \in Threads : /\ pc'[u] = "files" <=> pc[u] = "files"
                                /\ pc[u] = "files" => entry'[u] = entry[u]
      PROVE  Written'
  <2>1. ASSUME NEW i \in 1 .. Len(fileloggers)
        PROVE  WrittenTo(fileloggers[i], i)'
    <3>1. WrittenTo(fileloggers[i], i)
      BY DEF Written
    <3>2. /\ fileloggers' = fileloggers /\ filelog' = filelog /\ it' = it
          /\ Due(fileloggers[i])' = Due(fileloggers[i])
      BY <1>1 DEF files, Due
    <3> QED
      BY <1>1, <3>1, <3>2 DEF WrittenTo
  <2> QED
    BY <1>1, <2>1 DEF Written, files
<1>2. ASSUME \A u \in Threads : pc[u] # "files"
      PROVE  \A i \in 1 .. Len(fileloggers) : Due(fileloggers[i]) = filelog[fileloggers[i]].entries
  BY <1>2 DEF Written, WrittenTo
<1>3. ASSUME \A u \in Threads : pc'[u] # "files",
             \A i \in 1 .. Len(fileloggers') :
                 Due(fileloggers[i])' = filelog'[fileloggers'[i]].entries
      PROVE  Written'
  BY <1>3 DEF Written, WrittenTo
<1>4. CASE /\ UNCHANGED <<files, order, it, loggermutex, added>>
           /\ \/ UNCHANGED <<pc, entry>>
              \/ \E t \in Threads :
                   /\ pc[t] # "files" /\ pc'[t] # "files"
                   /\ \A u \in Threads \ {t} : pc'[u] = pc[u] /\ entry'[u] = entry[u]
  BY <1>1, <1>4
<1>5. ASSUME NEW t \in Threads, Lock(t)
      PROVE  Written'
  <2>1. /\ pc[t] = "lock" /\ pc'[t] = "files"
        /\ \A u \in Threads \ {t} : pc'[u] = pc[u]
    BY <1>0, <1>5, Moves DEF Lock, Write
  <2>2. /\ order' = Append(order, entry[t]) /\ it'[t] = 1
        /\ UNCHANGED <<fileloggers, filelog, since, entry>>
    BY <1>0, <1>5 DEF Lock, Write, files
  <2>3. \A u \in Threads : pc[u] # "files"
    BY <1>5, LoggerAssumption DEF Lock, Write, MutexHeld
  <2>4. ASSUME NEW i \in 1 .. Len(fileloggers)
        PROVE  Due(fileloggers[i])'
                 = Grown(Due(fileloggers[i]), entry[t], filelog[fileloggers[i]].severity)
    <3> DEFINE f == fileloggers[i]
    <3>1. f \in 1 .. added /\ since[f] \in 0 .. Len(order)
      <4>1. f \in 1 .. added
        BY DEF Numbered
      <4> HIDE DEF f
      <4>2. since[f] \in Nat /\ since[f] <= Len(order)
        BY <4>1 DEF Numbered, TypeOK
      <4>3. Len(order) \in Nat
        BY <1>0
      <4> QED
        BY <4>1, <4>2, <4>3
    <3>2. order \in Seq(Entries) /\ entry[t] \in Entries
      BY <2>1 DEF TypeOK, Logging
    <3> HIDE DEF f
    <3>3. PassingAfter(since[f], Append(order, entry[t]), filelog[f].severity)
            = Grown(PassingAfter(since[f], order, filelog[f].severity), entry[t],
                    filelog[f].severity)
      BY <3>1, <3>2, PassingAppend
    <3>4. Due(f)' = PassingAfter(since[f], Append(order, entry[t]), filelog[f].severity)
      BY <2>2 DEF Due, f
    <3> QED
      BY <2>2, <3>3, <3>4, Zenon DEF Due, f
  <2>5. ASSUME NEW i \in 1 .. Len(fileloggers)
        PROVE  WrittenTo(fileloggers[i], i)'
    <3>1. Due(fileloggers[i])' = Grown(filelog[fileloggers[i]].entries, entry[t],
                                       filelog[fileloggers[i]].severity)
      BY <1>2, <2>3, <2>4
    <3>2. \A u \in Threads : pc'[u] = "files" => u = t
      BY <2>1, <2>3
    <3>3. pc'[t] = "files" /\ ~ (i < it'[t])
      BY <2>1, <2>2
    <3> QED
      BY <2>2, <3>1, <3>2, <3>3 DEF WrittenTo
  <2> QED
    BY <2>2, <2>5 DEF Written
<1>6. ASSUME NEW t \in Threads, Unlock(t)
      PROVE  Written'
  <2>1. /\ pc[t] = "files" /\ pc'[t] = "idle"
        /\ \A u \in Threads \ {t} : pc'[u] = pc[u]
    BY <1>0, <1>6, Moves DEF Unlock
  <2>2. it[t] > Len(fileloggers) /\ UNCHANGED <<fileloggers, filelog, since, order>>
    BY <1>6 DEF Unlock, files
  <2>3. \A u \in Threads : pc[u] = "files" => u = t
    BY <2>1 DEF MutexHeld
  <2>4. \A u \in Threads : pc'[u] # "files"
    BY <2>1, <2>3
  <2>5. ASSUME NEW i \in 1 .. Len(fileloggers)
        PROVE  Due(fileloggers[i])' = filelog[fileloggers[i]].entries
    <3>1. it[t] \in Nat /\ i < it[t]
      BY <1>0, <2>2
    <3>2. Due(fileloggers[i]) = filelog[fileloggers[i]].entries
      BY <2>3, <3>1 DEF Written, WrittenTo
    <3> QED
      BY <2>2, <3>2 DEF Due
  <2> QED
    BY <1>3, <2>2, <2>4, <2>5
<1>7. ASSUME NEW t \in Threads, WriteFile(t)
      PROVE  Written'
  <2> DEFINE p == it[t]
             w == fileloggers[p]
  <2>1. /\ pc[t] = "files" /\ pc' = pc /\ p \in 1 .. Len(fileloggers)
        /\ it' = [it EXCEPT ![t] = p + 1]
        /\ filelog' = IF Passes(entry[t].severity, filelog[w].severity)
                        THEN [filelog EXCEPT ![w].entries = Append(@, entry[t])] ELSE filelog
        /\ UNCHANGED <<fileloggers, since, entry, order>>
    <3>1. pc[t] = "files" /\ pc' = pc /\ p <= Len(fileloggers)
      BY <1>0, <1>7 DEF WriteFile, Step
    <3>2. p \in 1 .. Len(fileloggers)
      BY <1>0, <3>1
    <3> QED
      BY <1>7, <3>1, <3>2 DEF WriteFile
  <2>2. /\ filelog \in Seq([severity : FileSeverities, entries : Seq(Entries)])
        /\ w \in 1 .. Len(filelog)
    BY <2>1 DEF TypeOK, Numbered
  <2>3. it'[t] = p + 1 /\ \A u \in Threads \ {t} : it'[u] = it[u]
    BY <1>0, <2>1
  <2>4. \A u \in Threads : pc[u] = "files" => u = t
    BY <2>1 DEF MutexHeld
  <2> HIDE DEF w
  <2>5. /\ \A f \in 1 .. Len(filelog) : filelog'[f].severity = filelog[f].severity
        /\ \A f \in 1 .. Len(filelog) : f # w => filelog'[f].entries = filelog[f].entries
        /\ filelog'[w].entries = Grown(filelog[w].entries, entry[t], filelog[w].severity)
    <3>1. CASE Passes(entry[t].severity, filelog[w].severity)
      <4>1. filelog' = [filelog EXCEPT ![w].entries = Append(@, entry[t])]
        BY <2>1, <3>1
      <4> QED
        BY <2>2, <3>1, <4>1 DEF Grown
    <3>2. CASE ~ Passes(entry[t].severity, filelog[w].severity)
      BY <2>1, <3>2 DEF Grown
    <3> QED
      BY <3>1, <3>2
  <2>6. ASSUME NEW i \in 1 .. Len(fileloggers)
        PROVE  WrittenTo(fileloggers[i], i)'
    <3> DEFINE f == fileloggers[i]
    <3>1. f \in 1 .. Len(filelog) /\ (i # p => f # w) /\ (i = p => f = w)
      <4>1. f \in 1 .. Len(filelog) /\ w \in 1 .. Len(filelog)
        BY <2>2 DEF Numbered
      <4>2. CASE i < p
        BY <2>1, <4>1, <4>2 DEF Numbered, w
      <4>3. CASE p < i
        BY <2>1, <4>1, <4>3 DEF Numbered, w
      <4>4. CASE i = p
        BY <4>1, <4>4 DEF w
      <4> QED
        BY <2>1, <4>2, <4>3, <4>4
    <3>2. WrittenTo(f, i) /\ f' = f
      BY <2>1 DEF Written
    <3> HIDE DEF f
    <3>3. Due(f)' = Due(f)
      BY <2>1, <2>5, <3>1, <3>2 DEF Due
    <3>4. CASE i < p
      <4>1. Due(f) = filelog[f].entries
        BY <2>4, <3>2, <3>4 DEF WrittenTo
      <4>2. Due(f)' = filelog'[f].entries
        BY <2>1, <2>5, <3>1, <3>3, <3>4, <4>1
      <4>3. \A u \in Threads : pc'[u] = "files" => ~ (it'[u] <= i)
        BY <2>1, <2>3, <2>4, <3>4
      <4> QED
        BY <3>2, <4>2, <4>3 DEF WrittenTo, f
    <3>5. CASE i = p
      <4>1. Due(f) = Grown(filelog[f].entries, entry[t], filelog[f].severity)
        BY <2>1, <3>2, <3>5 DEF WrittenTo
      <4>2. Due(f)' = filelog'[f].entries
        BY <2>5, <3>1, <3>3, <3>5, <4>1
      <4>3. \A u \in Threads : pc'[u] = "files" => ~ (it'[u] <= i)
        BY <2>1, <2>3, <2>4, <3>5
      <4> QED
        BY <3>2, <4>2, <4>3 DEF WrittenTo, f
    <3>6. CASE p < i
      <4>1. Due(f) = Grown(filelog[f].entries, entry[t], filelog[f].severity)
        BY <2>1, <3>2, <3>6 DEF WrittenTo
      <4>2. Due(f)' = Grown(filelog'[f].entries, entry'[t], filelog'[f].severity)
        BY <2>1, <2>5, <3>1, <3>3, <3>6, <4>1
      <4>3. pc'[t] = "files" /\ ~ (i < it'[t]) /\ \A u \in Threads : pc'[u] = "files" => u = t
        BY <2>1, <2>3, <2>4, <3>6
      <4> QED
        BY <3>2, <4>2, <4>3 DEF WrittenTo, f
    <3> QED
      BY <2>1, <3>4, <3>5, <3>6 DEF f
  <2> QED
    BY <2>1, <2>6 DEF Written
<1>8. ASSUME NEW t \in Threads, EndClear(t)
      PROVE  Written'
  BY <1>8 DEF EndClear, Written
<1>9. ASSUME NEW t \in Threads, NEW index \in 1 .. MaxFiles, EndRemove(t, index)
      PROVE  Written'
  <2>1. /\ pc[t] = "remove" /\ pc'[t] = "idle"
        /\ \A u \in Threads \ {t} : pc'[u] = pc[u]
    BY <1>0, <1>9, Moves DEF EndRemove
  <2>2. /\ index \in 1 .. Len(fileloggers) /\ fileloggers' = RemoveAt(fileloggers, index)
        /\ UNCHANGED <<filelog, since, order>> /\ Alone(t)
    BY <1>0, <1>9 DEF EndRemove
  <2>3. /\ \A u \in Threads : pc[u] # "files"
        /\ \A u \in Threads : pc'[u] # "files"
    BY <2>1, <2>2 DEF Alone
  <2>4. ASSUME NEW i \in 1 .. Len(fileloggers')
        PROVE  \E j \in 1 .. Len(fileloggers) : fileloggers'[i] = fileloggers[j]
    <3>1. /\ Len(fileloggers') = Len(fileloggers) - 1
          /\ \A j \in 1 .. Len(fileloggers) - 1 :
               fileloggers'[j] = IF j < index THEN fileloggers[j] ELSE fileloggers[j + 1]
      BY <2>2, RemoveAtIs DEF TypeOK
    <3>2. i \in 1 .. Len(fileloggers) /\ i + 1 \in 1 .. Len(fileloggers)
      BY <1>0, <3>1
    <3> QED
      BY <3>1, <3>2
  <2>5. ASSUME NEW i \in 1 .. Len(fileloggers')
        PROVE  Due(fileloggers[i])' = filelog'[fileloggers'[i]].entries
    <3>1. PICK j \in 1 .. Len(fileloggers) : fileloggers'[i] = fileloggers[j]
      BY <2>4
    <3>2. Due(fileloggers[j]) = filelog[fileloggers[j]].entries
      BY <1>2, <2>3
    <3> QED
      BY <2>2, <3>1, <3>2 DEF Due
  <2> QED
    BY <1>3, <2>3, <2>5
<1>10. ASSUME NEW t \in Threads, NEW severity, AddFileLogger(t, severity)
       PROVE  Written'
  <2> DEFINE r == [severity |-> severity, entries |-> <<>>]
  <2>1. /\ pc[t] = "idle" /\ pc'[t] = "idle" /\ loggermutex = NoThread
        /\ \A u \in Threads \ {t} : pc'[u] = pc[u]
    BY <1>0, <1>10, Moves DEF AddFileLogger
  <2>2. /\ fileloggers' = Append(fileloggers, added + 1) /\ order' = order
        /\ filelog' = Append(filelog, r) /\ since' = Append(since, Len(order))
    BY <1>10 DEF AddFileLogger
  <2>3. /\ \A u \in Threads : pc[u] # "files"
        /\ \A u \in Threads : pc'[u] # "files"
    BY <2>1, LoggerAssumption DEF MutexHeld
  <2> HIDE DEF r
  <2>4. /\ \A f \in 1 .. added : filelog'[f] = filelog[f] /\ since'[f] = since[f]
        /\ filelog'[added + 1] = r /\ since'[added + 1] = Len(order)
    <3>1. /\ filelog \in Seq([severity : FileSeverities, entries : Seq(Entries)])
          /\ since \in Seq(Nat) /\ Len(filelog) = added /\ Len(since) = added
      BY DEF TypeOK, Numbered
    <3> QED
      BY <2>2, <3>1
  <2>5. /\ Len(fileloggers') = Len(fileloggers) + 1
        /\ \A i \in 1 .. Len(fileloggers) : fileloggers'[i] = fileloggers[i]
        /\ fileloggers'[Len(fileloggers) + 1] = added + 1
    BY <2>2 DEF TypeOK
  <2>6. ASSUME NEW i \in 1 .. Len(fileloggers')
        PROVE  Due(fileloggers[i])' = filelog'[fileloggers'[i]].entries
    <3>1. CASE i = Len(fileloggers) + 1
      <4>1. PassingAfter(Len(order), order, r.severity) = <<>>
        BY <1>0, PassingNone
      <4>2. r.entries = <<>>
        BY DEF r
      <4> QED
        BY <2>2, <2>4, <2>5, <3>1, <4>1, <4>2 DEF Due
    <3>2. CASE i \in 1 .. Len(fileloggers)
      <4>1. fileloggers'[i] = fileloggers[i] /\ fileloggers[i] \in 1 .. added
        BY <2>5, <3>2 DEF Numbered
      <4>2. Due(fileloggers[i]) = filelog[fileloggers[i]].entries
        BY <1>2, <2>3, <3>2
      <4> QED
        BY <2>2, <2>4, <4>1, <4>2 DEF Due
    <3> QED
      BY <1>0, <2>5, <3>1, <3>2
  <2> QED
    BY <1>3, <2>3, <2>6
<1> QED
  BY <1>4, <1>5, <1>6, <1>7, <1>8, <1>9, <1>10, WhoWrites

\* The files of the invariant are those of the property.
LEMMA WrittenGives == IInv => OutputsAgree
<1> SUFFICES ASSUME IInv, NEW i \in 1 .. Len(fileloggers)
             PROVE  LET f == fileloggers[i]
                        written == filelog[f].entries
                    IN  /\ IsPrefix(written, Due(f))
                        /\ Len(Due(f)) <= Len(written) + 1
                        /\ (\A t \in Threads : pc[t] # "files") => written = Due(f)
  BY Zenon DEF OutputsAgree
<1> DEFINE f == fileloggers[i]
           written == filelog[f].entries
<1>1. written \in Seq(Entries)
  <2>1. f \in 1 .. Len(filelog)
    BY DEF IInv, Numbered
  <2>2. filelog \in Seq([severity : FileSeverities, entries : Seq(Entries)])
    BY DEF IInv, TypeOK
  <2> HIDE DEF f
  <2>3. filelog[f] \in [severity : FileSeverities, entries : Seq(Entries)]
    BY <2>1, <2>2, ElementOfSeq
  <2> QED
    BY <2>3
<1>2. WrittenTo(f, i) /\ MutexHeld
  BY DEF IInv, Written
<1>3. /\ it \in [Threads -> 1 .. MaxFiles + 1] /\ MaxFiles \in Nat
  BY LoggerAssumption DEF IInv, TypeOK
<1>4. ASSUME NEW t \in Threads, pc[t] = "files"
      PROVE  entry[t] \in Entries
  BY <1>4 DEF IInv, Logging
<1> HIDE DEF f, written
<1>5. CASE Due(f) = written
  <2>1. IsPrefix(written, written)
    BY <1>1 DEF IsPrefix
  <2> QED
    BY <1>1, <1>5, <2>1 DEF f, written
<1>6. ASSUME NEW t \in Threads, pc[t] = "files", Due(f) = Append(written, entry[t])
      PROVE  IsPrefix(written, Due(f)) /\ Len(Due(f)) <= Len(written) + 1
  <2>1. /\ Len(Due(f)) = Len(written) + 1 /\ Len(written) \in Nat
        /\ Due(f) \in Seq(Entries)
    BY <1>1, <1>4, <1>6
  <2>2. SubSeq(Due(f), 1, Len(written)) = written
    BY <1>1, <1>4, <1>6
  <2> QED
    BY <2>1, <2>2 DEF IsPrefix
<1>7. CASE \A t \in Threads : pc[t] = "files" => i < it[t]
  BY <1>2, <1>5, <1>7 DEF WrittenTo, written
<1>8. ASSUME NEW t \in Threads, pc[t] = "files", ~ (i < it[t])
      PROVE  Due(f) = written \/ Due(f) = Append(written, entry[t])
  <2>1. it[t] <= i
    BY <1>3, <1>8
  <2> QED
    BY <1>2, <1>8, <2>1 DEF WrittenTo, Grown, written
<1> QED
  BY <1>5, <1>6, <1>7, <1>8 DEF f, written

-----------------------------------------------------------------------------
(* The theorems *)

\* The invariant holds of a new logger.
LEMMA InvariantInit == Init => IInv
<1> SUFFICES ASSUME Init
             PROVE  IInv
  OBVIOUS
<1> USE LoggerAssumption DEF Init
<1>1. fault \in BOOLEAN
  BY Zenon
<1>2. TypeOK
  BY <1>1 DEF TypeOK, NoEntry
<1>3. Numbered /\ Written
  BY DEF Numbered, Written
<1>4. MutexHeld /\ Logging
  BY DEF MutexHeld, Logging
<1> QED
  BY <1>2, <1>3, <1>4 DEF IInv

\* Every step of every thread keeps the invariant.
LEMMA InvariantStep == IInv /\ [Next]_vars => IInv'
  BY TypeInductive, NumberedInductive, MutexInductive, LoggingInductive, WrittenInductive
     DEF IInv

\* The invariant holds throughout.
LEMMA Invariance == Spec => []IInv
  BY InvariantInit, InvariantStep, PTL DEF Spec

\* Members and locals of Logger stay within their types.
THEOREM Typing == Spec => []TypeOK
<1>1. IInv => TypeOK
  BY DEF IInv
<1> QED
  BY <1>1, Invariance, PTL

\* However the calls of log meet those that add and remove file loggers, every file has
\* the entries of its severity in the order of standard output, each once and none left
\* out, as long as fileloggers was not changed under a thread that goes through it.
THEOREM OutputsInAgreement == Spec => []OutputsAgree
  BY Invariance, WrittenGives, PTL
=============================================================================

---------------------------- MODULE BNBRecorderProofs ----------------------------
(***************************************************************************)
(* Proofs about BNBRecorder: the type invariant, that a header is a first  *)
(* line only, that a run records at most one update too late and none a    *)
(* second too early, and, over all runs, that the files hold the updates   *)
(* in order, what is lost of them, and what the counters count.            *)
(***************************************************************************)
EXTENDS BNBRecorder, FiniteSetTheorems, TLAPS

\* What is appended to through a stream that works, and what is in the files.
FileInv ==
  /\ step \in {"header", "write"} => dataFrame.symbol \in symbol_file_map_
  /\ \A s \in symbol_file_map_ \ failed : s \in DOMAIN files
  /\ step = "header" /\ dataFrame.symbol \notin failed => files[dataFrame.symbol] = <<>>
  /\ \A s \in DOMAIN files : \A i \in DOMAIN files[s] : files[s][i] = Header => i = 1

\* Steps past the sleep of a run that goes on.
Started == Recording \cup {"startComponents", "subscribe", "loop", "getUpdate", "end"}

\* After a late record the loop condition fails before the next update; the sleep
\* ends less than a second before the start.
DateInv ==
  /\ lateRecords \in {0, 1}
  /\ lateRecords = 1 => now >= StopTime /\ step \in {"loop", "end", "shutdown", "gone"}
  /\ wakeAt \in Int
  /\ step = "asleep" => wakeAt > StartTime - Second
  /\ step \in Started => now > StartTime - Second

IInv == TypeOK /\ FileInv /\ DateInv

\* Appending a line to the file of s changes that file only, by one line.
LEMMA AppendedFile ==
  ASSUME NEW f, NEW s \in DOMAIN f, NEW line \in Line, f \in [DOMAIN f -> Seq(Line)],
         NEW g, g = [f EXCEPT ![s] = Append(@, line)]
  PROVE  /\ DOMAIN g = DOMAIN f /\ g \in [DOMAIN g -> Seq(Line)]
         /\ \A r \in DOMAIN f : r # s => g[r] = f[r]
         /\ DOMAIN g[s] = DOMAIN f[s] \cup {Len(f[s]) + 1}
         /\ \A i \in DOMAIN f[s] : g[s][i] = f[s][i]
         /\ g[s][Len(f[s]) + 1] = line
<1>1. f[s] \in Seq(Line) /\ g[s] = Append(f[s], line)
  OBVIOUS
<1>2. Append(f[s], line) \in Seq(Line) /\ Len(f[s]) \in Nat
  BY <1>1
<1>3. DOMAIN f[s] = 1..Len(f[s]) /\ DOMAIN g[s] = 1..(Len(f[s]) + 1)
  BY <1>1, <1>2
<1>4. /\ \A i \in DOMAIN f[s] : g[s][i] = f[s][i]
      /\ g[s][Len(f[s]) + 1] = line
  BY <1>1, <1>2, <1>3
<1>5. DOMAIN g[s] = DOMAIN f[s] \cup {Len(f[s]) + 1}
  BY <1>2, <1>3
<1>6. DOMAIN g = DOMAIN f /\ \A r \in DOMAIN f : r # s => g[r] = f[r]
  OBVIOUS
<1>7. g \in [DOMAIN g -> Seq(Line)]
  BY <1>1, <1>2, <1>6
<1> QED
  BY <1>4, <1>5, <1>6, <1>7

LEMMA InitInv == Init => IInv
<1> SUFFICES ASSUME Init PROVE IInv
  OBVIOUS
<1> USE DEF Init, Feeder!USInit
<1>1. TypeOK
  BY BoundsAssumption DEF TypeOK, Recording, NoCounts
<1>2. FileInv
  BY DEF FileInv
<1>3. DateInv
  BY DEF DateInv, Started, Recording
<1> QED
  BY <1>1, <1>2, <1>3 DEF IInv

\* A line goes to the file of the update in hand or is lost with its stream.
LEMMA WrittenLine ==
  ASSUME TypeOK, FileInv, step \in {"header", "write"}, NEW line \in Line, WriteLine(line)
  PROVE  /\ files' \in [DOMAIN files' -> Seq(Line)] /\ DOMAIN files' = DOMAIN files
         /\ failed \subseteq failed' /\ failed' \subseteq symbol_file_map_
         /\ \/ files' = files
            \/ dataFrame.symbol \in DOMAIN files \ failed /\ files' = Written(line)
<1> DEFINE s == dataFrame.symbol
<1>1. /\ s \in symbol_file_map_ /\ (s \notin failed => s \in DOMAIN files)
      /\ files \in [DOMAIN files -> Seq(Line)] /\ failed \subseteq symbol_file_map_
  BY DEF TypeOK, FileInv
<1>2. CASE s \notin failed
  <2>1. /\ Written(line) \in [DOMAIN Written(line) -> Seq(Line)]
        /\ DOMAIN Written(line) = DOMAIN files
    BY <1>1, <1>2, AppendedFile DEF Written
  <2> QED
    BY <1>1, <1>2, <2>1 DEF WriteLine
<1>3. CASE s \in failed
  BY <1>1, <1>3 DEF WriteLine
<1> QED
  BY <1>2, <1>3

\* One step per action; the conjuncts about files change with the appends only.
LEMMA TypeStep ==
  ASSUME TypeOK, FileInv, [Next]_vars
  PROVE  TypeOK'
<1> USE BoundsAssumption
<1> USE DEF TypeOK, Recording
<1>1. CASE Tick
  BY <1>1 DEF Tick, feederVars, streamVars, monitorVars, history
<1>2. ASSUME NEW s \in Symbol, Publish(s) PROVE TypeOK'
  <2>1. [symbol |-> s, number |-> published'] \in Update
    BY <1>2 DEF Publish, Update
  <2> QED
    BY <1>2, <2>1 DEF Publish, Feeder!Arrive, streamVars, monitorVars, history
<1>3. CASE Die \/ FeedLost
  BY <1>3 DEF Die, FeedLost, feederVars, streamVars, monitorVars, history
<1>4. CASE Restart
  BY <1>4 DEF Restart, NoCounts, streamVars
<1>5. CASE WaitStart \/ WakeUp \/ StartComponents \/ NoSubscriptionList \/ EndOfRun
  BY <1>5 DEF WaitStart, WakeUp, StartComponents, NoSubscriptionList, EndOfRun,
              feederVars, streamVars, monitorVars, history
<1>6. CASE SubscribeToTickers
  <2>1. \A list \in SubscriptionLists : list \subseteq Symbol
    BY RequestedAssumption DEF SubscriptionLists
  <2> QED
    BY <1>6, <2>1 DEF SubscribeToTickers, feederVars, streamVars, monitorVars, history
<1>7. CASE Loop
  BY <1>7 DEF Loop, feederVars, streamVars, monitorVars, history, Feeder!Ask
<1>8. CASE GetUpdate
  <2>1. arrived[Len(taken) + 1] \in Update
    BY <1>8 DEF GetUpdate, Feeder!Take
  <2> QED
    BY <1>8, <2>1 DEF GetUpdate, Feeder!Take, streamVars, monitorVars
<1>9. CASE UpdateMetrics
  <2>1. TimeUntil(now, StartTime) \in Int
    BY ScheduleAssumption DEF TimeUntil
  <2> QED
    BY <1>9, <2>1 DEF UpdateMetrics, feederVars, streamVars, history, Update
<1>10. CASE FileIsOpen
  BY <1>10 DEF FileIsOpen, feederVars, streamVars, monitorVars, history
<1>11. CASE OpenExisting
  <2>1. files' = files
    BY <1>11 DEF OpenExisting, OpenFile
  <2> QED
    BY <1>11, <2>1 DEF OpenExisting, OpenFile, feederVars, streamVars, monitorVars, history
<1>12. CASE OpenNew
  <2>1. dataFrame.symbol \in Symbol /\ <<>> \in Seq(Line)
    BY <1>12 DEF OpenNew, Update
  <2>2. files' \in [DOMAIN files' -> Seq(Line)] /\ DOMAIN files' = DOMAIN files \cup {dataFrame.symbol}
    BY <1>12, <2>1 DEF OpenNew, OpenFile
  <2> QED
    BY <1>12, <2>1, <2>2 DEF OpenNew, OpenFile, feederVars, streamVars, monitorVars, history
<1>13. CASE CannotCreate
  BY <1>13 DEF CannotCreate, feederVars, streamVars, monitorVars
<1>14. CASE WriteHeader
  <2>1. /\ files' \in [DOMAIN files' -> Seq(Line)] /\ DOMAIN files' = DOMAIN files
        /\ failed' \subseteq symbol_file_map_
    BY <1>14, WrittenLine DEF WriteHeader, Line
  <2> QED
    BY <1>14, <2>1 DEF WriteHeader, feederVars, monitorVars, history
<1>15. CASE WriteData
  <2>1. /\ files' \in [DOMAIN files' -> Seq(Line)] /\ DOMAIN files' = DOMAIN files
        /\ failed' \subseteq symbol_file_map_
    BY <1>15, WrittenLine DEF WriteData, Line
  <2> QED
    BY <1>15, <2>1 DEF WriteData, feederVars, monitorVars
<1>16. CASE Shutdown
  BY <1>16 DEF Shutdown, Feeder!Stop, streamVars, monitorVars, history
<1>17. CASE OpenFails
  <2>1. dataFrame.symbol \in Symbol
    BY <1>17, FragileAssumption DEF OpenFails
  <2> QED
    BY <1>17, <2>1 DEF OpenFails, feederVars, monitorVars, history
<1>18. CASE UNCHANGED vars
  BY <1>18 DEF vars, feederVars, streamVars, monitorVars, history
<1> QED
  BY <1>1, <1>2, <1>3, <1>4, <1>5, <1>6, <1>7, <1>8, <1>9, <1>10, <1>11, <1>12, <1>13, <1>14,
     <1>15, <1>16, <1>17, <1>18 DEF Next, Thread

\* The steps that do not write a line keep the files as they are.
LEMMA FileStep ==
  ASSUME TypeOK, FileInv, [Next]_vars
  PROVE  FileInv'
<1> USE DEF FileInv, streamVars
<1>1. CASE \/ Tick \/ (\E s \in Symbol : Publish(s)) \/ FeedLost \/ Die \/ Restart
           \/ WaitStart \/ WakeUp
           \/ StartComponents \/ NoSubscriptionList \/ SubscribeToTickers \/ Loop \/ GetUpdate
           \/ UpdateMetrics \/ CannotCreate \/ EndOfRun \/ Shutdown \/ UNCHANGED vars
  BY <1>1 DEF Tick, Publish, FeedLost, Die, Restart, WaitStart, WakeUp, StartComponents,
              NoSubscriptionList, SubscribeToTickers, Loop, GetUpdate, UpdateMetrics,
              CannotCreate, EndOfRun, Shutdown, vars
<1>2. CASE FileIsOpen
  BY <1>2 DEF FileIsOpen
<1>3. CASE OpenExisting
  <2>1. files' = files
    BY <1>3 DEF OpenExisting, OpenFile, TypeOK
  <2> QED
    BY <1>3, <2>1 DEF OpenExisting, OpenFile
<1>4. CASE OpenNew
  BY <1>4 DEF OpenNew, OpenFile
<1>5. CASE OpenFails
  BY <1>5 DEF OpenFails
<1>6. CASE WriteHeader
  <2> DEFINE s == dataFrame.symbol
  <2>1. /\ step = "header" /\ s \in symbol_file_map_ /\ Header \in Line
        /\ WriteLine(Header) /\ symbol_file_map_' = symbol_file_map_
        /\ dataFrame' = dataFrame /\ step' = "write"
    BY <1>6 DEF WriteHeader, Line
  <2>2. /\ DOMAIN files' = DOMAIN files /\ failed \subseteq failed'
        /\ files' = files \/ (s \in DOMAIN files \ failed /\ files' = Written(Header))
    BY <2>1, WrittenLine
  <2>3. CASE files' = files
    BY <2>1, <2>2, <2>3
  <2>4. CASE s \in DOMAIN files \ failed /\ files' = Written(Header)
    <3>1. /\ files[s] = <<>> /\ files \in [DOMAIN files -> Seq(Line)]
          /\ files' = [files EXCEPT ![s] = Append(@, Header)]
      BY <2>1, <2>4 DEF Written, TypeOK
    <3>2. /\ \A r \in DOMAIN files : r # s => files'[r] = files[r]
          /\ DOMAIN files'[s] = DOMAIN files[s] \cup {Len(files[s]) + 1}
      BY <2>1, <2>4, <3>1, AppendedFile
    <3>3. DOMAIN files'[s] = {1}
      BY <3>1, <3>2
    <3> QED
      BY <2>1, <2>2, <3>2, <3>3
  <2> QED
    BY <2>2, <2>3, <2>4
<1>7. CASE WriteData
  <2> DEFINE s == dataFrame.symbol
  <2>1. /\ step = "write" /\ s \in symbol_file_map_ /\ dataFrame \in Line
        /\ WriteLine(dataFrame) /\ symbol_file_map_' = symbol_file_map_ /\ step' = "loop"
    BY <1>7 DEF WriteData, TypeOK, Line, Recording
  <2>2. dataFrame # Header
    BY <1>7, HeaderAssumption, BoundsAssumption DEF WriteData, TypeOK, Update, Recording
  <2>3. /\ DOMAIN files' = DOMAIN files /\ failed \subseteq failed'
        /\ files' = files \/ (s \in DOMAIN files \ failed /\ files' = Written(dataFrame))
    BY <2>1, WrittenLine
  <2>4. CASE files' = files
    BY <2>1, <2>3, <2>4
  <2>5. CASE s \in DOMAIN files \ failed /\ files' = Written(dataFrame)
    <3>1. /\ files \in [DOMAIN files -> Seq(Line)]
          /\ files' = [files EXCEPT ![s] = Append(@, dataFrame)]
      BY <2>5 DEF Written, TypeOK
    <3>2. /\ \A r \in DOMAIN files : r # s => files'[r] = files[r]
          /\ DOMAIN files'[s] = DOMAIN files[s] \cup {Len(files[s]) + 1}
          /\ \A i \in DOMAIN files[s] : files'[s][i] = files[s][i]
          /\ files'[s][Len(files[s]) + 1] = dataFrame
      BY <2>1, <2>5, <3>1, AppendedFile
    <3>3. \A i \in DOMAIN files'[s] : files'[s][i] = Header => i = 1
      BY <2>2, <2>5, <3>2
    <3> QED
      BY <2>1, <2>3, <3>2, <3>3
  <2> QED
    BY <2>3, <2>4, <2>5
<1> QED
  BY <1>1, <1>2, <1>3, <1>4, <1>5, <1>6, <1>7 DEF Next, Thread

\* The sleep is cut to whole seconds, by less than one.
LEMMA SleepLongEnough ==
  ASSUME NEW t \in Nat
  PROVE  SleepTime(t) \in Int /\ t + SleepTime(t) > StartTime - Second
<1> DEFINE d == StartTime - t
<1>1. d \in Int /\ Second \in Nat \ {0} /\ StartTime \in Nat
  BY ScheduleAssumption
<1>2. /\ d \div Second \in Int /\ d % Second \in 0..(Second - 1)
      /\ d = Second * (d \div Second) + (d % Second)
  BY <1>1
<1> HIDE DEF d
<1>3. CASE t <= StartTime /\ d \div Second > 0
  <2>1. TimeUntil(t, StartTime) = d \div Second
    BY <1>3 DEF TimeUntil, d
  <2>2. SleepTime(t) = Second * (d \div Second)
    BY <1>1, <1>2, <1>3, <2>1 DEF SleepTime
  <2>3. Second * (d \div Second) \in Int
    BY <1>1, <1>2
  <2> QED
    BY <1>1, <1>2, <2>2, <2>3 DEF d
<1>4. CASE t <= StartTime /\ d \div Second <= 0
  <2>1. SleepTime(t) = 0
    BY <1>2, <1>4 DEF SleepTime, TimeUntil, d
  <2>2. Second * (d \div Second) <= 0
    BY <1>1, <1>2, <1>4
  <2>3. Second * (d \div Second) \in Int
    BY <1>1, <1>2
  <2>4. d < Second
    BY <1>1, <1>2, <2>2, <2>3
  <2> QED
    BY <1>1, <2>1, <2>4 DEF d
<1>5. CASE ~(t <= StartTime)
  <2>1. (t - StartTime) \div Second >= 0
    BY <1>1, <1>5
  <2>2. SleepTime(t) = 0
    BY <1>1, <1>5, <2>1 DEF SleepTime, TimeUntil
  <2> QED
    BY <1>1, <1>5, <2>2
<1> QED
  BY <1>2, <1>3, <1>4, <1>5

LEMMA DateStep ==
  ASSUME TypeOK, DateInv, [Next]_vars
  PROVE  DateInv'
<1> USE ScheduleAssumption DEF DateInv, TypeOK, Started, Recording
<1>1. CASE Tick
  BY <1>1 DEF Tick, history
<1>2. CASE \/ (\E s \in Symbol : Publish(s)) \/ FeedLost \/ Die \/ Restart
  <2>1. ASSUME NEW s \in Symbol, Publish(s) PROVE DateInv'
    BY <2>1 DEF Publish, history
  <2>2. CASE FeedLost \/ Die
    BY <2>2 DEF FeedLost, Die, history
  <2>3. CASE Restart
    BY <2>3 DEF Restart
  <2> QED
    BY <1>2, <2>1, <2>2, <2>3
<1>3. CASE WaitStart
  <2>1. SleepTime(now) \in Int /\ now + SleepTime(now) > StartTime - Second
    BY SleepLongEnough
  <2> QED
    BY <1>3, <2>1 DEF WaitStart, history
<1>4. CASE WakeUp
  BY <1>4 DEF WakeUp, history
<1>5. CASE \/ StartComponents \/ NoSubscriptionList \/ SubscribeToTickers \/ GetUpdate
           \/ UpdateMetrics \/ FileIsOpen \/ OpenExisting \/ OpenNew \/ OpenFails
  BY <1>5 DEF StartComponents, NoSubscriptionList, SubscribeToTickers, GetUpdate,
              UpdateMetrics, FileIsOpen, OpenExisting, OpenNew, OpenFile, OpenFails, history
<1>6. CASE CannotCreate \/ WriteHeader \/ EndOfRun \/ Shutdown
  BY <1>6 DEF CannotCreate, WriteHeader, EndOfRun, Shutdown, history
<1>7. CASE Loop
  BY <1>7 DEF Loop, history
<1>8. CASE WriteData
  BY <1>8 DEF WriteData
<1>9. CASE UNCHANGED vars
  BY <1>9 DEF vars, history
<1> QED
  BY <1>1, <1>2, <1>3, <1>4, <1>5, <1>6, <1>7, <1>8, <1>9 DEF Next, Thread

\* The inductive invariant of the recorder.
THEOREM RecorderInvariant == Spec => []IInv
<1>1. IInv /\ [Next]_vars => IInv'
  BY TypeStep, FileStep, DateStep DEF IInv
<1> QED
  BY <1>1, InitInv, PTL DEF Spec

\* Type correctness, for any symbols and any bounds.
THEOREM RecorderTypeCorrect == Spec => []TypeOK
BY RecorderInvariant, PTL DEF IInv

\* However often the recorder dies and is started again, a header is never
\* written in the middle of a file.
THEOREM RecorderHeaderOnTop == Spec => []HeaderOnTopOnly
<1>1. IInv => HeaderOnTopOnly
  BY DEF IInv, FileInv, TypeOK, HeaderOnTopOnly, Lines
<1> QED
  BY <1>1, RecorderInvariant, PTL

\* Whatever the schedule, a run records nothing a second before the start of its
\* date and at most one update after the end of it.
THEOREM RecorderInItsDate == Spec => []RecordsInItsDate
<1>1. IInv => RecordsInItsDate
  BY DEF IInv, DateInv, RecordsInItsDate, Started
<1> QED
  BY <1>1, RecorderInvariant, PTL

-----------------------------------------------------------------------------
(* The files and the history of all runs.                                  *)

Over == {"end", "shutdown", "gone"}

\* What became of an update is known, and so how many of this run's are done with.
Settled == AllRecorded \cup swallowed
Done    == IF step \in Recording THEN Len(taken) - 1 ELSE Len(taken)

\* Updates are numbered as they are published, and what is settled is older than
\* the update in hand and those that wait.
NumberInv ==
  /\ Len(taken) <= Len(arrived) /\ \A i \in DOMAIN taken : taken[i] = arrived[i]
  /\ step \in Recording => taken # <<>> /\ dataFrame = taken[Len(taken)]
  /\ \A i \in DOMAIN arrived : arrived[i].number <= published
  /\ \A i, j \in DOMAIN arrived : i < j => arrived[i].number < arrived[j].number
  /\ swallowed \subseteq Update
  /\ \A u \in Settled : /\ u.number <= published
                        /\ \A j \in DOMAIN arrived : Done < j => u.number < arrived[j].number

\* See UpdatesKept.
Ordered(s) ==
  \A i \in DOMAIN Lines(s) : Lines(s)[i] # Header =>
    /\ Lines(s)[i].symbol = s
    /\ \A j \in 1..(i - 1) : Lines(s)[j] = Header \/ Lines(s)[j].number < Lines(s)[i].number

\* The updates handed out that are neither settled nor in hand.
Lost == (ToSet(handed) \ Settled) \ {dataFrame}

LossInv ==
  /\ cutShort \in Nat /\ handed \in Seq(Update)
  /\ IsFiniteSet(Lost) /\ Cardinality(Lost) <= cutShort

\* In a run that goes on, what is done with is in its file, or the file has failed.
TailInv ==
  /\ step \notin Over => \A i \in 1..Done :
       taken[i] \in Settled /\ (taken[i] \in AllRecorded \/ taken[i].symbol \in failed)
  /\ LostTail

KeptInv ==
  NumberInv /\ (\A s \in Symbol : Ordered(s)) /\ LossInv /\ TailInv /\ CountersMatchFiles

LEMMA LinesType ==
  ASSUME TypeOK, NEW s \in Symbol
  PROVE  Lines(s) \in Seq(Line)
<1>1. <<>> \in Seq(Line)
  OBVIOUS
<1> QED
  BY <1>1 DEF TypeOK, Lines

\* The steps that change no update in a file: at most a header is written to an empty one.
QuietFiles ==
  \A s \in Symbol :
    \/ Lines(s)' = Lines(s)
    \/ Lines(s) = <<>> /\ \A i \in DOMAIN Lines(s)' : Lines(s)'[i] = Header

LEMMA SameRecorded ==
  ASSUME QuietFiles
  PROVE  /\ AllRecorded' = AllRecorded
         /\ (\A s \in Symbol : Ordered(s)) => \A s \in Symbol : Ordered(s)'
<1>1. ASSUME NEW s \in Symbol
      PROVE  /\ ToSet(Lines(s))' \ {Header} = ToSet(Lines(s)) \ {Header}
             /\ Ordered(s) => Ordered(s)'
  <2>1. CASE Lines(s)' = Lines(s)
    BY <2>1 DEF Ordered, ToSet
  <2>2. CASE Lines(s) = <<>> /\ \A i \in DOMAIN Lines(s)' : Lines(s)'[i] = Header
    BY <2>2 DEF Ordered, ToSet
  <2> QED
    BY <2>1, <2>2 DEF QuietFiles
<1>2. AllRecorded' = AllRecorded
  BY <1>1 DEF AllRecorded
<1> QED
  BY <1>1, <1>2

Counted == {"record", "header", "write"}

Quiet ==
  /\ arrived' = arrived /\ taken' = taken /\ handed' = handed /\ swallowed' = swallowed
  /\ published' = published /\ cutShort' = cutShort /\ dataFrame' = dataFrame
  /\ updatesCounterMap_' = updatesCounterMap_
  /\ QuietFiles
  /\ step' \in Over \/ (step \notin Over /\ failed \subseteq failed')
  /\ step' \in Recording <=> step \in Recording
  /\ step' \in Counted <=> step \in Counted

LEMMA SameFiles ==
  ASSUME files' = files
  PROVE  QuietFiles
BY DEF QuietFiles, Lines

\* The steps that matter to the history, and the others.
LEMMA RecorderSteps ==
  ASSUME TypeOK, FileInv, [Next]_vars
  PROVE  \/ Quiet \/ (\E s \in Symbol : Publish(s)) \/ Die \/ CannotCreate \/ Restart
         \/ GetUpdate \/ UpdateMetrics \/ WriteData
<1> USE DEF Over, Recording, Counted
<1>1. CASE \/ Tick \/ FeedLost \/ WaitStart \/ WakeUp \/ StartComponents \/ NoSubscriptionList
           \/ EndOfRun \/ UNCHANGED vars
  BY <1>1, SameFiles DEF Quiet, Tick, FeedLost, WaitStart, WakeUp, StartComponents,
    NoSubscriptionList, EndOfRun, vars, feederVars, streamVars, monitorVars, history
<1>2. CASE SubscribeToTickers \/ FileIsOpen \/ Shutdown \/ OpenFails
  BY <1>2, SameFiles DEF Quiet, SubscribeToTickers, FileIsOpen, Shutdown, Feeder!Stop,
    OpenFails, feederVars, streamVars, monitorVars, history
<1>3. CASE Loop
  BY <1>3, SameFiles DEF Quiet, Loop, Feeder!Ask, feederVars, streamVars, monitorVars, history
<1>4. CASE OpenExisting
  <2>1. files' = files
    BY <1>4 DEF OpenExisting, OpenFile, TypeOK
  <2> QED
    BY <1>4, <2>1, SameFiles DEF Quiet, OpenExisting, OpenFile, feederVars, monitorVars, history
<1>5. CASE OpenNew
  <2>1. QuietFiles
    BY <1>5 DEF OpenNew, OpenFile, QuietFiles, Lines
  <2> QED
    BY <1>5, <2>1 DEF Quiet, OpenNew, OpenFile, feederVars, monitorVars, history
<1>6. CASE WriteHeader
  <2> DEFINE f == dataFrame.symbol
  <2>1. step = "header" /\ Header \in Line /\ WriteLine(Header)
    BY <1>6 DEF WriteHeader, Line
  <2>2. /\ files' = files \/ (f \in DOMAIN files \ failed /\ files' = Written(Header))
        /\ failed \subseteq failed' /\ DOMAIN files' = DOMAIN files
    BY <2>1, WrittenLine
  <2>3. QuietFiles
    <3>1. CASE files' = files
      BY <3>1, SameFiles
    <3>2. CASE f \in DOMAIN files \ failed /\ files' = Written(Header)
      <4>1. /\ files[f] = <<>> /\ files \in [DOMAIN files -> Seq(Line)]
            /\ files' = [files EXCEPT ![f] = Append(@, Header)]
        BY <2>1, <3>2 DEF FileInv, Written, TypeOK
      <4>2. /\ \A r \in DOMAIN files : r # f => files'[r] = files[r]
            /\ DOMAIN files'[f] = DOMAIN files[f] \cup {Len(files[f]) + 1}
            /\ files'[f][Len(files[f]) + 1] = Header
        BY <2>1, <3>2, <4>1, AppendedFile
      <4>3. \A i \in DOMAIN files'[f] : files'[f][i] = Header
        BY <4>1, <4>2
      <4> QED
        BY <2>2, <3>2, <4>1, <4>2, <4>3 DEF QuietFiles, Lines
    <3> QED
      BY <2>2, <3>1, <3>2
  <2> QED
    BY <1>6, <2>2, <2>3 DEF Quiet, WriteHeader, feederVars, monitorVars, history
<1> QED
  BY <1>1, <1>2, <1>3, <1>4, <1>5, <1>6 DEF Next, Thread

\* What a step leaves of the conjuncts when it changes no update and takes none.
LEMMA QuietStep ==
  ASSUME TypeOK, KeptInv, Quiet
  PROVE  KeptInv'
<1>1. AllRecorded' = AllRecorded /\ Settled' = Settled /\ \A s \in Symbol : Ordered(s)'
  BY SameRecorded DEF Quiet, KeptInv, Settled
<1>2. Done' = Done
  BY DEF Quiet, Done
<1>3. NumberInv'
  BY <1>1, <1>2 DEF Quiet, KeptInv, NumberInv
<1>4. LossInv'
  <2>1. Lost' = Lost
    BY <1>1 DEF Quiet, Lost
  <2> QED
    BY <2>1 DEF Quiet, KeptInv, LossInv
<1>5. TailInv'
  BY <1>1, <1>2 DEF Quiet, KeptInv, TailInv, LostTail
<1>6. CountersMatchFiles'
  BY <1>1 DEF Quiet, KeptInv, CountersMatchFiles, Settled, Over, Counted
<1> QED
  BY <1>1, <1>3, <1>4, <1>5, <1>6 DEF KeptInv

\* A step that leaves the files, what was swallowed and the updates handed out.
LEMMA SameSettled ==
  ASSUME files' = files, swallowed' = swallowed
  PROVE  /\ AllRecorded' = AllRecorded /\ Settled' = Settled
         /\ (\A s \in Symbol : Ordered(s)) => \A s \in Symbol : Ordered(s)'
BY SameFiles, SameRecorded DEF Settled

LEMMA PublishStep ==
  ASSUME TypeOK, KeptInv, NEW s \in Symbol, Publish(s)
  PROVE  KeptInv'
<1> DEFINE u == [symbol |-> s, number |-> published + 1]
<1>1. /\ published' = published + 1 /\ arrived' = Append(arrived, u)
      /\ taken' = taken /\ files' = files /\ swallowed' = swallowed /\ handed' = handed
      /\ dataFrame' = dataFrame /\ step' = step /\ cutShort' = cutShort /\ failed' = failed
      /\ updatesCounterMap_' = updatesCounterMap_
  BY DEF Publish, Feeder!Arrive, streamVars, monitorVars, history
<1>2. published \in Nat /\ published + 1 \in 1..MaxUpdates /\ published' \in Nat
  BY <1>1, BoundsAssumption DEF TypeOK, Publish
<1>3. u \in Update /\ u.number = published + 1
  BY <1>2 DEF Update
<1> HIDE DEF u
<1>4. /\ AllRecorded' = AllRecorded /\ Settled' = Settled /\ Done' = Done
      /\ \A r \in Symbol : Ordered(r)'
  BY <1>1, SameSettled DEF KeptInv, Done
<1>5. /\ arrived \in Seq(Update) /\ taken \in Seq(Update) /\ Len(arrived) \in Nat /\ Len(taken) \in Nat
  BY DEF TypeOK
<1>6. /\ DOMAIN arrived' = DOMAIN arrived \cup {Len(arrived) + 1} /\ Len(arrived') = Len(arrived) + 1
      /\ DOMAIN arrived = 1..Len(arrived) /\ DOMAIN taken = 1..Len(taken)
      /\ \A i \in DOMAIN arrived : arrived'[i] = arrived[i] /\ i < Len(arrived) + 1
      /\ arrived'[Len(arrived) + 1] = u
  BY <1>1, <1>3, <1>5
<1>7. NumberInv'
  <2>1. NumberInv
    BY DEF KeptInv
  <2>2. /\ Len(taken') <= Len(arrived') /\ \A i \in DOMAIN taken' : taken'[i] = arrived'[i]
    <3>1. Len(taken) <= Len(arrived) /\ \A i \in DOMAIN taken : taken[i] = arrived[i]
      BY <2>1 DEF NumberInv
    <3>2. \A i \in DOMAIN taken : i \in DOMAIN arrived
      BY <1>5, <1>6, <3>1
    <3> QED
      BY <1>1, <1>5, <1>6, <3>1, <3>2
  <2>3. \A i \in DOMAIN arrived : arrived[i].number \in Nat /\ arrived[i].number <= published
    <3>1. \A i \in DOMAIN arrived : arrived[i] \in Update
      BY <1>5
    <3>2. \A v \in Update : v.number \in Nat
      BY BoundsAssumption DEF Update
    <3> QED
      BY <2>1, <3>1, <3>2 DEF NumberInv
  <2>4. \A i \in DOMAIN arrived' : arrived'[i].number <= published'
    BY <1>1, <1>2, <1>3, <1>6, <2>3
  <2>5. \A i, j \in DOMAIN arrived' : i < j => arrived'[i].number < arrived'[j].number
    <3> SUFFICES ASSUME NEW i \in DOMAIN arrived', NEW j \in DOMAIN arrived', i < j
                 PROVE  arrived'[i].number < arrived'[j].number
      OBVIOUS
    <3>1. i \in DOMAIN arrived
      BY <1>5, <1>6
    <3>2. CASE j = Len(arrived) + 1
      BY <1>2, <1>3, <1>6, <2>3, <3>1, <3>2
    <3>3. CASE j # Len(arrived) + 1
      BY <1>6, <2>1, <3>1, <3>3 DEF NumberInv
    <3> QED
      BY <3>2, <3>3
  <2>6. ASSUME NEW v \in Settled
        PROVE  /\ v.number <= published'
               /\ \A j \in DOMAIN arrived' : Done < j => v.number < arrived'[j].number
    <3>1. v \in Update
      <4>1. \A r \in Symbol : ToSet(Lines(r)) \subseteq Line
        BY LinesType DEF ToSet
      <4>2. AllRecorded \subseteq Update /\ swallowed \subseteq Update
        BY <2>1, <4>1 DEF AllRecorded, Line, NumberInv
      <4> QED
        BY <4>2 DEF Settled
    <3>2. v.number \in Nat /\ v.number <= published
      BY <2>1, <3>1, BoundsAssumption DEF NumberInv, Update
    <3> QED
      BY <1>1, <1>2, <1>3, <1>6, <2>1, <3>2 DEF NumberInv
  <2> QED
    BY <1>1, <1>4, <2>1, <2>2, <2>4, <2>5, <2>6 DEF NumberInv
<1>8. LossInv' /\ TailInv' /\ CountersMatchFiles'
  <2>1. Lost' = Lost
    BY <1>1, <1>4 DEF Lost
  <2>2. LossInv'
    BY <1>1, <2>1 DEF KeptInv, LossInv
  <2>3. TailInv'
    BY <1>1, <1>4 DEF KeptInv, TailInv, LostTail
  <2>4. CountersMatchFiles'
    BY <1>1, <1>4 DEF KeptInv, CountersMatchFiles, Settled
  <2> QED
    BY <2>2, <2>3, <2>4
<1> QED
  BY <1>4, <1>7, <1>8 DEF KeptInv

\* A death, or an exception that ends the loop, loses at most the update in hand.
LEMMA CutStep ==
  ASSUME TypeOK, KeptInv, Die \/ CannotCreate
  PROVE  KeptInv'
<1>1. /\ arrived' = arrived /\ taken' = taken /\ files' = files /\ swallowed' = swallowed
      /\ handed' = handed /\ published' = published /\ step' \in Over
      /\ dataFrame' = <<>> /\ cutShort' = cutShort + 1
      /\ step' \notin Recording
  BY DEF Die, CannotCreate, feederVars, Over, Recording
<1>2. /\ AllRecorded' = AllRecorded /\ Settled' = Settled /\ \A s \in Symbol : Ordered(s)'
  BY <1>1, SameSettled DEF KeptInv
<1>3. Done \in Int /\ Done' \in Int /\ Done <= Done'
  BY <1>1 DEF Done, TypeOK
<1>4. NumberInv'
  <2>1. \A j \in DOMAIN arrived : Done' < j => Done < j
    BY <1>3 DEF TypeOK
  <2> QED
    BY <1>1, <1>2, <2>1 DEF KeptInv, NumberInv
<1>5. LossInv'
  <2> DEFINE L == Lost \cup {dataFrame}
  <2>1. IsFiniteSet(L) /\ Cardinality(L) <= cutShort + 1 /\ cutShort \in Nat
    <3>1. IsFiniteSet(Lost) /\ Cardinality(Lost) \in Nat /\ Cardinality(Lost) <= cutShort /\ cutShort \in Nat
      BY FS_CardinalityType DEF KeptInv, LossInv
    <3>2. IsFiniteSet(L) /\ Cardinality(L) <= Cardinality(Lost) + 1 /\ Cardinality(L) \in Nat
      <4>1. IsFiniteSet(L) /\ Cardinality(L) = IF dataFrame \in Lost THEN Cardinality(Lost)
                                                ELSE Cardinality(Lost) + 1
        BY <3>1, FS_AddElement
      <4> HIDE DEF L
      <4> QED
        BY <3>1, <4>1
    <3> QED
      BY <3>1, <3>2
  <2>2. Lost' \in SUBSET L
    BY <1>1, <1>2 DEF Lost
  <2> HIDE DEF L
  <2>3. IsFiniteSet(Lost') /\ Cardinality(Lost') <= Cardinality(L)
    BY <2>1, <2>2, FS_Subset
  <2>4. Cardinality(Lost') \in Nat /\ Cardinality(L) \in Nat
    BY <2>1, <2>3, FS_CardinalityType
  <2> QED
    BY <1>1, <2>1, <2>3, <2>4 DEF KeptInv, LossInv
<1>6. TailInv' /\ CountersMatchFiles'
  BY <1>1, <1>2 DEF KeptInv, TailInv, LostTail, CountersMatchFiles, Over
<1> QED
  BY <1>2, <1>4, <1>5, <1>6 DEF KeptInv

\* A new run has taken nothing; its updates get new numbers.
LEMMA RestartStep ==
  ASSUME TypeOK, KeptInv, Restart
  PROVE  KeptInv'
<1>1. /\ arrived' = <<>> /\ taken' = <<>> /\ files' = files /\ swallowed' = swallowed
      /\ handed' = handed /\ published' = published /\ step' = "waitStart"
      /\ dataFrame' = dataFrame /\ cutShort' = cutShort /\ updatesCounterMap_' = NoCounts
  BY DEF Restart
<1>2. /\ AllRecorded' = AllRecorded /\ Settled' = Settled /\ \A s \in Symbol : Ordered(s)'
  BY <1>1, SameSettled DEF KeptInv
<1>3. DOMAIN arrived' = {} /\ DOMAIN taken' = {} /\ Len(taken') = 0 /\ Len(arrived') = 0 /\ Done' = 0
  BY <1>1 DEF Done, Recording
<1>4. NumberInv'
  BY <1>1, <1>2, <1>3 DEF KeptInv, NumberInv, Recording
<1>5. LossInv'
  <2>1. Lost' = Lost
    BY <1>1, <1>2 DEF Lost
  <2> QED
    BY <1>1, <2>1 DEF KeptInv, LossInv
<1>6. TailInv'
  BY <1>1, <1>3 DEF TailInv, LostTail
<1>7. CountersMatchFiles'
  <2>1. ASSUME NEW s \in Symbol
        PROVE  Cardinality({i \in DOMAIN taken' : taken'[i].symbol = s
                                                    /\ taken'[i] \in AllRecorded' \cup swallowed'}) = 0
    <3>1. {i \in DOMAIN taken' : taken'[i].symbol = s /\ taken'[i] \in AllRecorded' \cup swallowed'} = {}
      BY <1>3
    <3> QED
      BY <3>1, FS_EmptySet
  <2> QED
    BY <1>1, <2>1 DEF CountersMatchFiles, NoCounts
<1> QED
  BY <1>2, <1>4, <1>5, <1>6, <1>7 DEF KeptInv

\* The update in hand is newer than all that is settled, and is not settled.
LEMMA InHand ==
  ASSUME TypeOK, KeptInv, step \in Recording
  PROVE  /\ dataFrame \in Update /\ dataFrame # <<>> /\ dataFrame # Header
         /\ dataFrame \notin Settled
         /\ \A u \in Settled : u.number < dataFrame.number
         /\ Len(taken) \in Nat /\ Len(taken) > 0 /\ Len(taken) \in DOMAIN taken
         /\ dataFrame = taken[Len(taken)]
         /\ \A i \in DOMAIN taken : taken[i] = dataFrame => i = Len(taken)
<1>1. /\ dataFrame \in Update /\ taken \in Seq(Update) /\ arrived \in Seq(Update)
      /\ Len(taken) \in Nat /\ Len(arrived) \in Nat
      /\ DOMAIN taken = 1..Len(taken) /\ DOMAIN arrived = 1..Len(arrived)
  BY DEF TypeOK
<1>2. taken # <<>> /\ dataFrame = taken[Len(taken)] /\ Len(taken) <= Len(arrived)
      /\ \A i \in DOMAIN taken : taken[i] = arrived[i]
  BY DEF KeptInv, NumberInv
<1>3. Len(taken) > 0
  BY <1>1, <1>2
<1>4. Len(taken) \in DOMAIN taken /\ DOMAIN taken \subseteq DOMAIN arrived
      /\ dataFrame = arrived[Len(taken)] /\ Len(taken) \in DOMAIN arrived
  BY <1>1, <1>2, <1>3
<1>5. Done < Len(taken)
  BY <1>1 DEF Done
<1>6. \A u \in Settled : u.number < dataFrame.number
  BY <1>4, <1>5 DEF KeptInv, NumberInv
<1>7. dataFrame.number \in Nat
  BY <1>1, BoundsAssumption DEF Update
<1>8. dataFrame \notin Settled
  BY <1>6, <1>7
<1>9. ASSUME NEW i \in DOMAIN taken, taken[i] = dataFrame PROVE i = Len(taken)
  <2>1. i \in DOMAIN arrived /\ arrived[i] = dataFrame
    BY <1>2, <1>4, <1>9
  <2>2. ~(i < Len(taken))
    BY <1>4, <1>7, <2>1 DEF KeptInv, NumberInv
  <2> QED
    BY <1>1, <1>9, <2>2
<1>10. dataFrame # <<>> /\ dataFrame # Header
  <2>1. DOMAIN <<>> = {} /\ "number" \in DOMAIN dataFrame
    BY <1>1 DEF Update
  <2>2. dataFrame \in [symbol : Symbol, number : Nat]
    BY <1>1, BoundsAssumption DEF Update
  <2> QED
    BY <2>1, <2>2, HeaderAssumption
<1> QED
  BY <1>1, <1>2, <1>3, <1>4, <1>6, <1>8, <1>9, <1>10

LEMMA GetUpdateStep ==
  ASSUME TypeOK, KeptInv, GetUpdate
  PROVE  KeptInv'
<1> DEFINE d == arrived[Len(taken) + 1]
<1>1. /\ arrived' = arrived /\ taken' = Append(taken, d) /\ files' = files /\ swallowed' = swallowed
      /\ handed' = Append(handed, d) /\ published' = published /\ failed' = failed
      /\ step = "getUpdate" /\ step' = "updateMetrics" /\ dataFrame' = d /\ cutShort' = cutShort
      /\ updatesCounterMap_' = updatesCounterMap_ /\ Len(taken) < Len(arrived)
  BY DEF GetUpdate, Feeder!Take, streamVars, monitorVars
<1>2. /\ arrived \in Seq(Update) /\ taken \in Seq(Update) /\ dataFrame = <<>>
      /\ Len(taken) \in Nat /\ Len(arrived) \in Nat /\ Len(taken) + 1 \in DOMAIN arrived
      /\ d \in Update
  BY <1>1 DEF TypeOK, Recording
<1> HIDE DEF d
<1>3. /\ Len(taken') = Len(taken) + 1 /\ taken'[Len(taken) + 1] = d
      /\ DOMAIN taken' = DOMAIN taken \cup {Len(taken) + 1} /\ taken' # <<>>
      /\ DOMAIN taken = 1..Len(taken) /\ \A i \in DOMAIN taken : taken'[i] = taken[i]
  BY <1>1, <1>2
<1>4. /\ AllRecorded' = AllRecorded /\ Settled' = Settled /\ \A s \in Symbol : Ordered(s)'
  BY <1>1, SameSettled DEF KeptInv
<1>5. Done' = Done /\ Done = Len(taken)
  BY <1>1, <1>2, <1>3 DEF Done, Recording
<1>6. NumberInv'
  BY <1>1, <1>2, <1>3, <1>4, <1>5 DEF KeptInv, NumberInv, d
<1>7. LossInv'
  <2>1. handed \in Seq(Update)
    BY DEF KeptInv, LossInv
  <2>2. handed' \in Seq(Update) /\ ToSet(handed') = ToSet(handed) \cup {d}
    <3>1. handed' \in Seq(Update) /\ Len(handed') = Len(handed) + 1 /\ Len(handed) \in Nat
      BY <1>1, <1>2, <2>1
    <3>2. /\ DOMAIN handed' = DOMAIN handed \cup {Len(handed) + 1}
          /\ handed'[Len(handed) + 1] = d /\ \A i \in DOMAIN handed : handed'[i] = handed[i]
      BY <1>1, <1>2, <2>1, <3>1
    <3> QED
      BY <3>1, <3>2 DEF ToSet
  <2>3. <<>> \notin Update
    <3>1. \A u \in Update : "number" \in DOMAIN u
      BY DEF Update
    <3> QED
      BY <3>1
  <2>4. <<>> \notin ToSet(handed)
    BY <2>1, <2>3 DEF ToSet
  <2>5. Lost' \in SUBSET Lost
    BY <1>1, <1>2, <1>4, <2>2, <2>4 DEF Lost
  <2>6. IsFiniteSet(Lost) /\ Cardinality(Lost) <= cutShort /\ cutShort \in Nat
    BY DEF KeptInv, LossInv
  <2>7. IsFiniteSet(Lost') /\ Cardinality(Lost') <= Cardinality(Lost)
    BY <2>5, <2>6, FS_Subset
  <2>8. Cardinality(Lost') \in Nat /\ Cardinality(Lost) \in Nat
    BY <2>6, <2>7, FS_CardinalityType
  <2> QED
    BY <1>1, <2>2, <2>6, <2>7, <2>8 DEF LossInv
<1>8. step' \in Recording /\ TypeOK /\ d \notin Settled
  <2>1. \A u \in Settled : u.number < d.number
    BY <1>2, <1>5 DEF KeptInv, NumberInv, d
  <2>2. d.number \in Nat
    BY <1>2, BoundsAssumption DEF Update
  <2> QED
    BY <1>1, <2>1, <2>2 DEF Recording
<1>9. TailInv'
  <2>1. LostTail'
    <3> SUFFICES ASSUME NEW i \in DOMAIN taken', NEW j \in DOMAIN taken', i < j,
                        taken'[i].symbol = taken'[j].symbol, taken'[j] \in AllRecorded
                 PROVE  taken'[i] \in AllRecorded
      BY <1>4 DEF LostTail
    <3>1. j # Len(taken) + 1
      BY <1>3, <1>8 DEF Settled
    <3>2. i \in DOMAIN taken /\ j \in DOMAIN taken
      BY <1>2, <1>3, <3>1
    <3> QED
      BY <1>3, <3>2 DEF KeptInv, TailInv, LostTail
  <2>2. \A i \in 1..Done : taken'[i] = taken[i]
    BY <1>3, <1>5
  <2> QED
    BY <1>1, <1>4, <1>5, <2>1, <2>2 DEF KeptInv, TailInv, Over
<1>10. CountersMatchFiles'
  <2>1. ASSUME NEW s \in Symbol
        PROVE  {i \in DOMAIN taken' : taken'[i].symbol = s /\ taken'[i] \in Settled}
                 = {i \in DOMAIN taken : taken[i].symbol = s /\ taken[i] \in Settled}
    BY <1>2, <1>3, <1>8
  <2> QED
    BY <1>1, <1>4, <2>1 DEF KeptInv, CountersMatchFiles, Settled
<1> QED
  BY <1>4, <1>6, <1>7, <1>9, <1>10 DEF KeptInv

LEMMA MetricsStep ==
  ASSUME TypeOK, KeptInv, UpdateMetrics
  PROVE  KeptInv'
<1>1. /\ arrived' = arrived /\ taken' = taken /\ files' = files /\ swallowed' = swallowed
      /\ handed' = handed /\ published' = published /\ dataFrame' = dataFrame /\ cutShort' = cutShort
      /\ failed' = failed /\ step = "updateMetrics" /\ step' = "record"
      /\ updatesCounterMap_' = [updatesCounterMap_ EXCEPT ![dataFrame.symbol] = @ + 1]
  BY DEF UpdateMetrics, feederVars, streamVars, history
<1>2. /\ AllRecorded' = AllRecorded /\ Settled' = Settled /\ Done' = Done
      /\ \A s \in Symbol : Ordered(s)'
  BY <1>1, SameSettled DEF KeptInv, Done, Recording
<1>3. NumberInv'
  BY <1>1, <1>2 DEF KeptInv, NumberInv, Recording
<1>4. LossInv'
  <2>1. Lost' = Lost
    BY <1>1, <1>2 DEF Lost
  <2> QED
    BY <1>1, <2>1 DEF KeptInv, LossInv
<1>5. TailInv'
  BY <1>1, <1>2 DEF KeptInv, TailInv, LostTail, Over
<1>6. CountersMatchFiles'
  <2> DEFINE kept(s) == Cardinality({i \in DOMAIN taken : taken[i].symbol = s
                                                           /\ taken[i] \in AllRecorded \cup swallowed})
  <2>1. \A s \in Symbol : updatesCounterMap_[s] = kept(s) + 0 /\ updatesCounterMap_[s] \in Nat
    BY <1>1 DEF KeptInv, CountersMatchFiles, TypeOK, Over
  <2>2. dataFrame.symbol \in Symbol /\ updatesCounterMap_ \in [Symbol -> Nat]
    BY <1>1 DEF TypeOK, Recording, Update
  <2> HIDE DEF kept
  <2>3. \A s \in Symbol : updatesCounterMap_'[s] = kept(s) + (IF dataFrame.symbol = s THEN 1 ELSE 0)
    <3>1. ASSUME NEW s \in Symbol
          PROVE  updatesCounterMap_'[s] = updatesCounterMap_[s] + (IF dataFrame.symbol = s THEN 1 ELSE 0)
      BY <1>1, <2>2, <2>1
    <3>2. \A s \in Symbol : updatesCounterMap_[s] = kept(s)
      <4> SUFFICES ASSUME NEW s \in Symbol PROVE updatesCounterMap_[s] = kept(s)
        OBVIOUS
      <4>1. kept(s) \in Nat
        <5>1. {i \in DOMAIN taken : taken[i].symbol = s /\ taken[i] \in AllRecorded \cup swallowed}
                \in SUBSET (1..Len(taken)) /\ Len(taken) \in Nat
          BY DEF TypeOK
        <5>2. IsFiniteSet(1..Len(taken))
          BY <5>1, FS_Interval
        <5> QED
          BY <5>1, <5>2, FS_Subset, FS_CardinalityType DEF kept
      <4> QED
        BY <2>1, <4>1
    <3> QED
      BY <3>1, <3>2
  <2> QED
    BY <1>1, <1>2, <2>3 DEF CountersMatchFiles, kept
<1> QED
  BY <1>2, <1>3, <1>4, <1>5, <1>6 DEF KeptInv

\* What WriteData does with the update in hand.
LEMMA DataWritten ==
  ASSUME TypeOK, FileInv, KeptInv, WriteData
  PROVE  /\ \/ AllRecorded' = AllRecorded /\ dataFrame.symbol \in failed'
            \/ AllRecorded' = AllRecorded \cup {dataFrame} /\ dataFrame.symbol \notin failed
         /\ Settled' = Settled \cup {dataFrame} /\ failed \subseteq failed'
         /\ swallowed' \subseteq swallowed \cup {dataFrame}
         /\ \A s \in Symbol : Ordered(s)'
<1>1. /\ step = "write" /\ step \in Recording /\ WriteLine(dataFrame)
      /\ swallowed' = IF files' = files THEN swallowed \cup {dataFrame} ELSE swallowed
  BY DEF WriteData, Recording
<1>2. /\ dataFrame \in Line /\ dataFrame # Header /\ dataFrame.symbol \in Symbol
      /\ \A u \in Settled : u.number < dataFrame.number
  BY <1>1, InHand DEF Line, Update
<1> SUFFICES ASSUME NEW f \in Symbol, f = dataFrame.symbol
             PROVE  /\ \/ AllRecorded' = AllRecorded /\ f \in failed'
                       \/ AllRecorded' = AllRecorded \cup {dataFrame} /\ f \notin failed
                    /\ Settled' = Settled \cup {dataFrame} /\ failed \subseteq failed'
                    /\ swallowed' \subseteq swallowed \cup {dataFrame}
                    /\ \A s \in Symbol : Ordered(s)'
  BY <1>2
<1>3. /\ DOMAIN files' = DOMAIN files /\ failed \subseteq failed'
      /\ files' = files \/ (f \in DOMAIN files \ failed /\ files' = Written(dataFrame))
  BY <1>1, <1>2, WrittenLine
<1>4. CASE files' = files
  <2>1. f \in failed'
    <3>1. CASE f \notin failed /\ files' = Written(dataFrame)
      <4>1. f \in DOMAIN files /\ files \in [DOMAIN files -> Seq(Line)]
        BY <1>1, <3>1 DEF TypeOK, FileInv
      <4>2. Len(Append(files[f], dataFrame)) = Len(files[f]) + 1 /\ Len(files[f]) \in Nat
        BY <1>2, <4>1
      <4>3. files'[f] = Append(files[f], dataFrame)
        BY <3>1, <4>1 DEF Written
      <4> QED
        BY <1>4, <4>2, <4>3
    <3>2. CASE f \in failed
      BY <1>3, <3>2
    <3> QED
      BY <1>1, <1>4, <3>1, <3>2 DEF WriteLine
  <2>2. AllRecorded' = AllRecorded /\ \A s \in Symbol : Ordered(s)'
    BY <1>4, SameFiles, SameRecorded DEF KeptInv
  <2> QED
    BY <1>1, <1>3, <1>4, <2>1, <2>2 DEF Settled
<1>5. CASE files' # files
  <2>1. /\ f \in DOMAIN files \ failed /\ files \in [DOMAIN files -> Seq(Line)]
        /\ files' = [files EXCEPT ![f] = Append(@, dataFrame)]
    BY <1>3, <1>5 DEF Written, TypeOK
  <2>2. /\ \A r \in DOMAIN files : r # f => files'[r] = files[r]
        /\ DOMAIN files'[f] = DOMAIN files[f] \cup {Len(files[f]) + 1}
        /\ \A i \in DOMAIN files[f] : files'[f][i] = files[f][i]
        /\ files'[f][Len(files[f]) + 1] = dataFrame
    BY <1>2, <2>1, AppendedFile
  <2>3. /\ \A s \in Symbol : s # f => Lines(s)' = Lines(s)
        /\ Lines(f) = files[f] /\ Lines(f)' = files'[f]
    BY <1>3, <2>1, <2>2 DEF Lines
  <2>4. ToSet(Lines(f))' = ToSet(Lines(f)) \cup {dataFrame}
    BY <2>2, <2>3 DEF ToSet
  <2>5. AllRecorded' = AllRecorded \cup {dataFrame}
    <3>1. \A s \in Symbol : s # f => ToSet(Lines(s))' = ToSet(Lines(s))
      BY <2>3
    <3> QED
      <4>1. ToSet(Lines(f))' \ {Header} = (ToSet(Lines(f)) \ {Header}) \cup {dataFrame}
        BY <1>2, <2>4
      <4> QED
        BY <3>1, <4>1 DEF AllRecorded
  <2>6. ASSUME NEW s \in Symbol PROVE Ordered(s)'
    <3>1. CASE s # f
      BY <2>3, <3>1 DEF KeptInv, Ordered
    <3>2. CASE s = f
      <4>1. Len(files[f]) \in Nat /\ DOMAIN files[f] = 1..Len(files[f])
        <5>1. files[f] \in Seq(Line)
          BY <2>1
        <5> QED
          BY <5>1
      <4>2. \A j \in DOMAIN files[f] : files[f][j] = Header \/ files[f][j] \in AllRecorded
        BY <1>2, <2>3 DEF AllRecorded, ToSet
      <4> SUFFICES ASSUME NEW i \in DOMAIN files'[f], files'[f][i] # Header
                   PROVE  /\ files'[f][i].symbol = f
                          /\ \A j \in 1..(i - 1) : files'[f][j] = Header
                                                     \/ files'[f][j].number < files'[f][i].number
        BY <2>3, <3>2 DEF Ordered
      <4>3. CASE i \in DOMAIN files[f]
        <5>1. /\ files[f][i].symbol = f
              /\ \A j \in 1..(i - 1) : files[f][j] = Header \/ files[f][j].number < files[f][i].number
          BY <1>2, <2>2, <2>3, <4>3 DEF KeptInv, Ordered
        <5>2. \A j \in 1..(i - 1) : j \in DOMAIN files[f]
          BY <4>1, <4>3
        <5> QED
          BY <2>2, <4>3, <5>1, <5>2
      <4>4. CASE i = Len(files[f]) + 1
        <5>1. \A j \in 1..(i - 1) : j \in DOMAIN files[f]
          BY <4>1, <4>4
        <5>2. \A j \in 1..(i - 1) : files[f][j] = Header \/ files[f][j].number < dataFrame.number
          BY <1>2, <4>2, <5>1 DEF Settled
        <5> QED
          BY <2>2, <4>4, <5>1, <5>2
      <4> QED
        BY <2>2, <4>3, <4>4
    <3> QED
      BY <3>1, <3>2
  <2> QED
    BY <1>1, <1>3, <1>5, <2>1, <2>5, <2>6 DEF Settled
<1> QED
  BY <1>4, <1>5

LEMMA WriteStep ==
  ASSUME TypeOK, FileInv, KeptInv, WriteData
  PROVE  KeptInv'
<1> DEFINE d == dataFrame
           last == Len(taken)
<1>1. /\ arrived' = arrived /\ taken' = taken /\ handed' = handed /\ published' = published
      /\ step = "write" /\ step' = "loop" /\ dataFrame' = <<>> /\ cutShort' = cutShort
      /\ updatesCounterMap_' = updatesCounterMap_
  BY DEF WriteData, feederVars, monitorVars
<1>2. /\ \/ AllRecorded' = AllRecorded /\ d.symbol \in failed'
         \/ AllRecorded' = AllRecorded \cup {d} /\ d.symbol \notin failed
      /\ Settled' = Settled \cup {d} /\ failed \subseteq failed'
      /\ swallowed' \subseteq swallowed \cup {d}
      /\ \A s \in Symbol : Ordered(s)'
  BY DataWritten
<1>3. /\ d \in Update /\ d # <<>> /\ d \notin Settled /\ \A u \in Settled : u.number < d.number
      /\ last \in Nat /\ last > 0 /\ last \in DOMAIN taken /\ d = taken[last]
      /\ \A i \in DOMAIN taken : taken[i] = d => i = last
      /\ DOMAIN taken = 1..last
  BY <1>1, InHand DEF Recording, TypeOK
<1>4. Done = last - 1 /\ Done' = last
  BY <1>1 DEF Done, Recording
<1>5. NumberInv'
  <2>1. NumberInv /\ last \in DOMAIN arrived /\ arrived[last] = d /\ DOMAIN arrived \subseteq Nat
    <3>1. Len(taken) <= Len(arrived) /\ Len(arrived) \in Nat /\ DOMAIN arrived = 1..Len(arrived)
      BY DEF KeptInv, NumberInv, TypeOK
    <3> QED
      BY <1>3, <3>1 DEF KeptInv, NumberInv
  <2>2. ASSUME NEW u \in Settled'
        PROVE  /\ u.number <= published
               /\ \A j \in DOMAIN arrived : last < j => u.number < arrived[j].number
    <3>1. CASE u \in Settled
      <4>1. \A j \in DOMAIN arrived : last < j => Done < j
        BY <1>3, <1>4, <2>1
      <4> QED
        BY <2>1, <3>1, <4>1 DEF NumberInv
    <3>2. CASE u = d
      BY <2>1, <3>2 DEF NumberInv
    <3> QED
      BY <1>2, <3>1, <3>2
  <2>3. swallowed' \subseteq Update
    BY <1>2, <1>3, <2>1 DEF NumberInv
  <2> QED
    BY <1>1, <1>4, <2>1, <2>2, <2>3 DEF NumberInv, Recording
<1>6. LossInv'
  <2>1. <<>> \notin ToSet(handed)
    <3>1. handed \in Seq(Update)
      BY DEF KeptInv, LossInv
    <3>2. \A u \in Update : "number" \in DOMAIN u
      BY DEF Update
    <3> QED
      BY <3>1, <3>2 DEF ToSet
  <2>2. Lost' = Lost
    BY <1>1, <1>2, <2>1 DEF Lost
  <2> QED
    BY <1>1, <2>2 DEF KeptInv, LossInv
<1>7. TailInv'
  <2>1. \A i \in 1..(last - 1) : /\ i \in DOMAIN taken /\ taken[i] \in Settled
                                 /\ taken[i] \in AllRecorded \/ taken[i].symbol \in failed
    BY <1>1, <1>3, <1>4 DEF KeptInv, TailInv, Over
  <2>2. \A i \in 1..last : taken[i] \in Settled' /\ (taken[i] \in AllRecorded' \/ taken[i].symbol \in failed')
    <3> SUFFICES ASSUME NEW i \in 1..last
                 PROVE  taken[i] \in Settled' /\ (taken[i] \in AllRecorded' \/ taken[i].symbol \in failed')
      OBVIOUS
    <3>1. CASE i = last
      BY <1>2, <1>3, <3>1
    <3>2. CASE i # last
      <4>1. i \in 1..(last - 1)
        <5>1. last \in Nat
          BY <1>3
        <5> HIDE DEF last
        <5> QED
          BY <3>2, <5>1
      <4> QED
        BY <1>2, <2>1, <4>1
    <3> QED
      BY <3>1, <3>2
  <2>3. LostTail'
    <3> SUFFICES ASSUME NEW i \in DOMAIN taken, NEW j \in DOMAIN taken, i < j,
                        taken[i].symbol = taken[j].symbol, taken[j] \in AllRecorded'
                 PROVE  taken[i] \in AllRecorded'
      BY <1>1 DEF LostTail
    <3>1. CASE taken[j] \in AllRecorded
      BY <1>2, <3>1 DEF KeptInv, TailInv, LostTail
    <3>2. CASE taken[j] \notin AllRecorded
      <4>1. AllRecorded' = AllRecorded \cup {d} /\ taken[j] = d /\ d.symbol \notin failed
        BY <1>2, <3>2
      <4>2. i \in 1..(last - 1)
        BY <1>3, <4>1
      <4> QED
        BY <2>1, <4>1, <4>2
    <3> QED
      BY <3>1, <3>2
  <2> QED
    BY <1>1, <1>4, <2>2, <2>3 DEF TailInv
<1>8. CountersMatchFiles'
  <2> SUFFICES ASSUME NEW s \in Symbol
               PROVE  updatesCounterMap_[s] =
                        Cardinality({i \in DOMAIN taken : taken[i].symbol = s /\ taken[i] \in Settled'}) + 0
    BY <1>1 DEF CountersMatchFiles, Settled
  <2> DEFINE K == {i \in DOMAIN taken : taken[i].symbol = s /\ taken[i] \in Settled}
             L == {i \in DOMAIN taken : taken[i].symbol = s /\ taken[i] \in Settled'}
  <2>1. updatesCounterMap_[s] = Cardinality(K) + (IF d.symbol = s THEN 1 ELSE 0)
    BY <1>1 DEF KeptInv, CountersMatchFiles, Settled, Over
  <2>2. IsFiniteSet(K) /\ Cardinality(K) \in Nat /\ last \notin K
    <3>1. K \in SUBSET (1..last) /\ IsFiniteSet(1..last)
      BY <1>3, FS_Interval
    <3> QED
      BY <1>3, <3>1, FS_Subset, FS_CardinalityType
  <2>3. CASE d.symbol = s
    <3>1. L = K \cup {last}
      BY <1>2, <1>3, <2>3
    <3>2. Cardinality(L) = Cardinality(K) + 1
      BY <2>2, <3>1, FS_AddElement
    <3> QED
      BY <2>1, <2>2, <2>3, <3>2
  <2>4. CASE d.symbol # s
    <3>1. L = K
      BY <1>2, <1>3, <2>4
    <3> QED
      BY <2>1, <2>2, <2>4, <3>1
  <2> QED
    BY <2>3, <2>4
<1> QED
  BY <1>2, <1>5, <1>6, <1>7, <1>8 DEF KeptInv

LEMMA InitKept == Init => KeptInv
<1> SUFFICES ASSUME Init PROVE KeptInv
  OBVIOUS
<1> USE DEF Init, Feeder!USInit
<1>1. AllRecorded = {} /\ Settled = {} /\ Done = 0 /\ Lost = {}
  BY DEF AllRecorded, Settled, Done, Recording, Lost, Lines, ToSet
<1>2. NumberInv /\ TailInv /\ \A s \in Symbol : Ordered(s)
  BY <1>1 DEF NumberInv, TailInv, LostTail, Ordered, Lines, Recording
<1>3. LossInv
  BY <1>1, FS_EmptySet DEF LossInv
<1>4. CountersMatchFiles
  <2>1. ASSUME NEW s \in Symbol
        PROVE  Cardinality({i \in DOMAIN taken : taken[i].symbol = s
                                                   /\ taken[i] \in AllRecorded \cup swallowed}) = 0
    <3>1. {i \in DOMAIN taken : taken[i].symbol = s /\ taken[i] \in AllRecorded \cup swallowed} = {}
      OBVIOUS
    <3> QED
      BY <3>1, FS_EmptySet
  <2> QED
    BY <2>1 DEF CountersMatchFiles, NoCounts
<1> QED
  BY <1>2, <1>3, <1>4 DEF KeptInv

\* What the files hold of all runs, as an inductive invariant.
THEOREM KeptInvariant == Spec => [](IInv /\ KeptInv)
<1>1. IInv /\ KeptInv /\ [Next]_vars => KeptInv'
  BY RecorderSteps, QuietStep, PublishStep, CutStep, RestartStep, GetUpdateStep, MetricsStep,
    WriteStep DEF IInv
<1> QED
  BY <1>1, InitKept, RecorderInvariant, PTL DEF Spec

\* However often the recorder dies and is started again, its files are in order, and
\* each death loses at most one update that no failed stream swallowed.
THEOREM RecorderKeepsUpdates == Spec => []UpdatesKept
<1>1. IInv /\ KeptInv => UpdatesKept
  <2> SUFFICES ASSUME IInv, KeptInv PROVE UpdatesKept
    OBVIOUS
  <2> DEFINE L == ToSet(handed) \ (AllRecorded \cup swallowed)
             M == Lost \cup {dataFrame}
  <2>1. /\ IsFiniteSet(Lost) /\ Cardinality(Lost) \in Nat /\ Cardinality(Lost) <= cutShort
        /\ cutShort \in Nat
    BY FS_CardinalityType DEF KeptInv, LossInv
  <2>2. CASE dataFrame = <<>>
    <3>1. <<>> \notin ToSet(handed)
      <4>1. handed \in Seq(Update)
        BY DEF KeptInv, LossInv
      <4>2. \A u \in Update : "number" \in DOMAIN u
        BY DEF Update
      <4> QED
        BY <4>1, <4>2 DEF ToSet
    <3>2. L = Lost
      BY <2>2, <3>1 DEF Lost, Settled
    <3>3. Cardinality(L) <= cutShort + 0
      BY <2>1, <3>2
    <3> QED
      BY <2>2, <3>3 DEF UpdatesKept, KeptInv, Ordered
  <2>3. CASE dataFrame # <<>>
    <3>1. IsFiniteSet(M) /\ Cardinality(M) = IF dataFrame \in Lost THEN Cardinality(Lost)
                                             ELSE Cardinality(Lost) + 1
      BY <2>1, FS_AddElement
    <3>2. L \in SUBSET M
      BY DEF Lost, Settled
    <3> HIDE DEF M, L
    <3>3. IsFiniteSet(L) /\ Cardinality(L) <= Cardinality(M)
      BY <3>1, <3>2, FS_Subset
    <3>4. Cardinality(L) \in Nat /\ Cardinality(M) \in Nat
      BY <3>1, <3>3, FS_CardinalityType
    <3>5. Cardinality(L) <= cutShort + 1
      BY <2>1, <3>1, <3>3, <3>4
    <3> QED
      BY <2>3, <3>5 DEF UpdatesKept, KeptInv, Ordered, L
  <2> QED
    BY <2>2, <2>3
<1> QED
  BY <1>1, KeptInvariant, PTL

\* A run loses the last updates of a symbol, never some before one it recorded.
THEOREM RecorderLosesTheTail == Spec => []LostTail
<1>1. KeptInv => LostTail
  BY DEF KeptInv, TailInv
<1> QED
  BY <1>1, KeptInvariant, PTL

\* The counters of a run are those of its updates it recorded or lost to a failed stream.
THEOREM RecorderCounts == Spec => []CountersMatchFiles
<1>1. KeptInv => CountersMatchFiles
  BY DEF KeptInv
<1> QED
  BY <1>1, KeptInvariant, PTL

=============================================================================

------------------------------ MODULE BNBRecorder ------------------------------
(***************************************************************************)
(* The recorder (BNBRecorder, Scheduler, RecorderMonitor): one thread that *)
(* waits for its date, subscribes, and appends every update the feeder     *)
(* hands out to the file of its symbol, until the date is over.  The       *)
(* process may die at any step, also because the feed is lost, and be      *)
(* started again over the files it left.                                   *)
(***************************************************************************)
EXTENDS Scheduler, Sequences, SequencesExt, FiniteSets

CONSTANTS Main,        \* the thread
          Symbol,      \* the symbols that trade
          Requested,   \* --symbol: a symbol, or All
          All,
          Header,      \* BookTickerMDFrame::getHeader
          Fragile,     \* symbols whose file may fail to open or to be written
          MaxStreams,  \* maxStreamsSubs_ of the feeder
          MaxTime, MaxUpdates, MaxRuns  \* bounds

ASSUME RequestedAssumption == All \notin Symbol /\ Requested \in Symbol \cup {All}
ASSUME FragileAssumption == Fragile \subseteq Symbol
ASSUME BoundsAssumption == MaxUpdates \in Nat /\ MaxRuns \in Nat \ {0}
ASSUME HeaderAssumption == Header \notin [symbol : Symbol, number : Nat]

Update == [symbol : Symbol, number : 1..MaxUpdates]
Line   == Update \cup {Header}

VARIABLES
  now,
  published,        \* updates the exchange published to the recorder
  arrived, taken, asking, closing, halted,  \* the feeder of this run, see UpdateStream
  fed,              \* symbols subscribed to
  step,             \* where the thread is, see TypeOK
  wakeAt,
  dataFrame,        \* the update in hand, or <<>>
  symbol_file_map_, \* symbols with a stream
  failed,           \* those of them whose stream failed: what is written to it is lost
  files,            \* the lines of each file that exists
  runTimeGauge_,
  updatesCounterMap_,
  runs,             \* number of times the process was started
  handed,           \* history: what getUpdate returned, in all runs
  cutShort,         \* history: runs that died or left their loop on an exception
  lateRecords,      \* history: updates recorded in this run once the date was over
  swallowed         \* history: updates written to a stream that failed

feederVars  == <<arrived, taken, asking, closing, halted>>
streamVars  == <<symbol_file_map_, failed>>
monitorVars == <<runTimeGauge_, updatesCounterMap_>>
history     == <<handed, cutShort, lateRecords, swallowed>>
vars == <<now, published, feederVars, fed, step, wakeAt, dataFrame, streamVars, files,
          monitorVars, runs, history>>

Feeder == INSTANCE UpdateStream WITH Caller <- {Main}, Frame <- Update

\* Steps with an update in hand.
Recording == {"updateMetrics", "record", "header", "write"}

TypeOK ==
  /\ now \in Nat /\ published \in 0..MaxUpdates /\ runs \in 1..MaxRuns
  /\ arrived \in Seq(Update) /\ taken \in Seq(Update)
  /\ fed \subseteq Symbol
  /\ step \in {"waitStart", "asleep", "startComponents", "subscribe", "loop", "getUpdate",
               "end", "shutdown", "gone"} \cup Recording
  /\ IF step \in Recording THEN dataFrame \in Update ELSE dataFrame = <<>>
  /\ DOMAIN files \subseteq Symbol /\ files \in [DOMAIN files -> Seq(Line)]
  /\ failed \subseteq symbol_file_map_ /\ symbol_file_map_ \subseteq Symbol
  /\ runTimeGauge_ \in Int /\ updatesCounterMap_ \in [Symbol -> Nat]

NoCounts == [s \in Symbol |-> 0]

Init ==
  /\ Feeder!USInit
  /\ now = 0 /\ published = 0 /\ runs = 1
  /\ fed = {} /\ symbol_file_map_ = {} /\ failed = {}
  /\ step = "waitStart" /\ wakeAt = 0 /\ dataFrame = <<>>
  /\ files = [s \in {} |-> <<>>]
  /\ runTimeGauge_ = 0 /\ updatesCounterMap_ = NoCounts
  /\ handed = <<>> /\ cutShort = 0 /\ lateRecords = 0 /\ swallowed = {}
-----------------------------------------------------------------------------
(* The world: time, the exchange, the end and the restart of the process.  *)

Tick ==
  /\ now < MaxTime
  /\ now' = now + 1
  /\ UNCHANGED <<published, feederVars, fed, step, wakeAt, dataFrame, streamVars, files,
                 monitorVars, runs, history>>

Publish(s) ==
  /\ s \in fed /\ step # "gone"
  /\ published < MaxUpdates
  /\ published' = published + 1
  /\ Feeder!Arrive([symbol |-> s, number |-> published'])
  /\ UNCHANGED <<now, fed, step, wakeAt, dataFrame, streamVars, files, monitorVars, runs,
                 history>>

\* The feed is lost and nothing tells the recorder; see also Die.
FeedLost ==
  /\ step # "gone" /\ fed # {}
  /\ fed' = {}
  /\ UNCHANGED <<now, published, feederVars, step, wakeAt, dataFrame, streamVars, files,
                 monitorVars, runs, history>>

\* A crash, or the feeder's handler of a lost connection ends the process.
Die ==
  /\ step # "gone"
  /\ step' = "gone"
  /\ dataFrame' = <<>>
  /\ symbol_file_map_' = {} /\ failed' = {}
  /\ cutShort' = cutShort + 1
  /\ UNCHANGED <<now, published, feederVars, fed, wakeAt, files, monitorVars, runs, handed,
                 lateRecords, swallowed>>

\* Only the files outlive a process.
Restart ==
  /\ step = "gone"
  /\ runs < MaxRuns
  /\ runs' = runs + 1
  /\ arrived' = <<>> /\ taken' = <<>> /\ asking' = {} /\ closing' = FALSE /\ halted' = FALSE
  /\ fed' = {} /\ step' = "waitStart" /\ wakeAt' = 0
  /\ runTimeGauge_' = 0 /\ updatesCounterMap_' = NoCounts
  /\ lateRecords' = 0
  /\ UNCHANGED <<now, published, dataFrame, streamVars, files, handed, cutShort,
                 swallowed>>
-----------------------------------------------------------------------------
(* Before the loop of run.                                                 *)

\* waitStart of the scheduler: the stop time is looked at before the sleep.
WaitStart ==
  /\ step = "waitStart"
  /\ IF DateIsPast(now)
     THEN step' = "shutdown" /\ UNCHANGED wakeAt
     ELSE step' = "asleep" /\ wakeAt' = now + SleepTime(now)
  /\ UNCHANGED <<now, published, feederVars, fed, dataFrame, streamVars, files,
                 monitorVars, runs, history>>

WakeUp ==
  /\ step = "asleep" /\ now >= wakeAt
  /\ step' = "startComponents"
  /\ UNCHANGED <<now, published, feederVars, fed, wakeAt, dataFrame, streamVars, files,
                 monitorVars, runs, history>>

\* An exception of the broker's or the feeder's start ends the run.
StartComponents ==
  /\ step = "startComponents"
  /\ step' \in {"subscribe", "shutdown"}
  /\ UNCHANGED <<now, published, feederVars, fed, wakeAt, dataFrame, streamVars, files,
                 monitorVars, runs, history>>

\* All symbols that trade, none when the response is an error.
SubscriptionLists == IF Requested = All THEN {Symbol, {}} ELSE {{Requested}}

\* The list is cut at the limit; a request the exchange refuses feeds nothing.
SubscribeToTickers ==
  /\ step = "subscribe"
  /\ \E list \in SubscriptionLists :
       /\ fed' \in SUBSET list
       /\ Cardinality(fed') <= MaxStreams
  /\ step' = "loop"
  /\ UNCHANGED <<now, published, feederVars, wakeAt, dataFrame, streamVars, files,
                 monitorVars, runs, history>>

\* getResponseForId throws, which run does not catch; main does.
NoSubscriptionList ==
  /\ step = "subscribe" /\ Requested = All
  /\ step' = "shutdown"
  /\ UNCHANGED <<now, published, feederVars, fed, wakeAt, dataFrame, streamVars, files,
                 monitorVars, runs, history>>
-----------------------------------------------------------------------------
(* The loop of run.                                                        *)

\* Mutant: the loop runs until the feeder ends.
LoopForever ==
  /\ step = "loop"
  /\ Feeder!Ask(Main)
  /\ step' = "getUpdate"
  /\ UNCHANGED <<now, published, fed, wakeAt, dataFrame, streamVars, files, monitorVars,
                 runs, history>>

Loop ==
  /\ step = "loop"
  /\ IF now < StopTime
     THEN step' = "getUpdate" /\ Feeder!Ask(Main)
     ELSE step' = "end" /\ UNCHANGED feederVars
  /\ UNCHANGED <<now, published, fed, wakeAt, dataFrame, streamVars, files, monitorVars,
                 runs, history>>

GetUpdate ==
  /\ step = "getUpdate"
  /\ Feeder!Take(Main)
  /\ step' = "updateMetrics"
  /\ dataFrame' = arrived[Len(taken) + 1]
  /\ handed' = Append(handed, dataFrame')
  /\ UNCHANGED <<now, published, fed, wakeAt, streamVars, files, monitorVars, runs,
                 cutShort, lateRecords, swallowed>>

\* Mutant: the update for which a counter is made is not counted.
UpdateMetricsFromSecond ==
  /\ step = "updateMetrics"
  /\ step' = "record"
  /\ runTimeGauge_' = TimeUntil(now, StartTime)
  /\ updatesCounterMap_' =
       IF dataFrame.symbol \in symbol_file_map_
       THEN [updatesCounterMap_ EXCEPT ![dataFrame.symbol] = @ + 1] ELSE updatesCounterMap_
  /\ UNCHANGED <<now, published, feederVars, fed, wakeAt, dataFrame, streamVars, files,
                 runs, history>>

\* updateMetrics of the monitor is given the time to the start as the run time.
UpdateMetrics ==
  /\ step = "updateMetrics"
  /\ step' = "record"
  /\ runTimeGauge_' = TimeUntil(now, StartTime)
  /\ updatesCounterMap_' = [updatesCounterMap_ EXCEPT ![dataFrame.symbol] = @ + 1]
  /\ UNCHANGED <<now, published, feederVars, fed, wakeAt, dataFrame, streamVars, files,
                 runs, history>>

\* recordData with a file that is open.
FileIsOpen ==
  /\ step = "record"
  /\ dataFrame.symbol \in symbol_file_map_
  /\ step' = "write"
  /\ UNCHANGED <<now, published, feederVars, fed, wakeAt, dataFrame, streamVars, files,
                 monitorVars, runs, history>>

OpenFile(after, content) ==
  /\ dataFrame.symbol \notin symbol_file_map_
  /\ symbol_file_map_' = symbol_file_map_ \cup {dataFrame.symbol}
  /\ files' = [s \in DOMAIN files \cup {dataFrame.symbol} |->
                 IF s = dataFrame.symbol THEN content ELSE files[s]]
  /\ step' = after
  /\ UNCHANGED <<now, published, feederVars, fed, wakeAt, dataFrame, failed, monitorVars, runs,
                 history>>

\* Mutant: the existing file is not opened for appending.
OpenExistingTruncates ==
  /\ step = "record" /\ dataFrame.symbol \in DOMAIN files
  /\ OpenFile("write", <<>>)

\* Mutant: the header is written whether the file existed or not.
OpenExistingHeader ==
  /\ step = "record" /\ dataFrame.symbol \in DOMAIN files
  /\ OpenFile("header", files[dataFrame.symbol])

\* openFileForSymbol: an existing file is appended to; a new one gets a header next.
OpenExisting ==
  /\ step = "record" /\ dataFrame.symbol \in DOMAIN files
  /\ OpenFile("write", files[dataFrame.symbol])
OpenNew ==
  /\ step = "record" /\ dataFrame.symbol \notin DOMAIN files
  /\ OpenFile("header", <<>>)

\* create_directories throws: the exception ends the loop.
CannotCreate ==
  /\ step = "record" /\ dataFrame.symbol \notin DOMAIN files
  /\ step' = "end"
  /\ dataFrame' = <<>>
  /\ cutShort' = cutShort + 1
  /\ UNCHANGED <<now, published, feederVars, fed, wakeAt, streamVars, files, monitorVars,
                 runs, handed, lateRecords, swallowed>>

\* The stream does not open (no file handle left): it is in the map all the same,
\* and what is written to it is lost without an exception.
OpenFails ==
  /\ step = "record" /\ dataFrame.symbol \in Fragile \ symbol_file_map_
  /\ symbol_file_map_' = symbol_file_map_ \cup {dataFrame.symbol}
  /\ failed' = failed \cup {dataFrame.symbol}
  /\ step' = IF dataFrame.symbol \in DOMAIN files THEN "write" ELSE "header"
  /\ UNCHANGED <<now, published, feederVars, fed, wakeAt, dataFrame, files, monitorVars, runs,
                 history>>

Written(line) == [files EXCEPT ![dataFrame.symbol] = Append(@, line)]

\* Mutant: a stream that failed is cleared and used again.
WriteLineClearing(line) ==
  \/ dataFrame.symbol \notin failed /\ files' = Written(line) /\ UNCHANGED failed
  \/ dataFrame.symbol \in Fragile /\ UNCHANGED <<files, failed>>

\* endl flushes every line.  On a full disk the flush fails and the stream with it,
\* for good; the line stays in its buffer, and closing the file may yet write it.
WriteLine(line) ==
  \/ dataFrame.symbol \notin failed /\ files' = Written(line) /\ UNCHANGED failed
  \/ /\ dataFrame.symbol \in Fragile \ failed
     /\ failed' = failed \cup {dataFrame.symbol}
     /\ files' \in {files, Written(line)}
  \/ dataFrame.symbol \in failed /\ UNCHANGED <<files, failed>>

\* Mutant: the update that made the file is not written.
WriteHeaderOnly ==
  /\ step = "header"
  /\ WriteLine(Header)
  /\ step' = "loop"
  /\ UNCHANGED <<now, published, feederVars, fed, wakeAt, dataFrame, symbol_file_map_,
                 monitorVars, runs, history>>

WriteHeader ==
  /\ step = "header"
  /\ WriteLine(Header)
  /\ step' = "write"
  /\ UNCHANGED <<now, published, feederVars, fed, wakeAt, dataFrame, symbol_file_map_,
                 monitorVars, runs, history>>

WriteData ==
  /\ step = "write"
  /\ WriteLine(dataFrame)
  /\ swallowed' = IF files' = files THEN swallowed \cup {dataFrame} ELSE swallowed
  /\ dataFrame' = <<>>
  /\ step' = "loop"
  /\ lateRecords' = IF now >= StopTime THEN lateRecords + 1 ELSE lateRecords
  /\ UNCHANGED <<now, published, feederVars, fed, wakeAt, symbol_file_map_, monitorVars, runs,
                 handed, cutShort>>
-----------------------------------------------------------------------------
(* After the loop: the end of run is logged, and the destructor runs.      *)

EndOfRun ==
  /\ step = "end"
  /\ step' = "shutdown"
  /\ UNCHANGED <<now, published, feederVars, fed, wakeAt, dataFrame, streamVars, files,
                 monitorVars, runs, history>>

\* closeFiles, then stop of the broker and of the feeder.
Shutdown ==
  /\ step = "shutdown"
  /\ step' = "gone"
  /\ symbol_file_map_' = {} /\ failed' = {}
  /\ Feeder!Stop /\ closing'
  /\ UNCHANGED <<now, published, fed, wakeAt, dataFrame, files, monitorVars, runs, history>>

Thread ==
  \/ WaitStart \/ WakeUp \/ StartComponents \/ SubscribeToTickers \/ NoSubscriptionList
  \/ Loop \/ GetUpdate \/ UpdateMetrics \/ FileIsOpen \/ OpenExisting \/ OpenNew
  \/ OpenFails \/ CannotCreate \/ WriteHeader \/ WriteData \/ EndOfRun \/ Shutdown

Next ==
  \/ Tick \/ FeedLost \/ Die \/ Restart
  \/ \E s \in Symbol : Publish(s)
  \/ Thread

\* The thread runs, and time passes.
Spec == Init /\ [][Next]_vars /\ WF_vars(Thread) /\ WF_vars(Tick)
-----------------------------------------------------------------------------
(* Properties.                                                             *)

Lines(s)    == IF s \in DOMAIN files THEN files[s] ELSE <<>>
AllRecorded == UNION {ToSet(Lines(s)) \ {Header} : s \in Symbol}

\* Over all runs a file holds the updates of its symbol in the order they were
\* handed out, each once; besides what a failed stream swallowed, a run loses at
\* most the update in hand when it dies or leaves its loop on an exception.
UpdatesKept ==
  /\ \A s \in Symbol : \A i \in DOMAIN Lines(s) : Lines(s)[i] # Header =>
       /\ Lines(s)[i].symbol = s
       /\ \A j \in 1..(i - 1) : Lines(s)[j] = Header \/ Lines(s)[j].number < Lines(s)[i].number
  /\ Cardinality(ToSet(handed) \ (AllRecorded \cup swallowed))
       <= cutShort + (IF dataFrame = <<>> THEN 0 ELSE 1)

\* What a run loses of a symbol is the end: a file has no hole that the header and
\* the lines around it would hide, although streams fail silently.
LostTail ==
  \A i, j \in DOMAIN taken :
    i < j /\ taken[i].symbol = taken[j].symbol /\ taken[j] \in AllRecorded =>
      taken[i] \in AllRecorded

\* A header is a first line, also in a file that several runs appended to.
HeaderOnTopOnly ==
  \A s \in Symbol : \A i \in DOMAIN Lines(s) : Lines(s)[i] = Header => i = 1

\* The counter of a symbol is the number of its updates this run recorded or a
\* failed stream swallowed, and the one in hand: the metrics do not show a loss.
CountersMatchFiles ==
  step \notin {"end", "shutdown", "gone"} =>
    \A s \in Symbol :
      updatesCounterMap_[s] =
        Cardinality({i \in DOMAIN taken : taken[i].symbol = s /\ taken[i] \in AllRecorded \cup swallowed})
          + (IF step \in {"record", "header", "write"} /\ dataFrame.symbol = s THEN 1 ELSE 0)

\* Whatever time the process is started and the thread runs: past its sleep it is
\* less than a second before the start of the date (the sleep is cut to whole
\* seconds), and once the date is over it records at most one more update.
RecordsInItsDate ==
  /\ lateRecords <= 1
  /\ step \in Recording \cup {"startComponents", "subscribe", "loop", "getUpdate", "end"} =>
       now > StartTime - Second

\* Once the date is over, the next update is enough to end the run.
UpdateEndsRun ==
  (step = "getUpdate" /\ now >= StopTime /\ taken # arrived) ~> step = "gone"

\* What BNBRecorder.cpp logs for a file that did not exist, "creating and writing
\* header": a file with data starts with the header.
HeaderFirst ==
  \A s \in Symbol : Lines(s) # <<>> => Lines(s)[1] = Header

=============================================================================

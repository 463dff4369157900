------------------------------ MODULE ControlInput -----------------------------
(*****************************************************************************)
(* How operator commands come in (systems/control): one thread reads the     *)
(* console, one follows a command file that other programs append to, both   *)
(* parse lines into commands and put them into the queue of their target;    *)
(* CS takes its commands from there (pop_command, cs_control_bridge.cpp) and *)
(* executes them as in CsOperatingMode and CsScheduler.                      *)
(*                                                                           *)
(* A line is a sequence of words; the file is a sequence of words and ends   *)
(* of line, an offset in it a number of these.  Left out: a file that cannot *)
(* be opened (the thread tries again) and the numbers among the arguments.   *)
(*****************************************************************************)
EXTENDS Integers, Sequences, FiniteSets, FiniteSetsExt

CONSTANTS
    NL,          \* the end of a line in the file
    WrittenLines,   \* the lines written to the file
    TypedLines,  \* the lines typed on the console
    MaxWrites,   \* bound: lines written to the file
    MaxEmptied,  \* bound: how often the file is emptied
    MaxTyped     \* bound: lines typed

\* The lines are sequences of words, none of which is the end of a line, and one
\* of them is the longest.
ASSUME LinesAssumption ==
    /\ WrittenLines \subseteq Seq(STRING)
    /\ \A line \in WrittenLines : \A i \in DOMAIN line : line[i] # NL
    /\ \E line \in WrittenLines : \A other \in WrittenLines : Len(other) <= Len(line)
    /\ MaxWrites \in Nat \ {0}

Workers == {"console", "file"}
Targets == {"cs", "pss", "tcs", "tms", "mns", "ls", "any"}

VARIABLES
    enabled,                         \* the workers start() is to start
    starter,                         \* what start() does next
    G_RUNNING, G_STOP, G_ACTIVE,
    pc,                              \* of the workers
    G_QUEUES,
    file, offset, size, cursor,      \* the file, and the local variables of file_loop
    rest,                            \* what a writer has not written yet
    writes, emptiedTimes, typed,     \* counters for the bounds
    \* history:
    emptied,                         \* file_loop has not seen that the file was emptied
    split,                           \* starts of the lines written in two parts ...
    cut,                             \* ... and of those executed in parts
    late,                            \* what was written while file_loop was reading
    count,                           \* how often file_loop has read a word
    taken                            \* starts of the lines CS has taken

workerVars == <<enabled, starter, G_RUNNING, G_STOP, G_ACTIVE, pc>>
readerVars == <<offset, size, cursor>>
writerVars == <<rest, writes, emptiedTimes, typed>>
pastVars   == <<emptied, split, cut, late, count, taken>>
vars       == <<workerVars, G_QUEUES, file, readerVars, writerVars, pastVars>>

Longest == Max({Len(line) : line \in WrittenLines})
Positions == 1 .. MaxWrites * (Longest + 1)

-------------------------------------------------------------------------------
(* parse_line *)

\* A first word that names a target is the target; without one it is CS.
Addressed(line) == line # <<>> /\ line[1] \in Targets
Target(line) == IF Addressed(line) THEN line[1] ELSE "cs"
Order(line)  == IF Addressed(line) THEN Tail(line) ELSE line

Verbs == {"help", "quit", "exit", "nominal", "exchange", "ex", "enable", "disable",
          "focus", "status", "sendcmd", "sendcmdbuf", "cmd", "stagecmd"}

\* How many words after it a verb takes; what follows them is ignored.
Arguments(order) ==
    CASE order[1] \in {"help", "quit", "exit", "nominal"} -> 0
      [] order[1] \in {"cmd", "stagecmd"} -> Len(order)
      [] OTHER -> 1

Valid(line) == Order(line) # <<>> /\ Head(Order(line)) \in Verbs
Quits(line) == Valid(line) /\ Head(Order(line)) \in {"quit", "exit"}

\* Missing arguments are not an error here.
Command(line, from) ==
    LET order == Order(line)
    IN [verb |-> order[1], from |-> from,
        args |-> SubSeq(order, 2, Min({1 + Arguments(order), Len(order)}))]

\* enqueue_command, under the mutex
Enqueue(line, from) ==
    G_QUEUES' = [G_QUEUES EXCEPT ![Target(line)] = Append(@, Command(line, from))]

-------------------------------------------------------------------------------

Init ==
    /\ enabled \in SUBSET Workers \ {{}}   \* ARP_CONTROL_CONSOLE, ARP_CONTROL_FILE
    /\ starter = "console"
    /\ G_RUNNING = FALSE /\ G_STOP = FALSE /\ G_ACTIVE = 0
    /\ pc = [w \in Workers |-> "none"]
    /\ G_QUEUES = [t \in Targets |-> <<>>]
    /\ file \in {<<>>} \cup {l \o <<NL>> : l \in WrittenLines}   \* of an earlier run
    /\ offset = 0 /\ size = 0 /\ cursor = 0
    /\ rest = <<>> /\ writes = (IF file = <<>> THEN 0 ELSE 1)
    /\ emptiedTimes = 0 /\ typed = 0
    /\ emptied = FALSE /\ split = {} /\ cut = {} /\ late = {} /\ taken = {}
    /\ count = [p \in Positions |-> 0]

(* start(), called once, when main starts: the flag that it runs already is  *)
(* never set.                                                                *)

StartWorker(w, next) ==
    /\ starter = w /\ starter' = next
    /\ pc' = IF w \in enabled THEN [pc EXCEPT ![w] = "new"] ELSE pc
    /\ UNCHANGED <<enabled, G_RUNNING, G_STOP, G_ACTIVE, G_QUEUES, file, readerVars,
                   writerVars, pastVars>>

\* At the end it looks whether a worker has started and, in a step of its own,
\* clears the flag if none had: one may have set it in between.
CheckWorkers ==
    /\ starter = "check" /\ starter' = IF G_ACTIVE = 0 THEN "clear" ELSE "done"
    /\ UNCHANGED <<enabled, G_RUNNING, G_STOP, G_ACTIVE, pc, G_QUEUES, file, readerVars,
                   writerVars, pastVars>>

ClearRunning ==
    /\ starter = "clear" /\ starter' = "done"
    /\ G_RUNNING' = FALSE
    /\ UNCHANGED <<enabled, G_STOP, G_ACTIVE, pc, G_QUEUES, file, readerVars,
                   writerVars, pastVars>>

Start ==
    \/ StartWorker("console", "file") \/ StartWorker("file", "check")
    \/ CheckWorkers \/ ClearRunning

(* worker_started and worker_stopped: two atomic steps each *)

SetActive(w, from, to, active) ==
    /\ pc[w] = from /\ pc' = [pc EXCEPT ![w] = to]
    /\ G_ACTIVE' = active
    /\ UNCHANGED <<enabled, starter, G_RUNNING, G_STOP, G_QUEUES, file, readerVars,
                   writerVars, pastVars>>

SetRunning(w, from, to, running) ==
    /\ pc[w] = from /\ pc' = [pc EXCEPT ![w] = to]
    /\ G_RUNNING' = running
    /\ UNCHANGED <<enabled, starter, G_ACTIVE, G_STOP, G_QUEUES, file, readerVars,
                   writerVars, pastVars>>

\* Mutant: one worker is left.
LastWorkerOne(left) == left = 1
LastWorker(left) == left = 0

Started(w) ==
    \/ SetActive(w, "new", "added", G_ACTIVE + 1)
    \/ SetRunning(w, "added", "loop", TRUE)

Stopped(w) ==
    \/ LET left == G_ACTIVE - 1 IN
         SetActive(w, "stopping", IF LastWorker(left) THEN "last" ELSE "ended", left)
    \/ SetRunning(w, "last", "ended", FALSE)

-------------------------------------------------------------------------------
(* console_loop *)

\* A valid line that does not quit; others change nothing.
TypeLine ==
    /\ pc["console"] = "loop" /\ ~G_STOP
    /\ typed < MaxTyped /\ typed' = typed + 1
    /\ \E line \in TypedLines : Valid(line) /\ ~Quits(line) /\ Enqueue(line, 0)
    /\ UNCHANGED <<workerVars, file, readerVars, rest, writes, emptiedTimes, pastVars>>

\* The end of the input ends this thread only, quit stops the other one too.
EndConsole ==
    /\ pc["console"] = "loop" /\ ~G_STOP
    /\ \/ UNCHANGED G_STOP
       \/ (\E line \in TypedLines : Quits(line)) /\ G_STOP' = TRUE
    /\ pc' = [pc EXCEPT !["console"] = "stopping"]
    /\ UNCHANGED <<enabled, starter, G_RUNNING, G_ACTIVE, G_QUEUES, file, readerVars,
                   writerVars, pastVars>>

-------------------------------------------------------------------------------
(* The writers of the file (outside): a program that appends whole lines, an *)
(* editor or a script that does not, and somebody who empties the file.      *)

LineStart(p) == CHOOSE s \in 1 .. p :
                  /\ s = 1 \/ file[s - 1] = NL
                  /\ \A q \in s .. p - 1 : file[q] # NL

Grow(items) ==
    /\ file' = file \o items
    /\ late' = IF pc["file"] = "read"
               THEN late \cup (Len(file) + 1 .. Len(file')) ELSE late

WriteLine ==
    /\ rest = <<>> /\ writes < MaxWrites /\ writes' = writes + 1
    /\ \E line \in WrittenLines, k \in 1 .. Longest + 1 :
         LET text == line \o <<NL>> IN
         /\ k <= Len(text)
         /\ Grow(SubSeq(text, 1, k)) /\ rest' = SubSeq(text, k + 1, Len(text))
         /\ split' = IF k < Len(line) THEN split \cup {Len(file) + 1} ELSE split
    /\ UNCHANGED <<workerVars, G_QUEUES, readerVars, emptiedTimes, typed, emptied,
                   cut, count, taken>>

WriteRest ==
    /\ rest # <<>> /\ rest' = <<>>
    /\ Grow(rest)
    /\ UNCHANGED <<workerVars, G_QUEUES, readerVars, writes, emptiedTimes, typed,
                   emptied, split, cut, count, taken>>

\* What was read of the file and taken from it says nothing of the new one.
Forget ==
    /\ count' = [p \in Positions |-> 0]
    /\ late' = {} /\ taken' = {} /\ cut' = {}
    /\ G_QUEUES' = [t \in Targets |->
         [i \in DOMAIN G_QUEUES[t] |-> [G_QUEUES[t][i] EXCEPT !.from = 0]]]

\* Not while the file is read: what is still in a buffer would be read too.
Empty ==
    /\ rest = <<>> /\ file # <<>>
    /\ pc["file"] = "read" => cursor = offset
    /\ emptiedTimes < MaxEmptied /\ emptiedTimes' = emptiedTimes + 1
    /\ file' = <<>> /\ split' = {}
    /\ emptied' = (offset > 0 \/ pc["file"] = "read")
    /\ Forget
    /\ UNCHANGED <<workerVars, readerVars, rest, writes, typed>>

-------------------------------------------------------------------------------
(* file_loop *)

\* A file that has become shorter is read from its beginning.
\* Mutant: it is not noticed.
BeginNever == offset
Begin == IF Len(file) < offset THEN 0 ELSE offset

Poll ==
    /\ pc["file"] = "loop" /\ ~G_STOP
    /\ offset' = Begin
    /\ IF Len(file) > offset'
       THEN /\ size' = Len(file) /\ cursor' = offset'
            /\ pc' = [pc EXCEPT !["file"] = "read"]
       ELSE UNCHANGED <<size, cursor, pc>>
    /\ IF offset' < offset
       THEN Forget /\ emptied' = FALSE
       ELSE UNCHANGED <<G_QUEUES, emptied, cut, late, count, taken>>
    /\ UNCHANGED <<enabled, starter, G_RUNNING, G_STOP, G_ACTIVE, file, writerVars, split>>

\* getline reads to the end of the line or, if that is not there, of the file,
\* whatever has been written since size was taken.
LineEnd == CHOOSE e \in cursor + 1 .. Len(file) + 1 :
             /\ e = Len(file) + 1 \/ file[e] = NL
             /\ \A p \in cursor + 1 .. e - 1 : file[p] # NL

\* Mutant: the offset is not moved.
EndReadingThere ==
    /\ pc' = [pc EXCEPT !["file"] = "loop"]
    /\ UNCHANGED offset
    /\ cursor' = 0 /\ size' = 0

EndReading ==
    /\ pc' = [pc EXCEPT !["file"] = "loop"]
    /\ offset' = size
    /\ cursor' = 0 /\ size' = 0

\* What is read from there is all of a line, but perhaps for its end.
Whole(from) ==
    /\ from = LineStart(from)
    /\ LineEnd > Len(file) => rest \in {<<>>, <<NL>>}

ReadLine ==
    /\ pc["file"] = "read" /\ cursor < Len(file)
    /\ LET line  == SubSeq(file, cursor + 1, LineEnd - 1)
           from  == cursor + 1
           words == from .. LineEnd - 1
       IN /\ IF Valid(line) /\ ~Quits(line) THEN Enqueue(line, from) ELSE UNCHANGED G_QUEUES
          /\ count' = [p \in Positions |-> IF p \in words THEN count[p] + 1 ELSE count[p]]
          /\ cut' = cut \cup {LineStart(p) : p \in IF Whole(from) THEN {} ELSE words}
    /\ IF LineEnd > Len(file)     \* getline has met the end of the file
       THEN EndReading
       ELSE cursor' = LineEnd /\ UNCHANGED <<pc, offset, size>>
    /\ UNCHANGED <<enabled, starter, G_RUNNING, G_STOP, G_ACTIVE, file, writerVars,
                   emptied, split, late, taken>>

\* getline fails: there is nothing more, or the file is shorter now.
ReadEnd ==
    /\ pc["file"] = "read" /\ cursor >= Len(file)
    /\ EndReading
    /\ UNCHANGED <<enabled, starter, G_RUNNING, G_STOP, G_ACTIVE, G_QUEUES, file,
                   writerVars, pastVars>>

EndFile ==
    /\ pc["file"] = "loop" /\ G_STOP
    /\ pc' = [pc EXCEPT !["file"] = "stopping"]
    /\ UNCHANGED <<enabled, starter, G_RUNNING, G_STOP, G_ACTIVE, G_QUEUES, file,
                   readerVars, writerVars, pastVars>>

-------------------------------------------------------------------------------
(* CS: pop_command(cs), as often as it finds something, in every step *)

Source == IF G_QUEUES["cs"] # <<>> THEN "cs" ELSE "any"

Pop ==
    /\ G_QUEUES[Source] # <<>>
    /\ G_QUEUES' = [G_QUEUES EXCEPT ![Source] = Tail(@)]
    /\ taken' = taken \cup {Head(G_QUEUES[Source]).from}
    /\ UNCHANGED <<workerVars, file, readerVars, writerVars, emptied, split, cut, late, count>>

-------------------------------------------------------------------------------

Worker(w) == Started(w) \/ Stopped(w)
FileLoop  == Poll \/ ReadLine \/ ReadEnd \/ EndFile

Next ==
    \/ Start
    \/ \E w \in Workers : Worker(w)
    \/ TypeLine \/ EndConsole
    \/ WriteLine \/ WriteRest \/ Empty
    \/ FileLoop
    \/ Pop

\* The threads run; nobody has to type or to write.
Fairness ==
    /\ WF_vars(Start) /\ \A w \in Workers : WF_vars(Worker(w))
    /\ WF_vars(FileLoop) /\ WF_vars(Pop)

Spec     == Init /\ [][Next]_vars
FairSpec == Spec /\ Fairness

-------------------------------------------------------------------------------
(* Properties *)

\* While the file only grows, every line is read: nothing before the offset has
\* been left out; a word is read once, or twice if it was written while
\* file_loop was reading, for the offset is then the size from before; and a
\* line is executed whole unless its writer has written it in two parts.
LinesRead ==
    ~emptied =>
      /\ \A p \in 1 .. offset : file[p] = NL \/ count[p] > 0
      /\ \A p \in Positions : count[p] <= IF p \in late THEN 2 ELSE 1
      /\ cut \subseteq split

\* A command for CS, or for any system, that stands in the file from position p.
\* (A file emptied and filled again to the offset is not known to be new.)
TextFrom(p) ==
    LET end == CHOOSE e \in p .. Len(file) + 1 :
                 /\ e = Len(file) + 1 \/ file[e] = NL
                 /\ \A q \in p .. e - 1 : file[q] # NL
    IN SubSeq(file, p, end - 1)
ForCs(p) ==
    /\ "file" \in enabled
    /\ p <= Len(file) /\ file[p] # NL /\ LineStart(p) = p /\ p \notin split
    /\ LET line == TextFrom(p) IN
         Valid(line) /\ ~Quits(line) /\ Target(line) \in {"cs", "any"}
    /\ ~(emptied /\ Len(file) >= offset)

\* Every command written to the file for CS gets to CS, also those written while
\* the file is being read or before the program started, and those of a file
\* that was emptied, unless the operator quits first.
NotTaken   == {p \in Positions : ForCs(p) /\ p \notin taken}
LinesTaken == NotTaken # {} ~> NotTaken = {} \/ G_STOP

\* quit on the console ends both workers, whenever it comes, also while start()
\* is under way; and when all have ended the program does not count as running,
\* in whatever order they and start(), between its look at the workers and its
\* store, set the flag.
AllEnded    == starter = "done" /\ \A w \in enabled : pc[w] = "ended"
FlagSettled == AllEnded => ~G_RUNNING
QuitEnds    == [](FlagSettled /\ (G_STOP => <>AllEnded))

================================================================================

------------------------------ MODULE Spooler ------------------------------
(***************************************************************************)
(* The background task of Scheduler as it is: the queue handler of         *)
(* SPOOLER.ASM ($C75D), which prints the files PRINT puts in a circular    *)
(* queue.  PRINT, QCHECK and the printer driver are not in the repository: *)
(* they are modelled by what the handler relies on.                        *)
(***************************************************************************)
EXTENDS Scheduler, SequencesExt

CONSTANTS QueueSize,   \* entries from ZC810 to SYSFCB: twelve
          MaxJobs,     \* bound: jobs ever queued
          MaxCopies,   \* bound: extra copies of a job
          MaxChars,    \* bound: characters in a file
          Chars,       \* what a file may contain
          Commands     \* QCHECK's commands in use: "kill", "suspend"

ASSUME SpoolerAssumption ==
  /\ QueueSize \in Nat \ {0} /\ MaxJobs \in Nat /\ MaxCopies \in Nat /\ MaxChars \in Nat
  /\ Chars \subseteq {"cr", "lf", "other"} /\ Commands \subseteq {"kill", "suspend"}

VARIABLES
  step,       \* the handler's place outside FMS
  queue,      \* per slot, the job and the extra copies still to make
  ZC719,      \* the slot of the current entry
  tail,       \* the slot of the next entry: PRINT's pointer, at $C717
  ZC71B,      \* entries in the queue
  ZC71C,      \* 1 when a carriage return waits for its line feed
  ZC71D,      \* 1 when QCHECK has asked to kill the current print
  ZC71E,      \* 1 while QCHECK suspends printing
  todo,       \* characters on their way to the printer
  timer,      \* the timer runs
  adding,     \* PRINT has added an entry, and not yet looked at PR1
  requested,  \* history: the extra copies each job was queued with
  reading,    \* history: the job of the entry the open file was found in
  pages,      \* history: per job, the copies brought to their end
  text,       \* history: the characters read from the file in this copy
  paper,      \* history: the characters printed of this copy
  pending     \* history: ZC71C when this copy began

queueVars == <<queue, ZC719, tail, ZC71B>>
flags == <<ZC71C, ZC71D, ZC71E>>
history == <<requested, reading, pages, text, paper, pending>>
spoolVars == <<step, queueVars, flags, todo, timer, adding, history>>
vars == <<schedVars, spoolVars>>

Slot == 0..(QueueSize - 1)

\* Four bytes on, and from SYSFCB back to ZC810.
NextSlot(s) == (s + 1) % QueueSize
NoEntry == [job |-> 0, copies |-> 0]

Init ==
  /\ SchedInit
  /\ step = "exit"
  /\ queue = [s \in Slot |-> NoEntry] /\ ZC719 = 0 /\ tail = 0 /\ ZC71B = 0
  /\ ZC71C = 0 /\ ZC71D = 0 /\ ZC71E = 0
  /\ todo = <<>> /\ timer = FALSE /\ adding = FALSE
  /\ requested = <<>> /\ reading = 0 /\ pages = [j \in 1..MaxJobs |-> 0]
  /\ text = <<>> /\ paper = <<>> /\ pending = 0

-----------------------------------------------------------------------------
\* The handler is at an instruction of its own.
Handler(place) == At("PR1", "program") /\ step = place

\* Mutant: the handler looks at the queue with interrupts on.
OpenQueue ==
  /\ Handler("queue")
  /\ step' = "count"
  /\ UNCHANGED <<schedVars, queueVars, flags, todo, timer, adding, history>>

\* ZC75D: interrupts off.
Queue ==
  /\ Handler("queue")
  /\ SetMask(TRUE)
  /\ step' = "count"
  /\ UNCHANGED <<queueVars, flags, todo, timer, adding, history>>

\* The queue is empty, or its current entry's file is opened.
Count ==
  /\ Handler("count")
  /\ \/ /\ ZC71B = 0
        /\ step' = "done"
        /\ UNCHANGED <<reading, text, paper, pending>>
     \/ /\ ZC71B # 0
        /\ step' = "suspended"
        /\ reading' = queue[ZC719].job
        /\ text' = <<>> /\ paper' = <<>> /\ pending' = ZC71C
  /\ UNCHANGED <<schedVars, queueVars, flags, todo, timer, adding, requested, pages>>

\* ZC783: while printing is suspended, the foreground's turn.
Suspended ==
  /\ Handler("suspended")
  /\ \/ ZC71E = 1 /\ Yield /\ UNCHANGED step
     \/ ZC71E = 0 /\ step' = "read" /\ UNCHANGED schedVars
  /\ UNCHANGED <<queueVars, flags, todo, timer, adding, history>>

\* ZC7C7: the copy is closed with a line and a form feed.
Trailer == <<"cr", "lf", "tof">>

\* ZC79B: a killed print is closed; otherwise the next character is read.
Read ==
  /\ Handler("read")
  /\ \/ ZC71D = 1 /\ todo' = Trailer /\ step' = "out" /\ UNCHANGED schedVars
     \/ ZC71D = 0 /\ CallFms("PR1", "character") /\ step' = "result" /\ UNCHANGED todo
  /\ UNCHANGED <<queueVars, flags, timer, adding, history>>

\* Mutant: the line feed after a carriage return is printed twice.
AlwaysFeed(ch) == IF ZC71C = 1 THEN <<"lf", ch>> ELSE <<ch>>

\* A carriage return is followed by a line feed, the file's or the handler's.
WithLineFeed(ch) == IF ZC71C = 1 /\ ch # "lf" THEN <<"lf", ch>> ELSE <<ch>>

\* The end of the file, or an error, closes the copy; a character is printed.
Result ==
  /\ Handler("result")
  /\ \/ /\ error["PR1"]
        /\ todo' = Trailer
        /\ UNCHANGED <<ZC71C, text>>
     \/ /\ ~error["PR1"]
        /\ \E ch \in Chars :
             /\ todo' = WithLineFeed(ch)
             /\ ZC71C' = IF ch = "cr" THEN 1 ELSE 0
             /\ text' = Append(text, ch)
  /\ step' = "out"
  /\ UNCHANGED <<schedVars, queueVars, ZC71D, ZC71E, timer, adding,
                 requested, reading, pages, paper, pending>>

\* ZC7F6: the printer is not ready, so it is the foreground's turn.
Wait ==
  /\ Handler("out")
  /\ Yield
  /\ UNCHANGED spoolVars

\* ZC7F9: the printer is ready and takes the character.
Out ==
  /\ Handler("out")
  /\ todo' = Tail(todo)
  /\ paper' = Append(paper, Head(todo))
  /\ pages' = IF Head(todo) = "tof" THEN [pages EXCEPT ![reading] = @ + 1] ELSE pages
  /\ step' = IF Tail(todo) # <<>> THEN "out"
             ELSE IF Head(todo) = "tof" THEN "copies" ELSE "read"
  /\ UNCHANGED <<schedVars, queueVars, flags, timer, adding, requested, reading, text, pending>>

\* The history of a copy ends with it.
NextCopy == reading' = 0 /\ text' = <<>> /\ paper' = <<>> /\ pending' = 0

\* Mutant: the last extra copy is not made.
AlmostAllMade == queue[ZC719].copies <= 1

\* Byte 3 of the entry is zero.
AllMade == queue[ZC719].copies = 0

\* Mutant: the pointer to the current entry stays.
SameEntry ==
  /\ Handler("copies")
  /\ ZC71D' = 0
  /\ \/ /\ ~AllMade
        /\ queue' = [queue EXCEPT ![ZC719].copies = @ - 1]
        /\ step' = "queue"
     \/ AllMade /\ step' = "less" /\ UNCHANGED queue
  /\ NextCopy
  /\ UNCHANGED <<schedVars, ZC719, tail, ZC71B, ZC71C, ZC71E, todo, timer,
                 adding, requested, pages>>

\* The kill is over; another copy, or on to the next entry.
Copies ==
  /\ Handler("copies")
  /\ ZC71D' = 0
  /\ \/ /\ ~AllMade
        /\ queue' = [queue EXCEPT ![ZC719].copies = @ - 1]
        /\ step' = "queue" /\ UNCHANGED ZC719
     \/ /\ AllMade
        /\ ZC719' = NextSlot(ZC719)
        /\ step' = "less" /\ UNCHANGED queue
  /\ NextCopy
  /\ UNCHANGED <<schedVars, tail, ZC71B, ZC71C, ZC71E, todo, timer, adding,
                 requested, pages>>

\* The entry leaves the queue.
Less ==
  /\ Handler("less")
  /\ ZC71B' = ZC71B - 1
  /\ step' = "queue"
  /\ UNCHANGED <<schedVars, queue, ZC719, tail, flags, todo, timer, adding, history>>

\* Mutant: the handler leaves without saying so.
StillThere ==
  /\ Handler("done")
  /\ step' = "enable"
  /\ UNCHANGED <<schedVars, queueVars, flags, todo, timer, adding, history>>

\* ZC78D: no background task any more.
Done ==
  /\ Handler("done")
  /\ End
  /\ step' = "enable"
  /\ UNCHANGED <<queueVars, flags, todo, timer, adding, history>>

Enable ==
  /\ Handler("enable")
  /\ SetMask(FALSE)
  /\ step' = "exit"
  /\ UNCHANGED <<queueVars, flags, todo, timer, adding, history>>

Exit ==
  /\ Handler("exit")
  /\ Yield
  /\ step' = "done"
  /\ UNCHANGED <<queueVars, flags, todo, timer, adding, history>>

\* The handler's calls of FMS; a file ends at the latest after MaxChars.
Fms(t) ==
  /\ InCall(t)
  /\ t = "PR1" /\ Len(text) = MaxChars => error'["PR1"] \/ pc["PR1"] # "body"
  /\ UNCHANGED spoolVars

HandlerStep ==
  Queue \/ Count \/ Suspended \/ Read \/ Result \/ Wait \/ Out \/ Copies \/ Less
    \/ Done \/ Enable \/ Exit

-----------------------------------------------------------------------------
\* PRINT adds an entry behind the last one, if there is room.
Enqueue(c) ==
  /\ At("PR0", "program") /\ ~adding
  /\ Len(requested) < MaxJobs /\ ZC71B < QueueSize
  /\ queue' = [queue EXCEPT ![tail] = [job |-> Len(requested) + 1, copies |-> c]]
  /\ tail' = NextSlot(tail)
  /\ ZC71B' = ZC71B + 1
  /\ requested' = Append(requested, c)
  /\ adding' = TRUE
  /\ UNCHANGED <<schedVars, step, ZC719, flags, todo, timer,
                 reading, pages, text, paper, pending>>

\* Mutant: PRINT starts the handler while it runs.
Restart ==
  /\ At("PR0", "program") /\ adding
  /\ PR1' = 1
  /\ stack' = [stack EXCEPT !["PR1"] = <<TRUE>>]
  /\ saved' = [saved EXCEPT !["PR1"] = "PR1"]
  /\ step' = "queue" /\ timer' = TRUE /\ adding' = FALSE
  /\ UNCHANGED <<CP, ZCC34, sp, entered, masked, fms, queueVars, flags, todo, history>>

\* PRINT starts the handler and the timer unless the handler runs.
StartPrinting ==
  /\ At("PR0", "program") /\ adding
  /\ \/ PR1 = 1 /\ UNCHANGED <<schedVars, step, timer>>
     \/ PR1 = 0 /\ (\E m \in BOOLEAN : Start(m)) /\ step' = "queue" /\ timer' = TRUE
  /\ adding' = FALSE
  /\ UNCHANGED <<queueVars, flags, todo, history>>

\* QCHECK kills the current print, suspends printing or resumes it.
Kill ==
  /\ At("PR0", "program") /\ ~adding /\ "kill" \in Commands /\ ZC71B # 0
  /\ ZC71D' = 1
  /\ UNCHANGED <<schedVars, step, queueVars, ZC71C, ZC71E, todo, timer, adding, history>>

Suspend ==
  /\ At("PR0", "program") /\ ~adding /\ "suspend" \in Commands
  /\ ZC71E' = 1 - ZC71E
  /\ UNCHANGED <<schedVars, step, queueVars, ZC71C, ZC71D, todo, timer, adding, history>>

\* What other programs ask of FMS, and the command interpreter.
Program ==
  /\ ~adding
  /\ (\E f \in Calls : CallFms("PR0", f)) \/ CloseAll("PR0") \/ ENTRY
  /\ UNCHANGED spoolVars

Tick == timer /\ IRQ /\ UNCHANGED spoolVars

Switch == Schedule /\ UNCHANGED spoolVars

ForegroundStep ==
  Program \/ (\E c \in 0..MaxCopies : Enqueue(c)) \/ StartPrinting \/ Kill \/ Suspend

Next ==
  \/ HandlerStep \/ ForegroundStep
  \/ \E t \in Task : Fms(t)
  \/ Tick \/ Switch

Spec == Init /\ [][Next]_vars

\* As for Scheduler, and the printer is ready at last when it is asked again.
FairSpec ==
  /\ Spec
  /\ WF_vars(Switch) /\ SF_vars(Tick)
  /\ SF_vars(HandlerStep) /\ SF_vars(Out) /\ SF_vars(StartPrinting)
  /\ \A t \in Task : SF_vars(Fms(t)) /\ SF_vars(sp = t /\ ~masked /\ Switch)

-----------------------------------------------------------------------------
Steps == {"queue", "count", "suspended", "read", "result", "out", "copies", "less",
          "done", "enable", "exit"}

\* Entries not yet printed to the end.
Waiting == IF step = "less" THEN ZC71B - 1 ELSE ZC71B
Finished == Len(requested) - Waiting

\* The queue holds the unfinished jobs in the order they were added, from the
\* current entry to PRINT's pointer, though handler and PRINT move the two
\* pointers and the count in separate steps.
QueueInOrder ==
  /\ tail = (ZC719 + Waiting) % QueueSize
  /\ \A i \in 0..(Waiting - 1) : queue[(ZC719 + i) % QueueSize].job = Finished + 1 + i

\* A job that is over was printed once and once more for each extra copy; the
\* current one has the rest of its copies to come, and no later one has begun.
CopiesExact ==
  /\ \A j \in 1..Finished : pages[j] = requested[j] + 1
  /\ Waiting > 0 =>
       requested[Finished + 1] = pages[Finished + 1] + queue[ZC719].copies
                                   - (IF step = "copies" THEN 1 ELSE 0)
  /\ \A j \in (Finished + 2)..Len(requested) : pages[j] = 0

\* A queued job has a handler to print it, or PRINT is about to start one.
NoJobStranded == ZC71B > 0 => PR1 = 1 \/ adding

\* What the file should look like on paper: a line feed after every carriage
\* return, unless the file has one there.
Rendered ==
  FlattenSeq([i \in DOMAIN text |->
    LET returned == IF i = 1 THEN pending = 1 ELSE text[i - 1] = "cr"
    IN  IF returned /\ text[i] # "lf" THEN <<"lf", text[i]>> ELSE <<text[i]>>])

\* What is printed and about to be printed is the file as it should look, and
\* then the form feed that closes the copy.
PaperIsText ==
  step \in {"read", "out", "copies"} =>
    LET sheet == paper \o todo
    IN  sheet = Rendered \/ sheet = Rendered \o Trailer

\* Every job is printed in the end, if it is not suspended.
EveryJobPrinted == \A j \in 1..MaxJobs : Len(requested) >= j ~> Finished >= j
=============================================================================

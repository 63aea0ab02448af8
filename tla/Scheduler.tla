----------------------------- MODULE Scheduler -----------------------------
(***************************************************************************)
(* The two tasks of the system and the lock of the file management system: *)
(* the scheduler of SPOOLER.ASM, entered by SWI3 and by the timer, LOCK    *)
(* and UNLOCK, and the calls of FLX29FMS.ASM that take the lock.  The      *)
(* foreground PR0 runs commands; the background PR1 runs while PRINT's     *)
(* work lasts, as any program that calls FMS, yields or ends.              *)
(*                                                                         *)
(* A task's program counter is its place in an FMS call.  Its stack holds  *)
(* one frame for each interrupt it is under: only the interrupt mask of a  *)
(* frame matters here, the other registers come back with it.              *)
(***************************************************************************)
EXTENDS Naturals, Sequences

CONSTANTS Timer,       \* the machine has the timer, and its interrupt is wired
          Calls        \* what the foreground asks FMS for: see Functions

\* The function codes: 0 reads or writes a character, the rest are commands.
Functions == {"character", "command"}
ASSUME SchedulerAssumption == Timer \in BOOLEAN /\ Calls \subseteq Functions

Task == {"PR0", "PR1"}
None == "none"

VARIABLES
  CP,        \* the task the scheduler last started
  ZCC34,     \* 1 while the background has its turn
  PR1,       \* 1 while there is a background task: its block's first byte
  saved,     \* per block, the task whose stack its stack pointer is in
  sp,        \* the task whose stack the CPU is on
  entered,   \* the CPU is at the scheduler's first instruction
  masked,    \* the CPU's interrupt mask
  stack,     \* per task, the masks in the frames of the interrupts it is under
  FMSBUSY,   \* the lock
  FCBSTR,    \* the task whose block FMS works on
  pc,        \* per task, its place in the FMS call it makes
  call,      \* per task, what the call is: a function code, EXCLS or INIT
  error      \* per task, the error the call found

cpu == <<CP, ZCC34, saved, sp, entered, masked, stack>>
fms == <<FMSBUSY, FCBSTR, pc, call, error>>
schedVars == <<cpu, PR1, fms>>

SchedInit ==
  /\ CP = "PR0" /\ ZCC34 = 0 /\ PR1 = 0
  /\ saved = [t \in Task |-> None]
  /\ sp = "PR0" /\ entered = FALSE /\ masked = FALSE
  /\ stack = [t \in Task |-> <<>>]
  /\ FMSBUSY = 0 /\ FCBSTR = None
  /\ pc = [t \in Task |-> "program"]
  /\ call = [t \in Task |-> None]
  /\ error = [t \in Task |-> FALSE]

-----------------------------------------------------------------------------
\* Push the registers and go to the scheduler.
Interrupt(mask) ==
  /\ stack' = [stack EXCEPT ![sp] = <<masked>> \o @]
  /\ entered' = TRUE
  /\ masked' = mask
  /\ UNCHANGED <<CP, ZCC34, saved, sp>>

\* SWI3 leaves the mask alone, so the scheduler itself can be interrupted.
SWI3 == Interrupt(masked)

\* IHND serves the timer and goes on to the scheduler with interrupts off.
IRQ ==
  /\ Timer /\ ~masked
  /\ Interrupt(TRUE)
  /\ UNCHANGED <<PR1, fms>>

\* The other task's turn, if there is a background task at all.
Toggle == IF ZCC34 = 0 /\ PR1 = 1 THEN "PR1" ELSE "PR0"

\* Mutant: the stack pointer goes to the block that is to be started.
SaveLate == [saved EXCEPT ![Toggle] = sp]

\* The stack pointer of the interrupted task goes to its block.
SaveStack == [saved EXCEPT ![CP] = sp]

\* ORCC, save the stack pointer, toggle, RTI.  RTI's frame may be one that
\* was interrupted at the scheduler's own first instruction.
Schedule ==
  /\ entered
  /\ saved' = SaveStack
  /\ CP' = Toggle
  /\ ZCC34' = IF Toggle = "PR1" THEN 1 ELSE 0
  /\ sp' = saved'[Toggle]
  /\ sp' \in Task /\ stack[sp'] # <<>>
  /\ masked' = Head(stack[sp'])
  /\ stack' = [stack EXCEPT ![sp'] = Tail(@)]
  /\ entered' = (Tail(stack[sp']) # <<>>)
  /\ UNCHANGED <<PR1, fms>>

-----------------------------------------------------------------------------
\* Task t executes an instruction of its own.
Runs(t) == sp = t /\ ~entered
At(t, place) == Runs(t) /\ pc[t] = place
Goto(t, place) == pc' = [pc EXCEPT ![t] = place]

\* Task t is at a place of its call again, or back in its program.
GoBack(t, place) ==
  /\ Goto(t, place)
  /\ call' = IF place = "program" THEN [call EXCEPT ![t] = None] ELSE call

\* CMND is called.
CallFms(t, f) ==
  /\ At(t, "program") /\ (t = "PR1" => PR1 = 1)
  /\ Goto(t, "cmnd")
  /\ call' = [call EXCEPT ![t] = f]
  /\ UNCHANGED <<cpu, PR1, FMSBUSY, FCBSTR, error>>

\* EXCLS is called.
CloseAll(t) ==
  /\ t = "PR0" /\ At(t, "program")
  /\ Goto(t, "lock")
  /\ call' = [call EXCEPT ![t] = "EXCLS"]
  /\ UNCHANGED <<cpu, PR1, FMSBUSY, FCBSTR, error>>

\* The command interpreter starts over: it is the foreground's turn.
ENTRY ==
  /\ At("PR0", "program")
  /\ CP' = "PR0" /\ ZCC34' = 0
  /\ UNCHANGED <<saved, sp, entered, masked, stack, PR1, fms>>

\* Mutant: CMND's test of PR1 is inverted.
TestInverted(t) ==
  /\ At(t, "cmnd")
  /\ Goto(t, IF PR1 = 0 THEN "lock" ELSE "fcbstr")
  /\ UNCHANGED <<cpu, PR1, FMSBUSY, FCBSTR, call, error>>

\* CMND locks only when there is a background task.
TestBackground(t) ==
  /\ At(t, "cmnd")
  /\ Goto(t, IF PR1 = 0 THEN "fcbstr" ELSE "lock")
  /\ UNCHANGED <<cpu, PR1, FMSBUSY, FCBSTR, call, error>>

\* Mutant: LOCK leaves interrupts on.
NoMask == masked

LockMask == TRUE

\* LOCK: interrupts off.
Lock(t) ==
  /\ At(t, "lock")
  /\ masked' = LockMask
  /\ Goto(t, "busy")
  /\ UNCHANGED <<CP, ZCC34, saved, sp, entered, stack, PR1, FMSBUSY, FCBSTR, call, error>>

\* LOCK: when FMS is busy, the other task's turn, then again.
LockTest(t) ==
  /\ At(t, "busy")
  /\ \/ FMSBUSY # 0 /\ Goto(t, "lock") /\ SWI3
     \/ FMSBUSY = 0 /\ Goto(t, "take") /\ UNCHANGED cpu
  /\ UNCHANGED <<PR1, FMSBUSY, FCBSTR, call, error>>

LockTake(t) ==
  /\ At(t, "take")
  /\ FMSBUSY' = FMSBUSY + 1
  /\ Goto(t, "fcbstr")
  /\ UNCHANGED <<cpu, PR1, FCBSTR, call, error>>

\* The call's block becomes the one FMS works on, without error so far.
SetBlock(t) ==
  /\ At(t, "fcbstr")
  /\ FCBSTR' = t
  /\ error' = [error EXCEPT ![t] = FALSE]
  /\ Goto(t, "body")
  /\ UNCHANGED <<cpu, PR1, FMSBUSY, call>>

\* The routine, which ends with an error or without.
Body(t, e) ==
  /\ At(t, "body")
  /\ error' = [error EXCEPT ![t] = e]
  /\ Goto(t, "return")
  /\ UNCHANGED <<cpu, PR1, FMSBUSY, FCBSTR, call>>

\* Mutant: a character call returns without unlocking.
KeepLock(t) == call[t] = "character" /\ ~error[t]

\* CMND15: a character call without error unlocks only when there is a
\* background task, whether or not it locked.
SkipUnlock(t) == call[t] = "character" /\ ~error[t] /\ PR1 = 0

\* The status goes to the block in FCBSTR.
Return(t) ==
  /\ At(t, "return")
  /\ GoBack(t, IF SkipUnlock(t) THEN "program" ELSE "unlock")
  /\ UNCHANGED <<cpu, PR1, FMSBUSY, FCBSTR, error>>

\* Where a call goes on: the CCP initialises FMS when EXCLS fails.
AfterUnlock(t) == IF call[t] = "EXCLS" /\ error[t] THEN "init" ELSE "program"

\* UNLOCK, called by a task that locked or not: interrupts on.
Unlock(t) ==
  /\ At(t, "unlock")
  /\ FMSBUSY' = 0
  /\ masked' = FALSE
  /\ GoBack(t, AfterUnlock(t))
  /\ UNCHANGED <<CP, ZCC34, saved, sp, entered, stack, PR1, FCBSTR, error>>

\* INIT clears the variables of FMS without locking, and unlocks.
InitFms(t) ==
  /\ At(t, "init")
  /\ FCBSTR' = None
  /\ call' = [call EXCEPT ![t] = "INIT"]
  /\ Goto(t, "unlock")
  /\ UNCHANGED <<cpu, PR1, FMSBUSY, error>>

\* A call that has begun goes on.
InCall(t) ==
  \/ TestBackground(t) \/ Lock(t) \/ LockTest(t) \/ LockTake(t)
  \/ SetBlock(t) \/ (\E e \in BOOLEAN : Body(t, e)) \/ Return(t)
  \/ Unlock(t) \/ InitFms(t)

-----------------------------------------------------------------------------
\* The background's program, outside FMS.

\* ORCC #$50 and ANDCC #$AF.
SetMask(m) ==
  /\ At("PR1", "program")
  /\ masked' = m
  /\ UNCHANGED <<CP, ZCC34, saved, sp, entered, stack, PR1, fms>>

Yield ==
  /\ At("PR1", "program")
  /\ SWI3
  /\ UNCHANGED <<PR1, fms>>

\* The background has done its work.
End ==
  /\ At("PR1", "program")
  /\ PR1' = 0
  /\ UNCHANGED <<cpu, fms>>

\* PRINT (not in the repository) starts a background task when there is none,
\* with a frame whose mask we do not know on its stack.
Start(m) ==
  /\ At("PR0", "program") /\ PR1 = 0
  /\ PR1' = 1
  /\ stack' = [stack EXCEPT !["PR1"] = <<m>>]
  /\ saved' = [saved EXCEPT !["PR1"] = "PR1"]
  /\ UNCHANGED <<CP, ZCC34, sp, entered, masked, fms>>

Foreground ==
  \/ \E f \in Calls : CallFms("PR0", f)
  \/ CloseAll("PR0")
  \/ ENTRY
  \/ \E m \in BOOLEAN : Start(m)

Background ==
  \/ CallFms("PR1", "character")
  \/ \E m \in BOOLEAN : SetMask(m)
  \/ Yield
  \/ End

SchedNext ==
  \/ IRQ \/ Schedule
  \/ Foreground \/ Background
  \/ \E t \in Task : InCall(t)

SchedSpec == SchedInit /\ [][SchedNext]_schedVars

\* The timer's request stays until it is served, so an interrupt that can be
\* taken again and again is taken.  A task that RTI resumes again and again, in
\* a call, in its program or at the scheduler's first instruction, executes an
\* instruction there before the next tick, ten milliseconds later.
SchedFairness ==
  /\ WF_schedVars(Schedule)
  /\ SF_schedVars(IRQ)
  /\ SF_schedVars(Background)
  /\ \A t \in Task : /\ SF_schedVars(InCall(t))
                     /\ SF_schedVars(sp = t /\ ~masked /\ Schedule)

SchedFairSpec == SchedSpec /\ SchedFairness

-----------------------------------------------------------------------------
Places == {"program", "cmnd", "lock", "busy", "take", "fcbstr", "body", "return",
           "unlock", "init"}

SchedTypeOK ==
  /\ CP \in Task /\ ZCC34 \in {0, 1} /\ PR1 \in {0, 1}
  /\ saved \in [Task -> Task \cup {None}] /\ sp \in Task
  /\ entered \in BOOLEAN /\ masked \in BOOLEAN
  /\ stack \in [Task -> Seq(BOOLEAN)]
  /\ FMSBUSY \in {0, 1} /\ FCBSTR \in Task \cup {None}
  /\ pc \in [Task -> Places]
  /\ call \in [Task -> Functions \cup {"EXCLS", "INIT", None}]
  /\ error \in [Task -> BOOLEAN]

Inside(t) == pc[t] \in {"fcbstr", "body", "return"}

\* The two tasks are never in FMS together, though the foreground enters it
\* without the lock when there is no background task (CMND, LOCK, INIT).
OneInside == ~(Inside("PR0") /\ Inside("PR1"))

\* The status and the character go to the block the caller gave: FCBSTR is not
\* overwritten by the other task's call, nor by INIT (CMND1, CMND15, INIT).
OwnBlock == \A t \in Task : pc[t] \in {"body", "return"} => FCBSTR = t

\* The running task is the one CP names and ZCC34 tells of, on its own stack,
\* however SWI3 and the timer nest (scheduler, $C723).
OwnStack == CP = sp /\ (ZCC34 = 1 <=> CP = "PR1")

\* A stack never holds more than a yield and the interrupt of its scheduler.
StackBounded == \A t \in Task : Len(stack[t]) <= 2

\* FMSBUSY is set only while a task is between LOCK and UNLOCK.
BusyMeansInside ==
  FMSBUSY = 1 => \E t \in Task : Inside(t) \/ pc[t] = "unlock"

\* LOCK never finds FMS busy: who holds the lock cannot be interrupted, so its
\* loop over SWI3 is never needed ($C749).
NeverContended == \A t \in Task : pc[t] = "busy" => FMSBUSY = 0

\* Every call of the foreground returns, whatever the background does.
EveryCallReturns == pc["PR0"] # "program" ~> pc["PR0"] = "program"

=============================================================================

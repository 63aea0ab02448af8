--------------------------- MODULE SpoolerProofs ---------------------------
(***************************************************************************)
(* The scheduler first, whatever its background tasks do.  However calls,  *)
(* yields and timer interrupts interleave: the tasks are never in FMS      *)
(* together, each keeps its block and its stack, and with a foreground     *)
(* that makes no character calls the lock is never waited for and never    *)
(* left behind.  The reason is that a task between LOCK and UNLOCK runs    *)
(* with interrupts off, and that the foreground goes without the lock only *)
(* while there is no background task.                                      *)
(*                                                                         *)
(* The queue handler is a background task as Scheduler has it, so what is  *)
(* proved of the scheduler and the lock holds of the system with the       *)
(* spooler; and no job is left in the queue without a handler, because the *)
(* handler looks at the queue and ends its task with interrupts off.       *)
(* The queue keeps its order and every job gets its copies: the argument   *)
(* is which slots of the ring are in use while a pointer has moved and the *)
(* count has not, or the other way round.  The paper shows the file,       *)
(* because ZC71C always says how the characters read so far end.           *)
(***************************************************************************)
EXTENDS Spooler, SequenceTheorems, WellFoundedInduction, TLAPS

-----------------------------------------------------------------------------
(* The scheduler and the lock.                                             *)

\* SchedTypeOK in two parts: the scheduler's variables and FMS's.
CpuTypes ==
  /\ CP \in Task /\ ZCC34 \in {0, 1} /\ PR1 \in {0, 1}
  /\ saved \in [Task -> Task \cup {None}] /\ sp \in Task
  /\ entered \in BOOLEAN /\ masked \in BOOLEAN
  /\ stack \in [Task -> Seq(BOOLEAN)]

FmsTypes ==
  /\ FMSBUSY \in {0, 1} /\ FCBSTR \in Task \cup {None}
  /\ pc \in [Task -> Places]
  /\ call \in [Task -> Functions \cup {"EXCLS", "INIT", None}]
  /\ error \in [Task -> BOOLEAN]

\* A task that waits for its turn left its stack pointer in its own block.
Parked(t) == saved[t] = t /\ stack[t] # <<>>

\* Where the stack pointers are, and how deep the interrupts nest.
Stacks ==
  /\ OwnStack
  /\ entered <=> stack[sp] # <<>>
  /\ \A t \in Task : t # sp /\ (t = "PR0" \/ PR1 = 1) => Parked(t)
  /\ StackBounded
  /\ entered /\ ~masked => Len(stack[sp]) = 1

\* Task t runs and will not be interrupted.
Undisturbed(t) == Runs(t) /\ masked

\* Who is in LOCK or in FMS is undisturbed, or has no background task beside it.
Exclusion ==
  /\ \A t \in Task : pc[t] \in {"busy", "take"} => Undisturbed(t)
  /\ \A t \in Task : pc[t] = "take" => FMSBUSY = 0
  /\ \A t \in Task : Inside(t) => Undisturbed(t) \/ (t = "PR0" /\ PR1 = 0)
  /\ PR1 = 0 => pc["PR1"] = "program"

\* Without character calls of the foreground, the lock is held by a task that
\* is undisturbed until it has unlocked.
HeldUndisturbed ==
  "character" \notin Calls =>
    /\ pc["PR0"] # "program" => call["PR0"] # "character"
    /\ FMSBUSY = 1 => \E t \in Task : (Inside(t) \/ pc[t] = "unlock") /\ Undisturbed(t)

Cpu == CpuTypes /\ Stacks
Mutual == Exclusion /\ OwnBlock /\ HeldUndisturbed

\* The inductive invariant.
IInv == Cpu /\ FmsTypes /\ Mutual
-----------------------------------------------------------------------------
\* What an interrupt does to a stack.
LEMMA Push ==
  ASSUME NEW s \in Seq(BOOLEAN), NEW m \in BOOLEAN
  PROVE  /\ <<m>> \o s \in Seq(BOOLEAN) /\ Len(<<m>> \o s) = Len(s) + 1
         /\ <<m>> \o s # <<>>
<1>1. <<m>> \in Seq(BOOLEAN) /\ Len(<<m>>) = 1
  OBVIOUS
<1>2. <<m>> \o s \in Seq(BOOLEAN) /\ Len(<<m>> \o s) = Len(s) + 1
  <2>1. Len(s) \in Nat
    BY LenProperties
  <2> QED  BY <1>1, <2>1, ConcatProperties
<1>3. Len(s) \in Nat /\ Len(<<>>) = 0
  BY LenProperties, EmptySeq
<1> QED  BY <1>2, <1>3

\* What RTI does to a stack.
LEMMA Pop ==
  ASSUME NEW s \in Seq(BOOLEAN)
  PROVE  /\ Len(s) \in Nat
         /\ s = <<>> <=> Len(s) = 0
         /\ s # <<>> => /\ Head(s) \in BOOLEAN /\ Tail(s) \in Seq(BOOLEAN)
                        /\ Len(Tail(s)) = Len(s) - 1
                        /\ Tail(s) = <<>> <=> Len(s) = 1
<1>1. \A q \in Seq(BOOLEAN) : Len(q) \in Nat /\ (q = <<>> <=> Len(q) = 0)
  BY LenProperties, EmptySeq
<1>2. s # <<>> => /\ Head(s) \in BOOLEAN /\ Tail(s) \in Seq(BOOLEAN)
                  /\ Len(Tail(s)) = Len(s) - 1
  BY HeadTailProperties
<1>3. ASSUME s # <<>>
      PROVE  Tail(s) = <<>> <=> Len(s) = 1
  <2>1. Len(Tail(s)) = Len(s) - 1 /\ Len(s) \in Nat
    BY <1>1, <1>2, <1>3
  <2>2. Tail(s) = <<>> <=> Len(Tail(s)) = 0
    BY <1>1, <1>2, <1>3
  <2> QED  BY <2>1, <2>2
<1> QED  BY <1>1, <1>2, <1>3

\* SWI3 between interrupts, or the timer anywhere, nests at most twice.
LEMMA CpuInterrupt ==
  ASSUME Cpu, NEW m \in BOOLEAN, m \/ ~entered, entered => ~masked, 
         Interrupt(m), PR1' = PR1
  PROVE  Cpu'
<1> USE DEF Cpu, CpuTypes, Stacks, Task
<1>1. stack[sp] \in Seq(BOOLEAN) /\ masked \in BOOLEAN
  OBVIOUS
<1> DEFINE new == <<masked>> \o stack[sp]
<1>2. new \in Seq(BOOLEAN) /\ Len(new) = Len(stack[sp]) + 1 /\ new # <<>>
  BY <1>1, Push
<1>3. stack' = [stack EXCEPT ![sp] = new] /\ entered' = TRUE /\ masked' = m
      /\ UNCHANGED <<CP, ZCC34, saved, sp>>
  BY DEF Interrupt
<1>4. Len(stack[sp]) \in Nat /\ (stack[sp] = <<>> <=> Len(stack[sp]) = 0)
  BY <1>1, Pop
<1> HIDE DEF new
<1>5. stack'[sp] = new /\ \A t \in Task : t # sp => stack'[t] = stack[t]
  BY <1>3
<1>6. CpuTypes'
  BY <1>2, <1>3
<1>7. OwnStack'
  BY <1>3 DEF OwnStack
<1>8. (entered <=> stack[sp] # <<>>)'
  BY <1>2, <1>3, <1>5
<1>9. (\A t \in Task : t # sp /\ (t = "PR0" \/ PR1 = 1) => Parked(t))'
  BY <1>3, <1>5 DEF Parked
<1>10. Len(new) <= 2 /\ (entered' /\ ~masked' => Len(new) = 1)
  <2>1. CASE entered
    <3>1. Len(stack[sp]) = 1 /\ masked' = TRUE
      BY <1>3, <2>1
    <3> QED  BY <1>2, <3>1
  <2>2. CASE ~entered
    <3>1. Len(stack[sp]) = 0
      BY <1>4, <2>2
    <3> QED  BY <1>2, <3>1
  <2> QED  BY <2>1, <2>2
<1>11. \A t \in Task : t # sp => Len(stack'[t]) <= 2
  BY <1>5 DEF StackBounded
<1>12. StackBounded'
  BY <1>3, <1>5, <1>10, <1>11 DEF StackBounded
<1> QED  BY <1>3, <1>5, <1>6, <1>7, <1>8, <1>9, <1>10, <1>12

\* The scheduler stores the stack pointer in the block of the task it leaves
\* and finds the other task's where that task left it.
LEMMA CpuSchedule ==
  ASSUME Cpu, Schedule
  PROVE  Cpu'
<1> USE DEF Cpu, CpuTypes, Stacks, Task
<1> DEFINE T == Toggle
<1>1. T \in Task /\ (T = "PR1" => PR1 = 1)
  BY DEF Toggle
<1>2. entered /\ CP = sp /\ stack[sp] # <<>>
  BY DEF Schedule, OwnStack
<1>3. Parked(T) \/ T = sp
  BY <1>1
<1>4. saved' = [saved EXCEPT ![sp] = sp] /\ CP' = T
      /\ ZCC34' = (IF T = "PR1" THEN 1 ELSE 0)
      /\ sp' = saved'[T] /\ PR1' = PR1
  BY <1>2 DEF Schedule, SaveStack
<1>5. sp' = T /\ saved' \in [Task -> Task \cup {None}] /\ stack[T] # <<>>
  BY <1>1, <1>2, <1>3, <1>4 DEF Parked
<1>6. /\ masked' = Head(stack[T])
      /\ stack' = [stack EXCEPT ![T] = Tail(stack[T])]
      /\ entered' = (Tail(stack[T]) # <<>>)
  BY <1>5 DEF Schedule
<1> HIDE DEF T
<1>7. stack[T] \in Seq(BOOLEAN)
  BY <1>1
<1>8. /\ Head(stack[T]) \in BOOLEAN /\ Tail(stack[T]) \in Seq(BOOLEAN)
      /\ Len(Tail(stack[T])) = Len(stack[T]) - 1
      /\ (Tail(stack[T]) = <<>> <=> Len(stack[T]) = 1)
      /\ Len(stack[T]) \in Nat /\ Len(stack[T]) # 0
  BY <1>5, <1>7, Pop
<1>9. stack'[T] = Tail(stack[T]) /\ \A t \in Task : t # T => stack'[t] = stack[t]
  BY <1>1, <1>6
<1>10. CpuTypes'
  BY <1>1, <1>4, <1>5, <1>6, <1>8
<1>11. OwnStack'
  BY <1>1, <1>4, <1>5 DEF OwnStack
<1>12. (entered <=> stack[sp] # <<>>)'
  BY <1>5, <1>6, <1>9
<1>13. (\A t \in Task : t # sp /\ (t = "PR0" \/ PR1 = 1) => Parked(t))'
  BY <1>1, <1>2, <1>4, <1>5, <1>9 DEF Parked
<1>14. Len(stack[T]) <= 2
  BY <1>1 DEF StackBounded
<1>15. Len(stack'[T]) <= 2 /\ (stack'[T] # <<>> => Len(stack'[T]) = 1)
  <2> DEFINE n == Len(stack[T])
             k == Len(Tail(stack[T]))
  <2>1. n \in Nat /\ n <= 2 /\ n # 0 /\ k = n - 1
    BY <1>8, <1>14
  <2>2. Tail(stack[T]) # <<>> => n # 1
    BY <1>8
  <2> HIDE DEF n, k
  <2>3. k <= 2 /\ (n # 1 => k = 1)
    BY <2>1
  <2> QED  BY <1>9, <2>2, <2>3 DEF k
<1>16. \A t \in Task : t # T => Len(stack'[t]) <= 2
  BY <1>9 DEF StackBounded
<1>17. StackBounded'
  BY <1>15, <1>16 DEF StackBounded
<1>18. (entered /\ ~masked => Len(stack[sp]) = 1)'
  BY <1>5, <1>6, <1>9, <1>15
<1> QED  BY <1>10, <1>11, <1>12, <1>13, <1>18, <1>17

\* PRINT's new task is parked with the frame it is given.
LEMMA CpuStart ==
  ASSUME Cpu, NEW m \in BOOLEAN, Start(m)
  PROVE  Cpu'
<1> USE DEF Cpu, CpuTypes, Stacks, Task
<1> DEFINE frame == <<m>>
<1>1. frame \in Seq(BOOLEAN) /\ Len(frame) = 1 /\ frame # <<>>
  OBVIOUS
<1>2. /\ stack' = [stack EXCEPT !["PR1"] = frame]
      /\ saved' = [saved EXCEPT !["PR1"] = "PR1"]
      /\ sp = "PR0" /\ entered = FALSE /\ PR1' = 1
      /\ UNCHANGED <<CP, ZCC34, sp, entered, masked>>
  BY DEF Start, At, Runs
<1> HIDE DEF frame
<1>3. stack'["PR1"] = frame /\ stack'["PR0"] = stack["PR0"] /\ saved'["PR1"] = "PR1"
  BY <1>2
<1>4. CpuTypes'
  BY <1>1, <1>2
<1>5. OwnStack' /\ (entered <=> stack[sp] # <<>>)'
  BY <1>2, <1>3 DEF OwnStack
<1>6. (\A t \in Task : t # sp /\ (t = "PR0" \/ PR1 = 1) => Parked(t))'
  BY <1>1, <1>2, <1>3 DEF Parked
<1>7. StackBounded'
  <2>1. Len(stack["PR0"]) <= 2 /\ Len(frame) <= 2
    BY <1>1 DEF StackBounded
  <2> QED  BY <1>3, <2>1 DEF StackBounded
<1> QED  BY <1>2, <1>4, <1>5, <1>6, <1>7

\* A step that leaves the stacks alone, and the scheduler's variables as they
\* are for the foreground.
LEMMA CpuSame ==
  ASSUME Cpu, UNCHANGED <<saved, sp, entered, stack>>,
         UNCHANGED masked \/ (~entered /\ masked' \in BOOLEAN),
         UNCHANGED <<CP, ZCC34>> \/ (sp = "PR0" /\ CP' = "PR0" /\ ZCC34' = 0),
         PR1' = PR1 \/ PR1' = 0
  PROVE  Cpu'
<1> USE DEF Cpu, CpuTypes, Stacks, Task
<1>1. CpuTypes' /\ StackBounded'
  BY DEF StackBounded
<1>2. OwnStack'
  BY DEF OwnStack
<1>3. (\A t \in Task : t # sp /\ (t = "PR0" \/ PR1 = 1) => Parked(t))'
  BY DEF Parked
<1> QED  BY <1>1, <1>2, <1>3
-----------------------------------------------------------------------------
\* Who runs, with a background task if it is one, has FMS for itself.
LEMMA Alone ==
  ASSUME Mutual, NEW t \in Task, Runs(t), t = "PR1" => PR1 = 1
  PROVE  /\ \A u \in Task : u # t => ~Inside(u) /\ pc[u] \notin {"busy", "take"}
         /\ "character" \notin Calls /\ FMSBUSY = 1
              => (Inside(t) \/ pc[t] = "unlock") /\ masked
<1>1. \A u \in Task : u # t => ~Undisturbed(u)
  BY DEF Undisturbed, Runs
<1>2. ASSUME NEW u \in Task, u # t
      PROVE  ~Inside(u) /\ pc[u] \notin {"busy", "take"}
  <2>1. pc[u] \notin {"busy", "take"}
    BY <1>1, <1>2 DEF Mutual, Exclusion
  <2>2. Inside(u) => u = "PR0" /\ PR1 = 0
    BY <1>1, <1>2 DEF Mutual, Exclusion
  <2>3. u = "PR0" => t = "PR1"
    BY <1>2 DEF Task
  <2> QED  BY <2>1, <2>2, <2>3
<1>3. "character" \notin Calls /\ FMSBUSY = 1
        => (Inside(t) \/ pc[t] = "unlock") /\ masked
  BY <1>1 DEF Mutual, HeldUndisturbed, Undisturbed
<1> QED  BY <1>2, <1>3

\* Task t, in a call, goes to a place where it may be.
StepTo(t, place) ==
  /\ Runs(t) /\ (t = "PR1" => PR1 = 1) /\ PR1' = PR1
  /\ pc' = [pc EXCEPT ![t] = place]
  /\ place \in {"busy", "take"} => Undisturbed(t)'
  /\ place = "take" => FMSBUSY' = 0
  /\ place \in {"fcbstr", "body", "return"} => Undisturbed(t)' \/ (t = "PR0" /\ PR1 = 0)
  /\ place \in {"body", "return"} => FCBSTR' = t
  /\ "character" \notin Calls =>
       /\ t = "PR0" /\ place # "program" => call'["PR0"] # "character"
       /\ t = "PR1" => call'["PR0"] = call["PR0"]
       /\ FMSBUSY' = 1 => /\ place \in {"fcbstr", "body", "return", "unlock"}
                          /\ Undisturbed(t)'

LEMMA CallStep ==
  ASSUME FmsTypes, Mutual, NEW t \in Task, NEW place \in Places, StepTo(t, place)
  PROVE  Mutual'
<1> USE DEF Task, StepTo
<1>1. pc'[t] = place /\ \A u \in Task : u # t => pc'[u] = pc[u]
  BY DEF FmsTypes
<1>2. \A u \in Task : u # t => ~Inside(u)' /\ pc'[u] \notin {"busy", "take"}
  BY <1>1, Alone DEF Inside
<1>3. Exclusion'
  <2>1. (PR1 = 0 => pc["PR1"] = "program")'
    BY <1>1 DEF Mutual, Exclusion
  <2> QED  BY <1>1, <1>2, <2>1 DEF Exclusion, Inside
<1>4. OwnBlock'
  BY <1>1, <1>2 DEF OwnBlock, Inside
<1>5. HeldUndisturbed'
  BY <1>1 DEF Mutual, HeldUndisturbed, Inside
<1> QED  BY <1>3, <1>4, <1>5 DEF Mutual

\* A step outside FMS.
LEMMA QuietStep ==
  ASSUME Mutual, UNCHANGED fms,
         \A t \in Task : Undisturbed(t) => pc[t] = "program" \/ Undisturbed(t)',
         PR1' = PR1 \/ (PR1' = 0 /\ pc["PR1"] = "program")
                    \/ (PR1' = 1 /\ pc["PR0"] = "program")
  PROVE  Mutual'
<1> USE DEF Task, fms
<1>1. Exclusion'
  BY DEF Mutual, Exclusion, Inside
<1>2. OwnBlock'
  BY DEF Mutual, OwnBlock
<1>3. HeldUndisturbed'
  BY DEF Mutual, HeldUndisturbed, Inside
<1> QED  BY <1>1, <1>2, <1>3 DEF Mutual
-----------------------------------------------------------------------------
\* The invariant holds after the system's start.
LEMMA InitIInv == SchedInit => IInv
<1> SUFFICES ASSUME SchedInit PROVE IInv
  OBVIOUS
<1> USE DEF SchedInit, Task
<1>1. CpuTypes
  BY EmptySeq DEF CpuTypes
<1>2. Stacks
  BY EmptySeq DEF Stacks, OwnStack, StackBounded, Parked
<1>3. FmsTypes
  BY DEF FmsTypes, Places
<1>4. Mutual
  BY DEF Mutual, Exclusion, OwnBlock, HeldUndisturbed, Inside
<1> QED  BY <1>1, <1>2, <1>3, <1>4 DEF IInv, Cpu

\* One lemma for each action: it keeps the invariant.
LEMMA IRQKeeps ==
  ASSUME IInv, IRQ
  PROVE  IInv'
<1>1. ~masked /\ Interrupt(TRUE) /\ UNCHANGED <<PR1, fms>>
  BY DEF IRQ
<1>2. Cpu'
  BY <1>1, CpuInterrupt DEF IInv
<1>3. FmsTypes'
  BY <1>1 DEF IInv, FmsTypes, fms
<1>4. Mutual'
  BY <1>1, QuietStep DEF IInv, Undisturbed
<1> QED  BY <1>2, <1>3, <1>4 DEF IInv

LEMMA ScheduleKeeps ==
  ASSUME IInv, Schedule
  PROVE  IInv'
<1>1. entered /\ UNCHANGED <<PR1, fms>>
  BY DEF Schedule
<1>2. Cpu'
  BY CpuSchedule DEF IInv
<1>3. FmsTypes'
  BY <1>1 DEF IInv, FmsTypes, fms
<1>4. Mutual'
  BY <1>1, QuietStep DEF IInv, Undisturbed, Runs
<1> QED  BY <1>2, <1>3, <1>4 DEF IInv

\* What a step of a call starts from.
LEMMA Within ==
  ASSUME IInv, NEW t \in Task, NEW place, At(t, place), place # "program"
  PROVE  /\ Runs(t) /\ (t = "PR1" => PR1 = 1) /\ pc[t] = place /\ ~entered
         /\ "character" \notin Calls => (t = "PR0" => call[t] # "character")
         /\ "character" \notin Calls /\ FMSBUSY = 1
              => (Inside(t) \/ pc[t] = "unlock") /\ Undisturbed(t)
<1>1. Runs(t) /\ pc[t] = place /\ ~entered
  BY DEF At, Runs
<1>2. t = "PR1" => PR1 = 1
  BY <1>1 DEF IInv, Mutual, Exclusion, Cpu, CpuTypes
<1> QED  BY <1>1, <1>2, Alone DEF IInv, Mutual, HeldUndisturbed, Undisturbed

LEMMA TestBackgroundKeeps ==
  ASSUME IInv, NEW t \in Task, TestBackground(t)
  PROVE  IInv'
<1>1. At(t, "cmnd") /\ PR1' = PR1
  BY DEF TestBackground, cpu
<1>2. Runs(t) /\ (t = "PR1" => PR1 = 1) /\ pc[t] = "cmnd" /\ ~entered
  BY <1>1, Within
<1>3. Cpu'
  BY <1>1, <1>2, CpuSame DEF TestBackground, cpu, IInv
<1>4. FmsTypes'
  BY <1>1, <1>2 DEF TestBackground, IInv, FmsTypes, Places, Goto, GoBack, Functions
<1>5. Mutual'
  <2> DEFINE place == IF PR1 = 0 THEN "fcbstr" ELSE "lock"
  <2>1. pc' = [pc EXCEPT ![t] = place] /\ UNCHANGED <<cpu, FMSBUSY, call>>
    BY DEF TestBackground, Goto
  <2>2. place = "fcbstr" => t = "PR0" /\ PR1 = 0
    BY <1>2 DEF Task
  <2>3. "character" \notin Calls => FMSBUSY # 1 /\ (t = "PR0" => call[t] # "character")
    BY <1>1, <1>2, Within DEF Inside
  <2>4. StepTo(t, place) /\ place \in Places
    BY <1>1, <1>2, <2>1, <2>2, <2>3 DEF StepTo, Places, Task
  <2> QED  BY <2>4, CallStep DEF IInv
<1> QED  BY <1>3, <1>4, <1>5 DEF IInv

LEMMA LockKeeps ==
  ASSUME IInv, NEW t \in Task, Lock(t)
  PROVE  IInv'
<1>1. At(t, "lock") /\ PR1' = PR1
  BY DEF Lock, cpu
<1>2. Runs(t) /\ (t = "PR1" => PR1 = 1) /\ pc[t] = "lock" /\ ~entered
  BY <1>1, Within
<1>3. Cpu'
  BY <1>1, <1>2, CpuSame DEF Lock, cpu, IInv, LockMask
<1>4. FmsTypes'
  BY <1>1, <1>2 DEF Lock, IInv, FmsTypes, Places, Goto, GoBack, Functions
<1>5. Mutual'
  <2>1. pc' = [pc EXCEPT ![t] = "busy"] /\ UNCHANGED <<FMSBUSY, call>>
    BY DEF Lock, Goto
  <2>2. Undisturbed(t)'
    BY <1>2 DEF Lock, LockMask, Undisturbed, Runs
  <2>3. "character" \notin Calls => FMSBUSY # 1 /\ (t = "PR0" => call[t] # "character")
    BY <1>1, <1>2, Within DEF Inside
  <2>4. StepTo(t, "busy") /\ "busy" \in Places
    BY <1>1, <1>2, <2>1, <2>2, <2>3 DEF StepTo, Places, Task
  <2> QED  BY <2>4, CallStep DEF IInv
<1> QED  BY <1>3, <1>4, <1>5 DEF IInv

LEMMA LockTestKeeps ==
  ASSUME IInv, NEW t \in Task, LockTest(t)
  PROVE  IInv'
<1>1. At(t, "busy") /\ PR1' = PR1 /\ UNCHANGED <<FMSBUSY, FCBSTR, call, error>>
  BY DEF LockTest
<1>2. Runs(t) /\ (t = "PR1" => PR1 = 1) /\ pc[t] = "busy" /\ ~entered
  BY <1>1, Within
<1>3. Undisturbed(t) /\ ("character" \notin Calls => FMSBUSY # 1)
  BY <1>1, <1>2, Within DEF Inside, IInv, Mutual, Exclusion
<1>4. "character" \notin Calls => (t = "PR0" => call[t] # "character")
  BY <1>1, Within
<1>5. CASE FMSBUSY # 0 /\ Goto(t, "lock") /\ SWI3
  <2>1. Cpu'
    BY <1>1, <1>2, <1>5, CpuInterrupt DEF SWI3, IInv, Cpu, CpuTypes
  <2>2. FmsTypes'
    BY <1>1, <1>5 DEF IInv, FmsTypes, Places, Goto
  <2>3. StepTo(t, "lock") /\ "lock" \in Places
    BY <1>1, <1>2, <1>3, <1>4, <1>5 DEF StepTo, Goto, Places, Task
  <2>4. Mutual'
    BY <2>3, CallStep DEF IInv
  <2> QED  BY <2>1, <2>2, <2>4 DEF IInv
<1>6. CASE FMSBUSY = 0 /\ Goto(t, "take") /\ UNCHANGED cpu
  <2>1. Cpu'
    BY <1>1, <1>6, CpuSame DEF IInv, cpu
  <2>2. FmsTypes'
    BY <1>1, <1>6 DEF IInv, FmsTypes, Places, Goto
  <2>3. Undisturbed(t)'
    BY <1>3, <1>6 DEF Undisturbed, Runs, cpu
  <2>4. StepTo(t, "take") /\ "take" \in Places
    BY <1>1, <1>2, <1>3, <1>4, <1>6, <2>3 DEF StepTo, Goto, Places, Task
  <2>5. Mutual'
    BY <2>4, CallStep DEF IInv
  <2> QED  BY <2>1, <2>2, <2>5 DEF IInv
<1> QED  BY <1>5, <1>6 DEF LockTest

LEMMA LockTakeKeeps ==
  ASSUME IInv, NEW t \in Task, LockTake(t)
  PROVE  IInv'
<1>1. At(t, "take") /\ PR1' = PR1
  BY DEF LockTake, cpu
<1>2. Runs(t) /\ (t = "PR1" => PR1 = 1) /\ pc[t] = "take" /\ ~entered
  BY <1>1, Within
<1>3. Cpu'
  BY <1>1, <1>2, CpuSame DEF LockTake, cpu, IInv
<1>4. FmsTypes'
  BY <1>1, <1>2 DEF LockTake, IInv, FmsTypes, Places, Goto, GoBack, Functions, Mutual, Exclusion
<1>5. Mutual'
  <2>1. pc' = [pc EXCEPT ![t] = "fcbstr"] /\ UNCHANGED <<cpu, call>>
    BY DEF LockTake, Goto
  <2>2. Undisturbed(t)'
    BY <1>2, <2>1 DEF IInv, Mutual, Exclusion, Undisturbed, Runs, cpu
  <2>3. "character" \notin Calls => (t = "PR0" => call[t] # "character")
    BY <1>1, Within
  <2>4. StepTo(t, "fcbstr") /\ "fcbstr" \in Places
    BY <1>1, <1>2, <2>1, <2>2, <2>3 DEF StepTo, Places, Task
  <2> QED  BY <2>4, CallStep DEF IInv
<1> QED  BY <1>3, <1>4, <1>5 DEF IInv

LEMMA SetBlockKeeps ==
  ASSUME IInv, NEW t \in Task, SetBlock(t)
  PROVE  IInv'
<1>1. At(t, "fcbstr") /\ PR1' = PR1
  BY DEF SetBlock, cpu
<1>2. Runs(t) /\ (t = "PR1" => PR1 = 1) /\ pc[t] = "fcbstr" /\ ~entered
  BY <1>1, Within
<1>3. Cpu'
  BY <1>1, <1>2, CpuSame DEF SetBlock, cpu, IInv
<1>4. FmsTypes'
  BY <1>1, <1>2 DEF SetBlock, IInv, FmsTypes, Places, Goto, GoBack, Functions
<1>5. Mutual'
  <2>1. pc' = [pc EXCEPT ![t] = "body"] /\ UNCHANGED <<cpu, FMSBUSY, call>> /\ FCBSTR' = t
    BY DEF SetBlock, Goto
  <2>2. (Undisturbed(t) \/ (t = "PR0" /\ PR1 = 0)) /\ (Undisturbed(t) => Undisturbed(t)')
    BY <1>2, <2>1 DEF IInv, Mutual, Exclusion, Inside, Undisturbed, Runs, cpu
  <2>3. "character" \notin Calls => /\ t = "PR0" => call[t] # "character"
                                    /\ FMSBUSY = 1 => Undisturbed(t)'
    <3>1. "character" \notin Calls /\ FMSBUSY = 1 => Undisturbed(t)
      BY <1>1, Within
    <3> QED  BY <1>1, <2>2, <3>1, Within
  <2>4. StepTo(t, "body") /\ "body" \in Places
    BY <1>1, <1>2, <2>1, <2>2, <2>3 DEF StepTo, Places, Task
  <2> QED  BY <2>4, CallStep DEF IInv
<1> QED  BY <1>3, <1>4, <1>5 DEF IInv

LEMMA BodyKeeps ==
  ASSUME IInv, NEW t \in Task, NEW e \in BOOLEAN, Body(t, e)
  PROVE  IInv'
<1>1. At(t, "body") /\ PR1' = PR1
  BY DEF Body, cpu
<1>2. Runs(t) /\ (t = "PR1" => PR1 = 1) /\ pc[t] = "body" /\ ~entered
  BY <1>1, Within
<1>3. Cpu'
  BY <1>1, <1>2, CpuSame DEF Body, cpu, IInv
<1>4. FmsTypes'
  BY <1>1, <1>2 DEF Body, IInv, FmsTypes, Places, Goto, GoBack, Functions
<1>5. Mutual'
  <2>1. pc' = [pc EXCEPT ![t] = "return"] /\ UNCHANGED <<cpu, FMSBUSY, FCBSTR, call>>
    BY DEF Body, Goto
  <2>2. (Undisturbed(t) \/ (t = "PR0" /\ PR1 = 0)) /\ (Undisturbed(t) => Undisturbed(t)')
    BY <1>2, <2>1 DEF IInv, Mutual, Exclusion, Inside, Undisturbed, Runs, cpu
  <2>3. "character" \notin Calls => /\ t = "PR0" => call[t] # "character"
                                    /\ FMSBUSY = 1 => Undisturbed(t)'
    <3>1. "character" \notin Calls /\ FMSBUSY = 1 => Undisturbed(t)
      BY <1>1, Within
    <3> QED  BY <1>1, <2>2, <3>1, Within
  <2>4. FCBSTR' = t
    BY <1>2, <2>1 DEF IInv, Mutual, OwnBlock
  <2>5. StepTo(t, "return") /\ "return" \in Places
    BY <1>1, <1>2, <2>1, <2>2, <2>3, <2>4 DEF StepTo, Places, Task
  <2> QED  BY <2>5, CallStep DEF IInv
<1> QED  BY <1>3, <1>4, <1>5 DEF IInv

LEMMA ReturnKeeps ==
  ASSUME IInv, NEW t \in Task, Return(t)
  PROVE  IInv'
<1>1. At(t, "return") /\ PR1' = PR1
  BY DEF Return, cpu
<1>2. Runs(t) /\ (t = "PR1" => PR1 = 1) /\ pc[t] = "return" /\ ~entered
  BY <1>1, Within
<1>3. Cpu'
  BY <1>1, <1>2, CpuSame DEF Return, cpu, IInv
<1>4. FmsTypes'
  BY <1>1, <1>2 DEF Return, IInv, FmsTypes, Places, Goto, GoBack, Functions
<1>5. Mutual'
  <2> DEFINE place == IF SkipUnlock(t) THEN "program" ELSE "unlock"
  <2>1. /\ pc' = [pc EXCEPT ![t] = place] /\ UNCHANGED <<cpu, FMSBUSY, FCBSTR>>
        /\ call' = IF place = "program" THEN [call EXCEPT ![t] = None] ELSE call
    BY DEF Return, GoBack, Goto
  <2>2. (Undisturbed(t) \/ (t = "PR0" /\ PR1 = 0)) /\ (Undisturbed(t) => Undisturbed(t)')
    BY <1>2, <2>1 DEF IInv, Mutual, Exclusion, Inside, Undisturbed, Runs, cpu
  <2>3. "character" \notin Calls => /\ t = "PR0" => call[t] # "character"
                                    /\ FMSBUSY = 1 => Undisturbed(t)'
    <3>1. "character" \notin Calls /\ FMSBUSY = 1 => Undisturbed(t)
      BY <1>1, Within
    <3> QED  BY <1>1, <2>2, <3>1, Within
  <2>4. "character" \notin Calls => place = "unlock"
    BY <1>2, <2>3 DEF SkipUnlock, Task
  <2>5. place \in {"program", "unlock"}
    OBVIOUS
  <2> HIDE DEF place
  <2>6. StepTo(t, place) /\ place \in Places
    BY <1>1, <1>2, <2>1, <2>3, <2>4, <2>5 DEF StepTo, Places, Task
  <2> QED  BY <2>6, CallStep DEF IInv
<1> QED  BY <1>3, <1>4, <1>5 DEF IInv

LEMMA UnlockKeeps ==
  ASSUME IInv, NEW t \in Task, Unlock(t)
  PROVE  IInv'
<1>1. At(t, "unlock") /\ PR1' = PR1
  BY DEF Unlock, cpu
<1>2. Runs(t) /\ (t = "PR1" => PR1 = 1) /\ pc[t] = "unlock" /\ ~entered
  BY <1>1, Within
<1>3. Cpu'
  BY <1>1, <1>2, CpuSame DEF Unlock, cpu, IInv
<1>4. FmsTypes'
  BY <1>1, <1>2 DEF Unlock, IInv, FmsTypes, Places, Goto, GoBack, Functions, AfterUnlock
<1>5. Mutual'
  <2> DEFINE place == AfterUnlock(t)
  <2>1. /\ pc' = [pc EXCEPT ![t] = place] /\ FMSBUSY' = 0
        /\ call' = IF place = "program" THEN [call EXCEPT ![t] = None] ELSE call
    BY DEF Unlock, GoBack, Goto
  <2>2. place \in {"program", "init"} /\ (place = "init" => call[t] # "character")
    BY DEF AfterUnlock
  <2> HIDE DEF place
  <2>3. t = "PR1" => call'["PR0"] = call["PR0"]
    BY <2>1 DEF IInv, FmsTypes
  <2>4. t = "PR0" /\ place # "program" => call'[t] # "character"
    BY <2>1, <2>2
  <2>5. StepTo(t, place) /\ place \in Places
    BY <1>1, <1>2, <2>1, <2>2, <2>3, <2>4 DEF StepTo, Places, Task
  <2> QED  BY <2>5, CallStep DEF IInv
<1> QED  BY <1>3, <1>4, <1>5 DEF IInv

LEMMA InitFmsKeeps ==
  ASSUME IInv, NEW t \in Task, InitFms(t)
  PROVE  IInv'
<1>1. At(t, "init") /\ PR1' = PR1
  BY DEF InitFms, cpu
<1>2. Runs(t) /\ (t = "PR1" => PR1 = 1) /\ pc[t] = "init" /\ ~entered
  BY <1>1, Within
<1>3. Cpu'
  BY <1>1, <1>2, CpuSame DEF InitFms, cpu, IInv
<1>4. FmsTypes'
  BY <1>1, <1>2 DEF InitFms, IInv, FmsTypes, Places, Goto, GoBack, Functions
<1>5. Mutual'
  <2>1. /\ pc' = [pc EXCEPT ![t] = "unlock"] /\ UNCHANGED <<cpu, FMSBUSY>>
        /\ call' = [call EXCEPT ![t] = "INIT"]
    BY DEF InitFms, Goto
  <2>2. "character" \notin Calls => FMSBUSY # 1
    BY <1>1, <1>2, Within DEF Inside
  <2>3. (t = "PR1" => call'["PR0"] = call["PR0"]) /\ call'[t] # "character"
    BY <2>1 DEF IInv, FmsTypes, Task
  <2>4. "character" \notin Calls => FMSBUSY' # 1
    BY <2>1, <2>2
  <2>5. StepTo(t, "unlock") /\ "unlock" \in Places
    BY <1>1, <1>2, <2>1, <2>3, <2>4 DEF StepTo, Places, Task
  <2> QED  BY <2>5, CallStep DEF IInv
<1> QED  BY <1>3, <1>4, <1>5 DEF IInv

\* A task's step in its call, whichever it is.
LEMMA InCallKeeps ==
  ASSUME IInv, NEW t \in Task, InCall(t)
  PROVE  IInv'
<1>1. ASSUME NEW e \in BOOLEAN, Body(t, e)
      PROVE  IInv'
  BY <1>1, BodyKeeps
<1> QED  BY <1>1, TestBackgroundKeeps, LockKeeps, LockTestKeeps, LockTakeKeeps, SetBlockKeeps,
            ReturnKeeps, UnlockKeeps, InitFmsKeeps DEF InCall
-----------------------------------------------------------------------------
\* What a task does outside FMS.
LEMMA CallFmsKeeps ==
  ASSUME IInv, NEW t \in Task, NEW f \in Functions, CallFms(t, f),
         t = "PR0" => f \in Calls
  PROVE  IInv'
<1>1. At(t, "program") /\ (t = "PR1" => PR1 = 1) /\ Runs(t) /\ pc[t] = "program"
  BY DEF CallFms, At
<1>2. /\ pc' = [pc EXCEPT ![t] = "cmnd"] /\ call' = [call EXCEPT ![t] = f]
      /\ UNCHANGED <<cpu, PR1, FMSBUSY, FCBSTR, error>>
  BY DEF CallFms, Goto
<1>3. Cpu'
  BY <1>2, CpuSame DEF IInv, cpu
<1>4. FmsTypes'
  BY <1>2 DEF IInv, FmsTypes, Places
<1>5. Mutual'
  <2>1. "character" \notin Calls => FMSBUSY # 1
    BY <1>1, Alone DEF IInv, Inside
  <2>2. "character" \notin Calls =>
          /\ t = "PR0" => call'["PR0"] # "character"
          /\ t = "PR1" => call'["PR0"] = call["PR0"]
    BY <1>2 DEF IInv, FmsTypes, Task
  <2>3. StepTo(t, "cmnd") /\ "cmnd" \in Places
    BY <1>1, <1>2, <2>1, <2>2 DEF StepTo, Places
  <2> QED  BY <2>3, CallStep DEF IInv
<1> QED  BY <1>3, <1>4, <1>5 DEF IInv

LEMMA CloseAllKeeps ==
  ASSUME IInv, CloseAll("PR0")
  PROVE  IInv'
<1>1. Runs("PR0") /\ pc["PR0"] = "program"
  BY DEF CloseAll, At
<1>2. /\ pc' = [pc EXCEPT !["PR0"] = "lock"] /\ call' = [call EXCEPT !["PR0"] = "EXCLS"]
      /\ UNCHANGED <<cpu, PR1, FMSBUSY, FCBSTR, error>>
  BY DEF CloseAll, Goto
<1>3. Cpu'
  BY <1>2, CpuSame DEF IInv, cpu
<1>4. FmsTypes'
  BY <1>2 DEF IInv, FmsTypes, Places
<1>5. Mutual'
  <2>1. "character" \notin Calls => FMSBUSY # 1
    BY <1>1, Alone DEF IInv, Inside, Task
  <2>2. call'["PR0"] # "character"
    BY <1>2 DEF IInv, FmsTypes, Task
  <2>3. StepTo("PR0", "lock") /\ "lock" \in Places /\ "PR0" \in Task
    BY <1>1, <1>2, <2>1, <2>2 DEF StepTo, Places, Task
  <2> QED  BY <2>3, CallStep DEF IInv
<1> QED  BY <1>3, <1>4, <1>5 DEF IInv

LEMMA EntryKeeps ==
  ASSUME IInv, ENTRY
  PROVE  IInv'
<1>1. Runs("PR0") /\ CP' = "PR0" /\ ZCC34' = 0
      /\ UNCHANGED <<saved, sp, entered, masked, stack, PR1, fms>>
  BY DEF ENTRY, At
<1>2. Cpu'
  BY <1>1, CpuSame DEF IInv, Runs
<1>3. FmsTypes'
  BY <1>1 DEF IInv, FmsTypes, fms
<1>4. Mutual'
  BY <1>1, QuietStep DEF IInv, Undisturbed, Runs
<1> QED  BY <1>2, <1>3, <1>4 DEF IInv

LEMMA StartKeeps ==
  ASSUME IInv, NEW m \in BOOLEAN, Start(m)
  PROVE  IInv'
<1>1. pc["PR0"] = "program" /\ PR1' = 1 /\ UNCHANGED <<sp, entered, masked, fms>>
  BY DEF Start, At
<1>2. Cpu'
  BY CpuStart DEF IInv
<1>3. FmsTypes'
  BY <1>1 DEF IInv, FmsTypes, fms
<1>4. Mutual'
  BY <1>1, QuietStep DEF IInv, Undisturbed, Runs
<1> QED  BY <1>2, <1>3, <1>4 DEF IInv

LEMMA SetMaskKeeps ==
  ASSUME IInv, NEW m \in BOOLEAN, SetMask(m)
  PROVE  IInv'
<1>1. /\ Runs("PR1") /\ pc["PR1"] = "program" /\ masked' = m
      /\ UNCHANGED <<CP, ZCC34, saved, sp, entered, stack, PR1, fms>>
  BY DEF SetMask, At
<1>2. Cpu'
  BY <1>1, CpuSame DEF IInv, Runs
<1>3. FmsTypes'
  BY <1>1 DEF IInv, FmsTypes, fms
<1>4. Mutual'
  BY <1>1, QuietStep DEF IInv, Undisturbed, Runs
<1> QED  BY <1>2, <1>3, <1>4 DEF IInv

LEMMA YieldKeeps ==
  ASSUME IInv, Yield
  PROVE  IInv'
<1>1. /\ Runs("PR1") /\ pc["PR1"] = "program"
      /\ Interrupt(masked) /\ UNCHANGED <<PR1, fms>>
  BY DEF Yield, At, SWI3
<1>2. Cpu'
  BY <1>1, CpuInterrupt DEF IInv, Cpu, CpuTypes, Runs
<1>3. FmsTypes'
  BY <1>1 DEF IInv, FmsTypes, fms
<1>4. Mutual'
  BY <1>1, QuietStep DEF IInv, Undisturbed, Runs
<1> QED  BY <1>2, <1>3, <1>4 DEF IInv

LEMMA EndKeeps ==
  ASSUME IInv, End
  PROVE  IInv'
<1>1. pc["PR1"] = "program" /\ PR1' = 0 /\ UNCHANGED <<cpu, fms>>
  BY DEF End, At
<1>2. Cpu'
  BY <1>1, CpuSame DEF IInv, cpu
<1>3. FmsTypes'
  BY <1>1 DEF IInv, FmsTypes, fms
<1>4. Mutual'
  BY <1>1, QuietStep DEF IInv, Undisturbed, Runs, cpu
<1> QED  BY <1>2, <1>3, <1>4 DEF IInv

LEMMA StutterKeeps ==
  ASSUME IInv, UNCHANGED schedVars
  PROVE  IInv'
<1>1. UNCHANGED <<cpu, PR1, fms>>
  BY DEF schedVars
<1>2. Cpu'
  BY <1>1, CpuSame DEF IInv, cpu
<1>3. FmsTypes'
  BY <1>1 DEF IInv, FmsTypes, fms
<1>4. Mutual'
  BY <1>1, QuietStep DEF IInv, Undisturbed, Runs, cpu
<1> QED  BY <1>2, <1>3, <1>4 DEF IInv

\* The invariant is inductive.
LEMMA NextIInv == IInv /\ [SchedNext]_schedVars => IInv'
<1> SUFFICES ASSUME IInv, [SchedNext]_schedVars PROVE IInv'
  OBVIOUS
<1>1. CASE IRQ
  BY <1>1, IRQKeeps
<1>2. CASE Schedule
  BY <1>2, ScheduleKeeps
<1>3. CASE Foreground
  <2>1. ASSUME NEW f \in Calls, CallFms("PR0", f)
        PROVE  IInv'
    BY <2>1, CallFmsKeeps, SchedulerAssumption DEF Task
  <2>2. ASSUME NEW m \in BOOLEAN, Start(m)
        PROVE  IInv'
    BY <2>2, StartKeeps
  <2> QED  BY <1>3, <2>1, <2>2, CloseAllKeeps, EntryKeeps DEF Foreground
<1>4. CASE Background
  <2>1. CASE CallFms("PR1", "character")
    BY <2>1, CallFmsKeeps DEF Task, Functions
  <2>2. ASSUME NEW m \in BOOLEAN, SetMask(m)
        PROVE  IInv'
    BY <2>2, SetMaskKeeps
  <2> QED  BY <1>4, <2>1, <2>2, YieldKeeps, EndKeeps DEF Background
<1>5. ASSUME NEW t \in Task, InCall(t)
      PROVE  IInv'
  BY <1>5, InCallKeeps
<1>6. CASE UNCHANGED schedVars
  BY <1>6, StutterKeeps
<1> QED  BY <1>1, <1>2, <1>3, <1>4, <1>5, <1>6 DEF SchedNext

\* The invariant always holds.
LEMMA IInvAlways == SchedSpec => []IInv
  BY InitIInv, NextIInv, PTL DEF SchedSpec
-----------------------------------------------------------------------------
\* Every variable of the scheduler and of the lock keeps its type; the lock
\* is 0 or 1 although LOCK counts it up (SPOOLER.ASM $C755).
THEOREM TypesAlways == SchedSpec => []SchedTypeOK
<1>1. IInv => SchedTypeOK
  BY DEF IInv, Cpu, CpuTypes, FmsTypes, SchedTypeOK
<1> QED  BY <1>1, IInvAlways, PTL

\* Two tasks are never in FMS together, at whatever instructions they
\* interrupt each other (CMND, LOCK, UNLOCK, the scheduler).
THEOREM NeverTogether == SchedSpec => []OneInside
<1>1. ASSUME IInv
      PROVE  OneInside
  <2>1. SUFFICES ASSUME Inside("PR0"), Inside("PR1")
                 PROVE  FALSE
    BY DEF OneInside
  <2>2. Undisturbed("PR1")
    BY <1>1, <2>1 DEF IInv, Mutual, Exclusion, Task
  <2>3. PR1 = 1
    BY <1>1, <2>1 DEF IInv, Mutual, Exclusion, Inside, Cpu, CpuTypes
  <2>4. Undisturbed("PR0")
    BY <1>1, <2>1, <2>3 DEF IInv, Mutual, Exclusion, Task
  <2> QED  BY <2>2, <2>4 DEF Undisturbed, Runs
<1> QED  BY <1>1, IInvAlways, PTL

\* FCBSTR is the block of the task in FMS from the routine's start until its
\* status is stored (CMND1, CMND15).
THEOREM BlockIsCallers == SchedSpec => []OwnBlock
<1>1. IInv => OwnBlock
  BY DEF IInv, Mutual
<1> QED  BY <1>1, IInvAlways, PTL

\* The scheduler's variables tell whose stack the CPU is on.
THEOREM StackIsOwn == SchedSpec => []OwnStack
<1>1. IInv => OwnStack
  BY DEF IInv, Cpu, Stacks
<1> QED  BY <1>1, IInvAlways, PTL

\* The scheduler's interrupts nest to a depth of two at most.
THEOREM StacksStayShort == SchedSpec => []StackBounded
<1>1. IInv => StackBounded
  BY DEF IInv, Cpu, Stacks
<1> QED  BY <1>1, IInvAlways, PTL

\* With a foreground that makes no character calls, LOCK always finds FMS
\* free: its loop over SWI3 is never taken ($C749).
THEOREM LockIsFree ==
  ASSUME "character" \notin Calls
  PROVE  SchedSpec => []NeverContended
<1>1. ASSUME IInv
      PROVE  NeverContended
  <2>1. SUFFICES ASSUME NEW t \in Task, pc[t] = "busy", FMSBUSY = 1
                 PROVE  FALSE
    BY <1>1 DEF NeverContended, IInv, FmsTypes
  <2>2. Undisturbed(t)
    BY <1>1, <2>1 DEF IInv, Mutual, Exclusion
  <2>3. PICK u \in Task : (Inside(u) \/ pc[u] = "unlock") /\ Undisturbed(u)
    BY <1>1, <2>1 DEF IInv, Mutual, HeldUndisturbed
  <2>4. u = t
    BY <2>2, <2>3 DEF Undisturbed, Runs
  <2> QED  BY <2>1, <2>3, <2>4 DEF Inside
<1> QED  BY <1>1, IInvAlways, PTL

\* With a foreground that makes no character calls, the lock is never left set
\* by a call that has returned.
THEOREM LockIsGivenBack ==
  ASSUME "character" \notin Calls
  PROVE  SchedSpec => []BusyMeansInside
<1>1. IInv => BusyMeansInside
  BY DEF IInv, Mutual, HeldUndisturbed, BusyMeansInside
<1> QED  BY <1>1, IInvAlways, PTL

-----------------------------------------------------------------------------
(* The spooler.                                                            *)

\* Every step of the spooler is one of the scheduler's, or none.
LEMMA SpoolStep == [Next]_vars => [SchedNext]_schedVars
<1> SUFFICES ASSUME [Next]_vars PROVE [SchedNext]_schedVars
  OBVIOUS
<1>1. CASE HandlerStep
  <2>1. CASE Queue
    BY <2>1 DEF Queue, SchedNext, Background
  <2>2. CASE Count
    BY <2>2 DEF Count
  <2>3. CASE Suspended
    BY <2>3 DEF Suspended, SchedNext, Background
  <2>4. CASE Read
    BY <2>4 DEF Read, SchedNext, Background
  <2>5. CASE Result
    BY <2>5 DEF Result
  <2>6. CASE Wait
    BY <2>6 DEF Wait, SchedNext, Background
  <2>7. CASE Out
    BY <2>7 DEF Out
  <2>8. CASE Copies
    BY <2>8 DEF Copies
  <2>9. CASE Less
    BY <2>9 DEF Less
  <2>10. CASE Done
    BY <2>10 DEF Done, SchedNext, Background
  <2>11. CASE Enable
    BY <2>11 DEF Enable, SchedNext, Background
  <2>12. CASE Exit
    BY <2>12 DEF Exit, SchedNext, Background
  <2> QED  BY <1>1, <2>1, <2>2, <2>3, <2>4, <2>5, <2>6, <2>7, <2>8, <2>9, <2>10, <2>11, <2>12
             DEF HandlerStep
<1>2. CASE ForegroundStep
  <2>1. CASE Program
    BY <2>1 DEF Program, SchedNext, Foreground
  <2>2. ASSUME NEW c \in 0..MaxCopies, Enqueue(c)
        PROVE  UNCHANGED schedVars
    BY <2>2 DEF Enqueue
  <2>3. CASE StartPrinting
    BY <2>3 DEF StartPrinting, SchedNext, Foreground
  <2>4. CASE Kill
    BY <2>4 DEF Kill
  <2>5. CASE Suspend
    BY <2>5 DEF Suspend
  <2> QED  BY <1>2, <2>1, <2>2, <2>3, <2>4, <2>5 DEF ForegroundStep
<1>3. ASSUME NEW t \in Task, Fms(t)
      PROVE  SchedNext
  BY <1>3 DEF Fms, SchedNext
<1>4. CASE Tick
  BY <1>4 DEF Tick, SchedNext
<1>5. CASE Switch
  BY <1>5 DEF Switch, SchedNext
<1>6. CASE UNCHANGED vars
  BY <1>6 DEF vars
<1> QED  BY <1>1, <1>2, <1>3, <1>4, <1>5, <1>6 DEF Next

\* The system with the spooler implements the scheduler's specification
\* (ZC75D as a background task, PRINT as what starts it).
THEOREM SpoolerImplementsScheduler == Spec => SchedSpec
<1>1. Init => SchedInit
  BY DEF Init
<1> QED  BY <1>1, SpoolStep, PTL DEF Spec, SchedSpec

-----------------------------------------------------------------------------
\* What the handler's place tells of its task: it is in FMS only for a
\* character, looks at the queue and ends with interrupts off, and is out of
\* its loop only when it has ended.
HandlerPlace ==
  /\ step \in Steps
  /\ pc["PR1"] # "program" => step = "result"
  /\ PR1 = 1 /\ step \in {"count", "done"} => Undisturbed("PR1")
  /\ PR1 = 1 /\ step = "done" => ZC71B = 0
  /\ step \in {"enable", "exit"} => PR1 = 0
  /\ step \notin {"done", "enable", "exit"} => PR1 = 1

SpoolInv == IInv /\ HandlerPlace /\ NoJobStranded

\* A step that is not the handler's own, and no change of the queue.
LEMMA AsidePlace ==
  ASSUME HandlerPlace, NoJobStranded, UNCHANGED <<step, PR1, ZC71B, adding>>,
         pc'["PR1"] = pc["PR1"] \/ step = "result",
         Undisturbed("PR1") => Undisturbed("PR1")' \/ step \notin {"count", "done"}
  PROVE  HandlerPlace' /\ NoJobStranded'
<1>1. HandlerPlace'
  BY DEF HandlerPlace
<1>2. NoJobStranded'
  BY DEF NoJobStranded
<1> QED  BY <1>1, <1>2

\* The handler goes to a place of its loop with its task unended.
LEMMA LoopPlace ==
  ASSUME HandlerPlace, NEW next \in Steps \ {"done", "enable", "exit"}, step' = next,
         PR1 = 1, PR1' = 1,
         pc'["PR1"] = "program" \/ next = "result",
         next = "count" => Undisturbed("PR1")'
  PROVE  HandlerPlace' /\ NoJobStranded'
<1>1. HandlerPlace'
  BY DEF HandlerPlace
<1>2. NoJobStranded'
  BY DEF NoJobStranded
<1> QED  BY <1>1, <1>2

\* The handler's own step keeps its place and leaves no job behind.
LEMMA HandlerKeeps ==
  ASSUME IInv, HandlerPlace, NoJobStranded, HandlerStep
  PROVE  HandlerPlace' /\ NoJobStranded'
<1> USE DEF Handler, At, Steps
<1>1. PR1 \in {0, 1} /\ pc \in [Task -> Places] /\ "PR1" \in Task
      /\ call \in [Task -> Functions \cup {"EXCLS", "INIT", None}]
  BY DEF IInv, Cpu, CpuTypes, FmsTypes, Task
<1>2. CASE Queue
  <2>1. /\ step' = "count" /\ PR1 = 1 /\ PR1' = 1 /\ pc'["PR1"] = "program"
        /\ Undisturbed("PR1")'
    BY <1>2 DEF Queue, SetMask, HandlerPlace, Undisturbed, Runs, fms
  <2> QED  BY <2>1, LoopPlace
<1>3. CASE Count
  <2>1. PR1 = 1 \/ step # "count"
    BY DEF HandlerPlace
  <2>2. /\ step = "count" /\ PR1 = 1 /\ PR1' = 1 /\ pc'["PR1"] = "program"
        /\ Undisturbed("PR1") /\ Undisturbed("PR1")' /\ ZC71B' = ZC71B
    BY <1>3, <2>1 DEF Count, HandlerPlace, schedVars, fms, cpu, Undisturbed, Runs, queueVars
  <2>3. CASE ZC71B = 0 /\ step' = "done"
    BY <2>2, <2>3 DEF HandlerPlace, NoJobStranded
  <2>4. CASE step' = "suspended"
    BY <2>2, <2>4, LoopPlace
  <2> QED  BY <1>3, <2>3, <2>4 DEF Count
<1>4. CASE Suspended
  <2>1. PR1 = 1 /\ PR1' = 1 /\ pc'["PR1"] = "program"
    BY <1>4 DEF Suspended, Yield, HandlerPlace, schedVars, fms
  <2>2. step' \in {"suspended", "read"}
    BY <1>4 DEF Suspended
  <2> QED  BY <2>1, <2>2, LoopPlace
<1>5. CASE Read
  <2>1. PR1 = 1 /\ PR1' = 1 /\ step' \in {"out", "result"}
    BY <1>5 DEF Read, CallFms, HandlerPlace, schedVars, fms
  <2>2. step' = "out" => pc'["PR1"] = "program"
    BY <1>5 DEF Read, schedVars, fms
  <2> QED  BY <2>1, <2>2, LoopPlace
<1>6. CASE Result
  <2>1. PR1 = 1 /\ PR1' = 1 /\ pc'["PR1"] = "program" /\ step' = "out"
    BY <1>6 DEF Result, HandlerPlace, schedVars, fms
  <2> QED  BY <2>1, LoopPlace
<1>7. CASE Wait
  <2>1. PR1 = 1 /\ PR1' = 1 /\ pc'["PR1"] = "program" /\ step' = "out"
    BY <1>7 DEF Wait, Yield, HandlerPlace, fms, spoolVars
  <2> QED  BY <2>1, LoopPlace
<1>8. CASE Out
  <2>1. PR1 = 1 /\ PR1' = 1 /\ pc'["PR1"] = "program" /\ step' \in {"out", "copies", "read"}
    BY <1>8 DEF Out, HandlerPlace, schedVars, fms
  <2> QED  BY <2>1, LoopPlace
<1>9. CASE Copies
  <2>1. PR1 = 1 /\ PR1' = 1 /\ pc'["PR1"] = "program" /\ step' \in {"queue", "less"}
    BY <1>9 DEF Copies, HandlerPlace, schedVars, fms
  <2> QED  BY <2>1, LoopPlace
<1>10. CASE Less
  <2>1. PR1 = 1 /\ PR1' = 1 /\ pc'["PR1"] = "program" /\ step' = "queue"
    BY <1>10 DEF Less, HandlerPlace, schedVars, fms
  <2> QED  BY <2>1, LoopPlace
<1>11. CASE Done
  <2>1. PR1' = 0 /\ pc'["PR1"] = "program" /\ step' = "enable" /\ ZC71B' = ZC71B
        /\ adding' = adding /\ step = "done"
    BY <1>11 DEF Done, End, fms, queueVars
  <2> QED  BY <1>1, <2>1 DEF HandlerPlace, NoJobStranded
<1>12. CASE Enable
  <2>1. PR1' = PR1 /\ pc'["PR1"] = "program" /\ step' = "exit" /\ ZC71B' = ZC71B
        /\ adding' = adding /\ step = "enable"
    BY <1>12 DEF Enable, SetMask, fms, queueVars
  <2> QED  BY <1>1, <2>1 DEF HandlerPlace, NoJobStranded
<1>13. CASE Exit
  <2>1. PR1' = PR1 /\ pc'["PR1"] = "program" /\ step' = "done" /\ ZC71B' = ZC71B
        /\ adding' = adding /\ step = "exit"
    BY <1>13 DEF Exit, Yield, fms, queueVars
  <2> QED  BY <1>1, <2>1 DEF HandlerPlace, NoJobStranded
<1> QED  BY <1>2, <1>3, <1>4, <1>5, <1>6, <1>7, <1>8, <1>9, <1>10, <1>11, <1>12, <1>13
         DEF HandlerStep

\* What PRINT, QCHECK and other programs do: the handler does not run.
LEMMA ForegroundKeeps ==
  ASSUME IInv, HandlerPlace, NoJobStranded, ForegroundStep
  PROVE  HandlerPlace' /\ NoJobStranded'
<1> USE DEF At, Steps
<1>1. At("PR0", "program")
  BY DEF ForegroundStep, Program, CallFms, CloseAll, ENTRY, Enqueue, StartPrinting, Kill, Suspend
<1>2. ~Undisturbed("PR1")
  BY <1>1 DEF Undisturbed, Runs
<1>3. pc \in [Task -> Places] /\ "PR1" \in Task
  BY DEF IInv, FmsTypes, Task
<1>4. CASE Program
  <2>1. UNCHANGED <<step, PR1, ZC71B, adding>> /\ pc'["PR1"] = pc["PR1"]
    BY <1>3, <1>4 DEF Program, CallFms, CloseAll, ENTRY, spoolVars, queueVars, fms, Goto
  <2> QED  BY <1>2, <2>1, AsidePlace
<1>5. ASSUME NEW c \in 0..MaxCopies, Enqueue(c)
      PROVE  HandlerPlace' /\ NoJobStranded'
  <2>1. adding' = TRUE /\ UNCHANGED <<step, schedVars>>
    BY <1>5 DEF Enqueue
  <2>2. HandlerPlace'
    BY <1>2, <2>1 DEF HandlerPlace, schedVars, fms
  <2> QED  BY <2>1, <2>2 DEF NoJobStranded
<1>6. CASE StartPrinting
  <2>1. CASE PR1 = 1 /\ UNCHANGED <<schedVars, step, timer>>
    <3>1. PR1' = 1 /\ step' = step /\ pc'["PR1"] = pc["PR1"] /\ ZC71B' = ZC71B
      BY <1>6, <2>1 DEF StartPrinting, schedVars, fms, queueVars
    <3>2. HandlerPlace'
      BY <1>2, <2>1, <3>1 DEF HandlerPlace
    <3> QED  BY <3>1, <3>2 DEF NoJobStranded
  <2>2. CASE PR1 = 0 /\ (\E m \in BOOLEAN : Start(m)) /\ step' = "queue"
    <3>1. PR1' = 1 /\ pc' = pc
      BY <2>2 DEF Start, fms
    <3>2. pc["PR1"] = "program"
      BY <2>2 DEF HandlerPlace
    <3>3. HandlerPlace'
      BY <2>2, <3>1, <3>2 DEF HandlerPlace
    <3> QED  BY <3>1, <3>3 DEF NoJobStranded
  <2> QED  BY <1>6, <2>1, <2>2 DEF StartPrinting
<1>7. CASE Kill \/ Suspend
  <2>1. UNCHANGED <<step, PR1, ZC71B, adding>> /\ pc'["PR1"] = pc["PR1"]
    BY <1>7 DEF Kill, Suspend, schedVars, queueVars, fms
  <2> QED  BY <1>2, <2>1, AsidePlace
<1> QED  BY <1>4, <1>5, <1>6, <1>7 DEF ForegroundStep

\* A step of a call: the handler's own call, or the handler does not run.
LEMMA FmsKeeps ==
  ASSUME IInv, HandlerPlace, NoJobStranded, NEW t \in Task, Fms(t)
  PROVE  HandlerPlace' /\ NoJobStranded'
<1> USE DEF Goto, GoBack
<1>1. Runs(t) /\ pc[t] # "program" /\ PR1' = PR1
  BY DEF Fms, InCall, TestBackground, Lock, LockTest, LockTake, SetBlock, Body, Return,
         Unlock, InitFms, At, cpu
<1>2. \E place : pc' = [pc EXCEPT ![t] = place]
  BY DEF Fms, InCall, TestBackground, Lock, LockTest, LockTake, SetBlock, Body, Return,
         Unlock, InitFms
<1>3. UNCHANGED <<step, ZC71B, adding>>
  BY DEF Fms, spoolVars, queueVars
<1>4. CASE t = "PR1"
  BY <1>1, <1>3, <1>4, AsidePlace DEF HandlerPlace
<1>5. CASE t = "PR0"
  <2>1. ~Undisturbed("PR1") /\ pc'["PR1"] = pc["PR1"]
    BY <1>1, <1>2, <1>5 DEF Undisturbed, Runs, IInv, FmsTypes, Task
  <2> QED  BY <1>1, <1>3, <2>1, AsidePlace
<1> QED  BY <1>4, <1>5 DEF Task

\* The spooler's invariant is inductive.
LEMMA SpoolInvNext == SpoolInv /\ [Next]_vars => SpoolInv'
<1> SUFFICES ASSUME SpoolInv, [Next]_vars PROVE SpoolInv'
  OBVIOUS
<1>1. IInv'
  BY SpoolStep, NextIInv DEF SpoolInv
<1>2. CASE HandlerStep
  BY <1>1, <1>2, HandlerKeeps DEF SpoolInv
<1>3. CASE ForegroundStep
  BY <1>1, <1>3, ForegroundKeeps DEF SpoolInv
<1>4. ASSUME NEW t \in Task, Fms(t)
      PROVE  SpoolInv'
  BY <1>1, <1>4, FmsKeeps DEF SpoolInv
<1>5. CASE Tick
  <2>1. ~Undisturbed("PR1") /\ UNCHANGED <<step, PR1, ZC71B, adding, pc>>
    BY <1>5 DEF Tick, IRQ, Undisturbed, spoolVars, queueVars, fms
  <2> QED  BY <1>1, <2>1, AsidePlace DEF SpoolInv
<1>6. CASE Switch
  <2>1. ~Undisturbed("PR1") /\ UNCHANGED <<step, PR1, ZC71B, adding, pc>>
    BY <1>6 DEF Switch, Schedule, Undisturbed, Runs, spoolVars, queueVars, fms
  <2> QED  BY <1>1, <2>1, AsidePlace DEF SpoolInv
<1>7. CASE UNCHANGED vars
  <2>1. UNCHANGED <<step, PR1, ZC71B, adding, pc, sp, entered, masked>>
    BY <1>7 DEF vars, schedVars, cpu, fms, spoolVars, queueVars
  <2>2. Undisturbed("PR1") => Undisturbed("PR1")'
    BY <2>1 DEF Undisturbed, Runs
  <2> QED  BY <1>1, <2>1, <2>2, AsidePlace DEF SpoolInv
<1> QED  BY <1>2, <1>3, <1>4, <1>5, <1>6, <1>7 DEF Next

\* It holds at first.
LEMMA InitSpoolInv == Init => SpoolInv
<1>1. ASSUME Init
      PROVE  HandlerPlace /\ NoJobStranded
  BY <1>1 DEF Init, SchedInit, HandlerPlace, NoJobStranded, Steps, Task
<1> QED  BY <1>1, InitIInv DEF Init, SpoolInv

\* A queued job always has a handler, or PRINT is about to start one, although
\* handler and PRINT test and change the count and PR1 in separate steps
\* (ZC75D, ZC78D).
THEOREM JobsHaveHandler == Spec => []NoJobStranded
<1>1. SpoolInv => NoJobStranded
  BY DEF SpoolInv
<1> QED  BY <1>1, InitSpoolInv, SpoolInvNext, PTL DEF Spec

-----------------------------------------------------------------------------
\* The places of the handler where a copy is printed.
Printing == {"suspended", "read", "result", "out", "copies"}

\* The entry that is the i-th after the current one.
Entry(i) == queue[(ZC719 + i) % QueueSize]

\* Characters on their way to the printer end with the form feed, if with any.
Sheets ==
  {<<"cr", "lf", "tof">>, <<"lf", "tof">>, <<"tof">>}
    \cup {<<ch>> : ch \in Chars} \cup {<<"lf", ch>> : ch \in Chars}

QueueTypes ==
  /\ queue \in [Slot -> [job : Nat, copies : Nat]]
  /\ ZC719 \in Slot /\ tail \in Slot /\ ZC71B \in 0 .. QueueSize
  /\ requested \in Seq(Nat) /\ Len(requested) <= MaxJobs
  /\ pages \in [1 .. MaxJobs -> Nat]
  /\ Waiting \in 0 .. Len(requested)

\* The handler prints the current entry's file, one that is in the queue.
Current ==
  /\ step \in Printing => ZC71B > 0 /\ reading = Finished + 1
  /\ step = "out" => todo \in Sheets
  /\ step \in Steps

\* Entries behind the current one have all their copies to come, and what has
\* not been queued has not been printed.
Untouched ==
  /\ \A i \in 1 .. (Waiting - 1) : Entry(i).copies = requested[Finished + 1 + i]
  /\ \A j \in (Len(requested) + 1) .. MaxJobs : pages[j] = 0

QueueInv == QueueTypes /\ Current /\ Untouched /\ QueueInOrder /\ CopiesExact

\* The slots of the ring, counted from one of them.
LEMMA RingSlot ==
  ASSUME NEW a \in Nat, a < 2 * QueueSize
  PROVE  a % QueueSize = IF a < QueueSize THEN a ELSE a - QueueSize
  BY SpoolerAssumption, SMT

\* A step that leaves the queue alone and keeps the handler in or out of its
\* entry.
LEMMA QueueAside ==
  ASSUME QueueInv, UNCHANGED <<queueVars, requested, pages>>, step' \in Steps,
         step' = "less" <=> step = "less", step' = "copies" <=> step = "copies",
         step' \in Printing =>
           \/ step \in Printing /\ reading' = reading
           \/ ZC71B > 0 /\ reading' = Finished + 1,
         step' = "out" => todo' \in Sheets
  PROVE  QueueInv'
<1>1. Waiting' = Waiting /\ Finished' = Finished
  BY DEF Waiting, Finished, queueVars
<1>2. QueueTypes'
  BY <1>1 DEF QueueInv, QueueTypes, queueVars
<1>3. Current'
  BY <1>1 DEF QueueInv, Current, queueVars
<1>4. Untouched'
  BY <1>1 DEF QueueInv, Untouched, Entry, queueVars
<1>5. QueueInOrder'
  BY <1>1 DEF QueueInv, QueueInOrder, queueVars
<1>6. CopiesExact'
  BY <1>1 DEF QueueInv, CopiesExact, queueVars
<1> QED  BY <1>2, <1>3, <1>4, <1>5, <1>6 DEF QueueInv

\* Where the entries of the queue are, counted from the next one.
LEMMA RingStep ==
  ASSUME NEW z \in Slot, NEW i \in Nat, i < QueueSize
  PROVE  /\ (z + i) % QueueSize \in Slot
         /\ NextSlot(z) \in Slot
         /\ (NextSlot(z) + i) % QueueSize = (z + (i + 1)) % QueueSize
         /\ NextSlot((z + i) % QueueSize) = (z + (i + 1)) % QueueSize
         /\ (z + 0) % QueueSize = z
<1>1. QueueSize \in Nat \ {0} /\ z \in Nat /\ z < QueueSize
  BY SpoolerAssumption DEF Slot
<1>2. (z + i) % QueueSize = IF z + i < QueueSize THEN z + i ELSE z + i - QueueSize
  BY <1>1, RingSlot
<1>3. (z + (i + 1)) % QueueSize
        = IF z + i + 1 < QueueSize THEN z + i + 1 ELSE z + i + 1 - QueueSize
  BY <1>1, RingSlot
<1>4. NextSlot(z) = IF z + 1 < QueueSize THEN z + 1 ELSE z + 1 - QueueSize
  BY <1>1, RingSlot DEF NextSlot
<1>5. NextSlot(z) \in Nat /\ NextSlot(z) < QueueSize
  BY <1>1, <1>4
<1>6. (NextSlot(z) + i) % QueueSize
        = IF NextSlot(z) + i < QueueSize THEN NextSlot(z) + i
                                         ELSE NextSlot(z) + i - QueueSize
  BY <1>1, <1>5, RingSlot
<1>7. (z + i) % QueueSize \in Nat /\ (z + i) % QueueSize < QueueSize
  BY <1>1, <1>2
<1>8. NextSlot((z + i) % QueueSize)
        = IF ((z + i) % QueueSize) + 1 < QueueSize THEN ((z + i) % QueueSize) + 1
                                                 ELSE ((z + i) % QueueSize) + 1 - QueueSize
  BY <1>1, <1>7, RingSlot DEF NextSlot
<1>9. (z + 0) % QueueSize = z
  BY <1>1, RingSlot
<1> QED  BY <1>1, <1>2, <1>3, <1>4, <1>5, <1>6, <1>7, <1>8, <1>9 DEF Slot

\* Two entries of a queue that is not over full are in two slots.
LEMMA RingApart ==
  ASSUME NEW z \in Slot, NEW i \in Nat, NEW k \in Nat, i < k, k < QueueSize
  PROVE  (z + i) % QueueSize # (z + k) % QueueSize
<1>1. QueueSize \in Nat \ {0} /\ z \in Nat /\ z < QueueSize
  BY SpoolerAssumption DEF Slot
<1>2. (z + i) % QueueSize = IF z + i < QueueSize THEN z + i ELSE z + i - QueueSize
  BY <1>1, RingSlot
<1>3. (z + k) % QueueSize = IF z + k < QueueSize THEN z + k ELSE z + k - QueueSize
  BY <1>1, RingSlot
<1> QED  BY <1>1, <1>2, <1>3

\* The entry in print has a slot and its job is the first unfinished one.
LEMMA CurrentEntry ==
  ASSUME QueueInv, Waiting > 0
  PROVE  /\ ZC719 \in Slot /\ Entry(0) = queue[ZC719]
         /\ queue[ZC719].job = Finished + 1
         /\ Finished \in Nat /\ Finished + 1 \in 1 .. MaxJobs
         /\ Finished + 1 \in 1 .. Len(requested)
         /\ requested[Finished + 1] = pages[Finished + 1] + queue[ZC719].copies
                                        - (IF step = "copies" THEN 1 ELSE 0)
<1>1. QueueTypes /\ QueueInOrder /\ CopiesExact
  BY DEF QueueInv
<1>2. ZC719 \in Slot /\ (ZC719 + 0) % QueueSize = ZC719
  BY <1>1, RingStep, SpoolerAssumption DEF QueueTypes
<1>3. Waiting \in Nat /\ Len(requested) \in Nat /\ MaxJobs \in Nat /\ Waiting <= Len(requested)
      /\ Len(requested) <= MaxJobs
  BY <1>1, SpoolerAssumption DEF QueueTypes
<1>4. Finished \in Nat /\ Finished + 1 <= Len(requested)
  BY <1>3 DEF Finished
<1>5. queue[ZC719].job = Finished + 1
  <2>1. 0 \in 0 .. (Waiting - 1)
    BY <1>3
  <2>2. queue[(ZC719 + 0) % QueueSize].job = Finished + 1 + 0
    BY <1>1, <2>1 DEF QueueInOrder
  <2> QED  BY <1>2, <1>4, <2>2
<1> QED  BY <1>1, <1>2, <1>3, <1>4, <1>5 DEF CopiesExact, Entry

\* What is printed of the characters on their way leaves such characters.
LEMMA SheetRest ==
  ASSUME NEW s \in Sheets
  PROVE  /\ Head(s) = "tof" => Tail(s) = <<>>
         /\ Tail(s) # <<>> => Tail(s) \in Sheets
<1>1. "tof" \notin Chars
  BY SpoolerAssumption
<1>2. CASE s = <<"cr", "lf", "tof">>
  <2>1. Head(s) = "cr" /\ Tail(s) = <<"lf", "tof">>
    BY <1>2
  <2> QED  BY <2>1 DEF Sheets
<1>3. CASE s = <<"lf", "tof">>
  <2>1. Head(s) = "lf" /\ Tail(s) = <<"tof">>
    BY <1>3
  <2> QED  BY <2>1 DEF Sheets
<1>4. CASE s = <<"tof">>
  BY <1>4
<1>5. ASSUME NEW ch \in Chars, s = <<ch>>
      PROVE  Head(s) # "tof" /\ Tail(s) = <<>>
  BY <1>1, <1>5
<1>6. ASSUME NEW ch \in Chars, s = <<"lf", ch>>
      PROVE  Head(s) # "tof" /\ Tail(s) \in Sheets
  <2>1. Head(s) = "lf" /\ Tail(s) = <<ch>>
    BY <1>6
  <2> QED  BY <2>1 DEF Sheets
<1> QED  BY <1>2, <1>3, <1>4, <1>5, <1>6 DEF Sheets

\* The form feed: the copy is made.
LEMMA OutKeepsQueue ==
  ASSUME QueueInv, Out
  PROVE  QueueInv'
<1>1. /\ step = "out" /\ todo \in Sheets /\ ZC71B > 0 /\ reading = Finished + 1
      /\ QueueTypes /\ QueueInOrder /\ CopiesExact /\ Untouched
  BY DEF Out, Handler, QueueInv, Current, Printing
<1>2. CASE Head(todo) # "tof"
  <2>1. Tail(todo) # <<>> => Tail(todo) \in Sheets
    BY <1>1, SheetRest
  <2>2. pages' = pages /\ step' \in {"out", "read"} /\ todo' = Tail(todo)
        /\ (step' = "out" => Tail(todo) # <<>>) /\ reading' = reading
        /\ UNCHANGED <<queueVars, requested>>
    BY <1>2 DEF Out
  <2> QED  BY <1>1, <2>1, <2>2, QueueAside DEF Steps, Printing
<1>3. CASE Head(todo) = "tof"
  <2>1. Tail(todo) = <<>>
    BY <1>1, <1>3, SheetRest
  <2>2. pages' = [pages EXCEPT ![Finished + 1] = @ + 1] /\ step' = "copies"
        /\ reading' = reading /\ UNCHANGED <<queueVars, requested>>
    BY <1>1, <1>3, <2>1 DEF Out
  <2>3. Waiting' = Waiting /\ Finished' = Finished /\ Waiting > 0
    BY <1>1, <2>2 DEF Waiting, Finished, queueVars
  <2>4. Finished \in Nat /\ Finished + 1 \in 1 .. MaxJobs /\ Finished + 1 \in 1 .. Len(requested)
        /\ requested[Finished + 1] = pages[Finished + 1] + queue[ZC719].copies
        /\ pages[Finished + 1] \in Nat /\ queue[ZC719].copies \in Nat
    <3>1. Finished + 1 \in 1 .. MaxJobs /\ ZC719 \in Slot
      BY <1>1, <2>3, CurrentEntry
    <3>2. pages[Finished + 1] \in Nat /\ queue[ZC719] \in [job : Nat, copies : Nat]
      BY <1>1, <3>1 DEF QueueTypes
    <3>3. requested[Finished + 1] = pages[Finished + 1] + queue[ZC719].copies - 0
      BY <1>1, <2>3, CurrentEntry
    <3> QED  BY <2>3, <3>2, <3>3, CurrentEntry
  <2>5. pages' \in [1 .. MaxJobs -> Nat]
        /\ pages'[Finished + 1] = pages[Finished + 1] + 1
        /\ \A j \in 1 .. MaxJobs : j # Finished + 1 => pages'[j] = pages[j]
    <3> DEFINE F == Finished + 1
    <3>1. F \in 1 .. MaxJobs /\ pages[F] \in Nat /\ pages \in [1 .. MaxJobs -> Nat]
          /\ pages' = [pages EXCEPT ![F] = @ + 1]
      BY <1>1, <2>2, <2>4 DEF QueueTypes
    <3> HIDE DEF F
    <3>2. /\ pages' \in [1 .. MaxJobs -> Nat] /\ pages'[F] = pages[F] + 1
          /\ \A j \in 1 .. MaxJobs : j # F => pages'[j] = pages[j]
      BY <3>1
    <3> QED  BY <3>2 DEF F
  <2>6. QueueTypes'
    BY <1>1, <2>2, <2>3, <2>5 DEF QueueTypes, queueVars
  <2>7. Current'
    BY <1>1, <2>2, <2>3 DEF Current, Printing, Steps, queueVars
  <2>8. Untouched'
    BY <1>1, <2>2, <2>3, <2>4, <2>5 DEF Untouched, Entry, queueVars, QueueTypes
  <2>9. QueueInOrder'
    BY <1>1, <2>2, <2>3 DEF QueueInOrder, queueVars
  <2>10. CopiesExact'
    <3>1. Finished \in Nat /\ Len(requested) \in Nat /\ Len(requested) <= MaxJobs /\ MaxJobs \in Nat
      BY <1>1, <2>4, SpoolerAssumption DEF QueueTypes
    <3>2. /\ \A j \in 1 .. Finished : j \in 1 .. MaxJobs /\ j # Finished + 1
          /\ \A j \in (Finished + 2) .. Len(requested) : j \in 1 .. MaxJobs /\ j # Finished + 1
      BY <3>1, <2>4
    <3>3. /\ \A j \in 1 .. Finished : pages'[j] = pages[j]
          /\ \A j \in (Finished + 2) .. Len(requested) : pages'[j] = pages[j]
      BY <2>5, <3>2
    <3>4. requested'[Finished + 1] = pages'[Finished + 1] + queue'[ZC719'].copies - 1
      BY <2>2, <2>4, <2>5 DEF queueVars
    <3> QED  BY <1>1, <2>2, <2>3, <3>3, <3>4 DEF CopiesExact, queueVars
  <2> QED  BY <2>6, <2>7, <2>8, <2>9, <2>10 DEF QueueInv
<1> QED  BY <1>2, <1>3

\* The next copy of the current entry, or the next entry becomes current.
LEMMA CopiesKeepsQueue ==
  ASSUME QueueInv, Copies
  PROVE  QueueInv'
<1>1. /\ step = "copies" /\ ZC71B > 0 /\ Waiting = ZC71B
      /\ QueueTypes /\ QueueInOrder /\ CopiesExact /\ Untouched
      /\ UNCHANGED <<tail, ZC71B, requested, pages>>
  BY DEF Copies, Handler, QueueInv, Current, Printing, Waiting
<1>2. /\ ZC719 \in Slot /\ queue[ZC719].job = Finished + 1
      /\ Finished \in Nat /\ Finished + 1 \in 1 .. MaxJobs /\ Finished + 1 \in 1 .. Len(requested)
      /\ requested[Finished + 1] = pages[Finished + 1] + queue[ZC719].copies - 1
  BY <1>1, CurrentEntry
<1>3. /\ QueueSize \in Nat \ {0} /\ Waiting \in Nat /\ Waiting <= QueueSize
      /\ Len(requested) \in Nat /\ Waiting <= Len(requested) /\ Len(requested) <= MaxJobs
      /\ MaxJobs \in Nat /\ Finished = Len(requested) - Waiting
      /\ pages \in [1 .. MaxJobs -> Nat] /\ requested \in Seq(Nat)
      /\ queue \in [Slot -> [job : Nat, copies : Nat]]
  BY <1>1, SpoolerAssumption DEF QueueTypes, Finished
<1>4. queue[ZC719].copies \in Nat /\ pages[Finished + 1] \in Nat
  BY <1>2, <1>3
<1>5. CASE ~AllMade
  <2>1. /\ queue' = [queue EXCEPT ![ZC719].copies = @ - 1] /\ step' = "queue"
        /\ ZC719' = ZC719 /\ Waiting' = Waiting /\ Finished' = Finished
    BY <1>1, <1>5 DEF Copies, Waiting, Finished
  <2>2. queue[ZC719].copies - 1 \in Nat
    BY <1>4, <1>5 DEF AllMade
  <2>3. /\ queue' \in [Slot -> [job : Nat, copies : Nat]]
        /\ \A s \in Slot : queue'[s].job = queue[s].job
        /\ \A s \in Slot : s # ZC719 => queue'[s] = queue[s]
        /\ queue'[ZC719].copies = queue[ZC719].copies - 1
    BY <1>2, <1>3, <2>1, <2>2
  <2>4. QueueTypes'
    BY <1>1, <2>1, <2>3 DEF QueueTypes
  <2>5. Current'
    BY <2>1 DEF Current, Printing, Steps
  <2>6. ASSUME NEW i \in 0 .. (Waiting - 1)
        PROVE  (ZC719 + i) % QueueSize \in Slot
               /\ (i > 0 => (ZC719 + i) % QueueSize # ZC719)
    <3>1. i \in Nat /\ i < QueueSize /\ 0 \in Nat
      BY <1>3
    <3>2. (ZC719 + i) % QueueSize \in Slot /\ (ZC719 + 0) % QueueSize = ZC719
      BY <1>2, <3>1, RingStep
    <3>3. i > 0 => (ZC719 + 0) % QueueSize # (ZC719 + i) % QueueSize
      BY <1>2, <3>1, RingApart
    <3> QED  BY <3>2, <3>3
  <2>7. Untouched'
    <3>1. ASSUME NEW i \in 1 .. (Waiting - 1)
          PROVE  Entry(i)' = Entry(i)
      <4>1. i \in 0 .. (Waiting - 1) /\ i > 0
        BY <1>3
      <4> QED  BY <2>1, <2>3, <2>6, <4>1 DEF Entry
    <3> QED  BY <1>1, <2>1, <3>1 DEF Untouched
  <2>8. QueueInOrder'
    BY <1>1, <2>1, <2>3, <2>6 DEF QueueInOrder
  <2>9. CopiesExact'
    <3>1. requested[Finished + 1] = pages[Finished + 1] + queue'[ZC719].copies - 0
      BY <1>2, <1>4, <2>3
    <3> QED  BY <1>1, <2>1, <3>1 DEF CopiesExact
  <2> QED  BY <2>4, <2>5, <2>7, <2>8, <2>9 DEF QueueInv
<1>6. CASE AllMade
  <2>1. /\ ZC719' = NextSlot(ZC719) /\ queue' = queue /\ step' = "less"
        /\ queue[ZC719].copies = 0
    BY <1>1, <1>6 DEF Copies, AllMade
  <2>2. Waiting' = Waiting - 1 /\ Finished' = Finished + 1
    BY <1>1, <1>3, <2>1 DEF Waiting, Finished
  <2>3. QueueTypes'
    <3>1. NextSlot(ZC719) \in Slot
      BY <1>2, <1>3, RingStep
    <3> QED  BY <1>1, <1>3, <2>1, <2>2, <3>1 DEF QueueTypes
  <2>4. Current'
    BY <2>1 DEF Current, Printing, Steps
  <2>5. ASSUME NEW i \in 0 .. (Waiting - 2)
        PROVE  /\ i + 1 \in 1 .. (Waiting - 1)
               /\ (ZC719' + i) % QueueSize = (ZC719 + (i + 1)) % QueueSize
    <3>1. i \in Nat /\ i < QueueSize /\ i + 1 \in 1 .. (Waiting - 1)
      BY <1>3
    <3> QED  BY <1>2, <2>1, <3>1, RingStep
  <2>6. QueueInOrder'
    <3>1. tail' = (ZC719' + Waiting') % QueueSize
      <4>1. Waiting - 1 \in Nat /\ Waiting - 1 < QueueSize /\ (Waiting - 1) + 1 = Waiting
        BY <1>1, <1>3
      <4>2. (NextSlot(ZC719) + (Waiting - 1)) % QueueSize = (ZC719 + ((Waiting - 1) + 1)) % QueueSize
        BY <1>2, <4>1, RingStep
      <4> QED  BY <1>1, <2>1, <2>2, <4>1, <4>2 DEF QueueInOrder
    <3>2. ASSUME NEW i \in 0 .. (Waiting' - 1)
          PROVE  queue'[(ZC719' + i) % QueueSize].job = Finished' + 1 + i
      <4>1. i \in 0 .. (Waiting - 2)
        BY <1>3, <2>2
      <4>2. i + 1 \in 0 .. (Waiting - 1)
        BY <1>3, <4>1
      <4>3. queue[(ZC719 + (i + 1)) % QueueSize].job = Finished + 1 + (i + 1)
        BY <1>1, <4>2 DEF QueueInOrder
      <4>4. Finished' + 1 + i = Finished + 1 + (i + 1)
        BY <1>2, <2>2, <4>1
      <4> QED  BY <2>1, <2>5, <4>1, <4>3, <4>4
    <3> QED  BY <3>1, <3>2 DEF QueueInOrder
  <2>7. Untouched'
    <3>1. ASSUME NEW i \in 1 .. (Waiting' - 1)
          PROVE  Entry(i)'.copies = requested'[Finished' + 1 + i]
      <4>1. i \in 0 .. (Waiting - 2)
        BY <1>3, <2>2
      <4>2. Entry(i + 1).copies = requested[Finished + 1 + (i + 1)]
        BY <1>1, <2>5, <4>1 DEF Untouched
      <4>3. Finished' + 1 + i = Finished + 1 + (i + 1)
        BY <1>2, <2>2, <4>1
      <4> QED  BY <1>1, <2>1, <2>5, <4>1, <4>2, <4>3 DEF Entry
    <3> QED  BY <1>1, <3>1 DEF Untouched
  <2>8. CopiesExact'
    <3>1. \A j \in 1 .. Finished' : pages'[j] = requested'[j] + 1
      <4>1. pages[Finished + 1] = requested[Finished + 1] + 1
        BY <1>2, <1>4, <2>1
      <4>2. \A j \in 1 .. Finished' : j \in 1 .. Finished \/ j = Finished + 1
        BY <1>2, <2>2
      <4> QED  BY <1>1, <4>1, <4>2 DEF CopiesExact
    <3>2. ASSUME Waiting' > 0
          PROVE  requested'[Finished' + 1]
                   = pages'[Finished' + 1] + queue'[ZC719'].copies
                       - (IF step' = "copies" THEN 1 ELSE 0)
      <4>1. 0 \in 0 .. (Waiting - 2) /\ 1 \in 1 .. (Waiting - 1)
        BY <1>3, <2>2, <3>2
      <4>2. (ZC719 + 1) % QueueSize = ZC719'
        BY <2>1 DEF NextSlot
      <4>3. queue[ZC719'].copies = requested[Finished + 1 + 1]
        BY <1>1, <4>1, <4>2 DEF Untouched, Entry
      <4>4. Finished + 1 + 1 \in (Finished + 2) .. Len(requested)
        BY <1>2, <1>3, <4>1
      <4>5. pages[Finished + 1 + 1] = 0
        BY <1>1, <4>4 DEF CopiesExact
      <4>6. queue[ZC719'].copies \in Nat
        <5>1. ZC719' \in Slot
          BY <2>3 DEF QueueTypes
        <5> QED  BY <1>3, <5>1
      <4> QED  BY <1>1, <2>1, <2>2, <4>3, <4>5, <4>6
    <3>3. \A j \in (Finished' + 2) .. Len(requested)' : pages'[j] = 0
      <4>1. \A j \in (Finished' + 2) .. Len(requested) : j \in (Finished + 2) .. Len(requested)
        BY <1>2, <1>3, <2>2
      <4> QED  BY <1>1, <4>1 DEF CopiesExact
    <3> QED  BY <3>1, <3>2, <3>3 DEF CopiesExact
  <2> QED  BY <2>3, <2>4, <2>6, <2>7, <2>8 DEF QueueInv
<1> QED  BY <1>5, <1>6

\* The entry leaves the queue, which it had left in all but the count.
LEMMA LessKeepsQueue ==
  ASSUME QueueInv, Less
  PROVE  QueueInv'
<1>1. /\ step = "less" /\ step' = "queue" /\ ZC71B' = ZC71B - 1
      /\ QueueTypes /\ QueueInOrder /\ CopiesExact /\ Untouched
      /\ UNCHANGED <<queue, ZC719, tail, requested, pages>>
  BY DEF Less, Handler, QueueInv, history
<1>2. Waiting = ZC71B - 1 /\ Waiting' = Waiting /\ Finished' = Finished
  BY <1>1 DEF Waiting, Finished
<1>3. ZC71B' \in 0 .. QueueSize
  BY <1>1, <1>2, SpoolerAssumption DEF QueueTypes
<1>4. QueueTypes'
  BY <1>1, <1>2, <1>3 DEF QueueTypes
<1>5. Current'
  BY <1>1 DEF Current, Printing, Steps
<1>6. Untouched' /\ QueueInOrder'
  BY <1>1, <1>2 DEF Untouched, Entry, QueueInOrder
<1>7. CopiesExact'
  BY <1>1, <1>2 DEF CopiesExact
<1> QED  BY <1>4, <1>5, <1>6, <1>7 DEF QueueInv

\* PRINT adds an entry behind the last one, in a slot no entry is in.
LEMMA EnqueueKeepsQueue ==
  ASSUME QueueInv, NEW c \in 0 .. MaxCopies, Enqueue(c)
  PROVE  QueueInv'
<1>1. /\ Len(requested) < MaxJobs /\ ZC71B < QueueSize
      /\ queue' = [queue EXCEPT ![tail] = [job |-> Len(requested) + 1, copies |-> c]]
      /\ tail' = NextSlot(tail) /\ ZC71B' = ZC71B + 1
      /\ requested' = Append(requested, c)
      /\ QueueTypes /\ QueueInOrder /\ CopiesExact /\ Untouched /\ Current
      /\ UNCHANGED <<step, ZC719, pages, reading, todo>>
  BY DEF Enqueue, QueueInv
<1>2. /\ QueueSize \in Nat \ {0} /\ Waiting \in Nat /\ ZC71B \in Nat /\ Waiting <= ZC71B
      /\ Len(requested) \in Nat /\ Waiting <= Len(requested)
      /\ MaxJobs \in Nat /\ Finished = Len(requested) - Waiting /\ Finished \in Nat
      /\ pages \in [1 .. MaxJobs -> Nat] /\ requested \in Seq(Nat) /\ c \in Nat
      /\ queue \in [Slot -> [job : Nat, copies : Nat]]
      /\ ZC719 \in Slot /\ tail = (ZC719 + Waiting) % QueueSize /\ tail \in Slot
  BY <1>1, SpoolerAssumption DEF QueueTypes, QueueInOrder, Finished, Waiting
<1>3. /\ requested' \in Seq(Nat) /\ Len(requested') = Len(requested) + 1
      /\ requested'[Len(requested) + 1] = c
      /\ \A j \in 1 .. Len(requested) : requested'[j] = requested[j]
  BY <1>1, <1>2
<1>4. Waiting' = Waiting + 1
  BY <1>1, <1>2 DEF Waiting
<1>5. Finished' = Finished
  BY <1>2, <1>3, <1>4 DEF Finished
<1>6. /\ queue' \in [Slot -> [job : Nat, copies : Nat]]
      /\ queue'[tail] = [job |-> Len(requested) + 1, copies |-> c]
      /\ \A s \in Slot : s # tail => queue'[s] = queue[s]
  <2>1. [job |-> Len(requested) + 1, copies |-> c] \in [job : Nat, copies : Nat]
    BY <1>2
  <2> QED  BY <1>1, <1>2, <2>1
<1>7. ASSUME NEW i \in 0 .. (Waiting - 1)
      PROVE  queue'[(ZC719 + i) % QueueSize] = queue[(ZC719 + i) % QueueSize]
  <2>1. i \in Nat /\ i < Waiting /\ Waiting < QueueSize /\ i < QueueSize
    BY <1>1, <1>2
  <2>2. (ZC719 + i) % QueueSize # tail
    BY <1>2, <2>1, RingApart
  <2>3. (ZC719 + i) % QueueSize \in Slot
    BY <1>2, <2>1, RingStep
  <2> QED  BY <1>6, <2>2, <2>3
<1>8. tail' \in Slot /\ tail' = (ZC719 + (Waiting + 1)) % QueueSize
  <2>1. Waiting < QueueSize /\ 0 \in Nat /\ 0 < QueueSize
    BY <1>1, <1>2
  <2>2. NextSlot((ZC719 + Waiting) % QueueSize) = (ZC719 + (Waiting + 1)) % QueueSize
    BY <1>2, <2>1, RingStep
  <2>3. NextSlot(tail) \in Slot
    BY <1>2, <2>1, RingStep
  <2> QED  BY <1>1, <1>2, <2>2, <2>3
<1>9. QueueTypes'
  <2>1. ZC71B' \in 0 .. QueueSize /\ Waiting' \in 0 .. Len(requested') /\ Len(requested') <= MaxJobs
    BY <1>1, <1>2, <1>3, <1>4
  <2> QED  BY <1>1, <1>2, <1>3, <1>6, <1>8, <2>1 DEF QueueTypes
<1>10. Current'
  BY <1>1, <1>2, <1>5 DEF Current
<1>11. QueueInOrder'
  <2>1. ASSUME NEW i \in 0 .. (Waiting' - 1)
        PROVE  queue'[(ZC719' + i) % QueueSize].job = Finished' + 1 + i
    <3>1. i \in 0 .. (Waiting - 1) \/ i = Waiting
      BY <1>2, <1>4
    <3>2. CASE i \in 0 .. (Waiting - 1)
      BY <1>1, <1>5, <1>7, <3>2 DEF QueueInOrder
    <3>3. CASE i = Waiting
      BY <1>1, <1>2, <1>5, <1>6, <3>3
    <3> QED  BY <3>1, <3>2, <3>3
  <2> QED  BY <1>1, <1>4, <1>8, <2>1 DEF QueueInOrder
<1>12. Untouched'
  <2>1. ASSUME NEW i \in 1 .. (Waiting' - 1)
        PROVE  Entry(i)'.copies = requested'[Finished' + 1 + i]
    <3>1. i \in 1 .. (Waiting - 1) \/ (i = Waiting /\ i > 0)
      BY <1>2, <1>4
    <3>2. CASE i \in 1 .. (Waiting - 1)
      <4>1. i \in 0 .. (Waiting - 1) /\ Finished + 1 + i \in 1 .. Len(requested)
        BY <1>2, <3>2
      <4>2. Entry(i).copies = requested[Finished + 1 + i]
        BY <1>1, <3>2 DEF Untouched
      <4> QED  BY <1>1, <1>3, <1>5, <1>7, <4>1, <4>2 DEF Entry
    <3>3. CASE i = Waiting
      <4>1. Finished + 1 + i = Len(requested) + 1
        BY <1>2, <3>3
      <4> QED  BY <1>1, <1>2, <1>3, <1>5, <1>6, <3>3, <4>1 DEF Entry
    <3> QED  BY <3>1, <3>2, <3>3
  <2>2. \A j \in (Len(requested') + 1) .. MaxJobs : j \in (Len(requested) + 1) .. MaxJobs
    BY <1>2, <1>3
  <2> QED  BY <1>1, <2>1, <2>2 DEF Untouched
<1>13. CopiesExact'
  <2>1. \A j \in 1 .. Finished : j \in 1 .. Len(requested)
    BY <1>2
  <2>2. \A j \in 1 .. Finished' : pages'[j] = requested'[j] + 1
    BY <1>1, <1>3, <1>5, <2>1 DEF CopiesExact
  <2>3. requested'[Finished' + 1] = pages'[Finished' + 1] + queue'[ZC719'].copies
                                       - (IF step' = "copies" THEN 1 ELSE 0)
    <3>1. CASE Waiting > 0
      <4>1. 0 \in 0 .. (Waiting - 1) /\ 0 \in Nat /\ 0 < QueueSize
        BY <1>2, <3>1
      <4>2. (ZC719 + 0) % QueueSize = ZC719
        BY <1>2, <4>1, RingStep
      <4>3. queue'[ZC719] = queue[ZC719]
        BY <1>7, <4>1, <4>2
      <4>4. Finished + 1 \in 1 .. Len(requested)
        BY <1>2, <3>1
      <4> QED  BY <1>1, <1>3, <1>5, <3>1, <4>3, <4>4 DEF CopiesExact
    <3>2. CASE Waiting = 0
      <4>1. (ZC719 + 0) % QueueSize = ZC719 /\ tail = ZC719
        BY <1>2, <3>2, RingStep
      <4>2. Finished + 1 = Len(requested) + 1 /\ Finished + 1 \in (Len(requested) + 1) .. MaxJobs
        BY <1>1, <1>2, <3>2
      <4>3. pages[Finished + 1] = 0
        BY <1>1, <4>2 DEF Untouched
      <4>4. step # "copies"
        BY <1>1, <1>2, <3>2 DEF Current, Printing, Waiting
      <4> QED  BY <1>1, <1>2, <1>3, <1>5, <1>6, <4>1, <4>2, <4>3, <4>4
    <3> QED  BY <1>2, <3>1, <3>2
  <2>4. \A j \in (Finished + 2) .. Len(requested') : pages[j] = 0
    <3>1. \A j \in (Finished + 2) .. Len(requested') :
            j \in (Finished + 2) .. Len(requested) \/ j \in (Len(requested) + 1) .. MaxJobs
      BY <1>1, <1>2, <1>3
    <3> QED  BY <1>1, <3>1 DEF CopiesExact, Untouched
  <2> QED  BY <1>1, <1>5, <2>2, <2>3, <2>4 DEF CopiesExact
<1> QED  BY <1>9, <1>10, <1>11, <1>12, <1>13 DEF QueueInv

\* A step that changes neither the queue nor the handler's place.
LEMMA QueueStays ==
  ASSUME QueueInv, UNCHANGED <<queueVars, requested, pages, step, reading, todo>>
  PROVE  QueueInv'
<1>1. step \in Steps /\ (step = "out" => todo \in Sheets)
  BY DEF QueueInv, Current
<1> QED  BY <1>1, QueueAside

\* The handler's own step.
LEMMA HandlerKeepsQueue ==
  ASSUME QueueInv, HandlerStep
  PROVE  QueueInv'
<1> USE DEF Handler
<1>1. step \in Steps /\ (step = "out" => todo \in Sheets)
  BY DEF QueueInv, Current
<1>2. CASE Queue
  BY <1>1, <1>2, QueueAside DEF Queue, Steps, Printing, history
<1>3. CASE Count
  <2>1. CASE ZC71B = 0
    BY <1>1, <1>3, <2>1, QueueAside DEF Count, Steps, Printing
  <2>2. CASE ZC71B # 0
    <3>1. ZC71B > 0 /\ Waiting > 0 /\ step = "count" /\ step' = "suspended"
          /\ reading' = queue[ZC719].job /\ UNCHANGED <<queueVars, requested, pages>>
      BY <1>3, <2>2, SpoolerAssumption DEF Count, QueueInv, QueueTypes, Waiting
    <3>2. reading' = Finished + 1
      BY <3>1, CurrentEntry
    <3> QED  BY <3>1, <3>2, QueueAside DEF Steps, Printing
  <2> QED  BY <2>1, <2>2
<1>4. CASE Suspended
  BY <1>1, <1>4, QueueAside DEF Suspended, Steps, Printing, history
<1>5. CASE Read
  <2>1. Trailer \in Sheets
    BY DEF Trailer, Sheets
  <2> QED  BY <1>1, <1>5, <2>1, QueueAside DEF Read, Steps, Printing, history
<1>6. CASE Result
  <2>1. todo' \in Sheets
    <3>1. Trailer \in Sheets
      BY DEF Trailer, Sheets
    <3>2. \A ch \in Chars : WithLineFeed(ch) \in Sheets
      BY DEF WithLineFeed, Sheets
    <3> QED  BY <1>6, <3>1, <3>2 DEF Result
  <2> QED  BY <1>1, <1>6, <2>1, QueueAside DEF Result, Steps, Printing
<1>7. CASE Wait
  BY <1>7, QueueStays DEF Wait, spoolVars, history
<1>8. CASE Out
  BY <1>8, OutKeepsQueue
<1>9. CASE Copies
  BY <1>9, CopiesKeepsQueue
<1>10. CASE Less
  BY <1>10, LessKeepsQueue
<1>11. CASE Done
  BY <1>1, <1>11, QueueAside DEF Done, Steps, Printing, history
<1>12. CASE Enable
  BY <1>1, <1>12, QueueAside DEF Enable, Steps, Printing, history
<1>13. CASE Exit
  BY <1>1, <1>13, QueueAside DEF Exit, Steps, Printing, history
<1> QED  BY <1>2, <1>3, <1>4, <1>5, <1>6, <1>7, <1>8, <1>9, <1>10, <1>11, <1>12, <1>13
         DEF HandlerStep

\* PRINT and the other programs: a handler that is started had ended.
LEMMA ForegroundKeepsQueue ==
  ASSUME QueueInv, HandlerPlace, ForegroundStep
  PROVE  QueueInv'
<1>1. CASE Program
  BY <1>1, QueueStays DEF Program, spoolVars, history
<1>2. ASSUME NEW c \in 0 .. MaxCopies, Enqueue(c)
      PROVE  QueueInv'
  BY <1>2, EnqueueKeepsQueue
<1>3. CASE StartPrinting
  <2>1. CASE UNCHANGED step
    BY <1>3, <2>1, QueueStays DEF StartPrinting, history
  <2>2. CASE PR1 = 0 /\ step' = "queue"
    <3>1. step \in {"done", "enable", "exit"}
      BY <2>2 DEF HandlerPlace
    <3> QED  BY <1>3, <2>2, <3>1, QueueAside DEF StartPrinting, Steps, Printing, history
  <2> QED  BY <1>3, <2>1, <2>2 DEF StartPrinting
<1>4. CASE Kill \/ Suspend
  BY <1>4, QueueStays DEF Kill, Suspend, history
<1> QED  BY <1>1, <1>2, <1>3, <1>4 DEF ForegroundStep

\* The invariant of the queue is inductive, given the handler's place.
LEMMA QueueInvNext == SpoolInv /\ QueueInv /\ [Next]_vars => QueueInv'
<1> SUFFICES ASSUME SpoolInv, QueueInv, [Next]_vars PROVE QueueInv'
  OBVIOUS
<1>1. CASE HandlerStep
  BY <1>1, HandlerKeepsQueue
<1>2. CASE ForegroundStep
  BY <1>2, ForegroundKeepsQueue DEF SpoolInv
<1>3. ASSUME NEW t \in Task, Fms(t)
      PROVE  QueueInv'
  BY <1>3, QueueStays DEF Fms, spoolVars, history
<1>4. CASE Tick \/ Switch
  BY <1>4, QueueStays DEF Tick, Switch, spoolVars, history
<1>5. CASE UNCHANGED vars
  BY <1>5, QueueStays DEF vars, spoolVars, history
<1> QED  BY <1>1, <1>2, <1>3, <1>4, <1>5 DEF Next

\* The queue is empty at first.
LEMMA InitQueueInv == Init => QueueInv
<1> SUFFICES ASSUME Init PROVE QueueInv
  OBVIOUS
<1>1. QueueSize \in Nat \ {0} /\ MaxJobs \in Nat
  BY SpoolerAssumption
<1>2. /\ Waiting = 0 /\ Finished = 0 /\ ZC719 = 0 /\ tail = 0 /\ ZC71B = 0
      /\ requested = <<>> /\ Len(requested) = 0 /\ step = "exit"
      /\ pages = [j \in 1 .. MaxJobs |-> 0] /\ queue = [s \in Slot |-> NoEntry]
  BY DEF Init, Waiting, Finished
<1>3. 0 \in Slot /\ (0 + 0) % QueueSize = 0
  BY <1>1, RingSlot DEF Slot
<1>4. QueueTypes
  BY <1>1, <1>2, <1>3 DEF QueueTypes, NoEntry
<1>5. Current /\ Untouched
  BY <1>1, <1>2 DEF Current, Untouched, Printing, Steps
<1>6. QueueInOrder
  BY <1>2, <1>3 DEF QueueInOrder
<1>7. CopiesExact
  BY <1>2 DEF CopiesExact
<1> QED  BY <1>4, <1>5, <1>6, <1>7 DEF QueueInv

LEMMA QueueInvAlways == Spec => [](SpoolInv /\ QueueInv)
<1>1. Init => SpoolInv
  BY InitSpoolInv
<1> QED  BY <1>1, InitQueueInv, SpoolInvNext, QueueInvNext, PTL DEF Spec

\* Jobs stand in the queue in the order PRINT added them, for any queue and any
\* number of jobs, although the handler moves the pointer and the count in two
\* instructions between which PRINT may add an entry (SPOOLER.ASM, ZC7E3 on).
THEOREM JobsInOrder == Spec => []QueueInOrder
<1>1. QueueInv => QueueInOrder
  BY DEF QueueInv
<1> QED  BY <1>1, QueueInvAlways, PTL

\* Every finished job was printed once and once more for each extra copy, and
\* the current one has the rest to come, also when prints are killed.
THEOREM CopiesCounted == Spec => []CopiesExact
<1>1. QueueInv => CopiesExact
  BY DEF QueueInv
<1> QED  BY <1>1, QueueInvAlways, PTL
-----------------------------------------------------------------------------
\* A set of naturals has a least element.
LEMMA LeastNat ==
  ASSUME NEW S, S \subseteq Nat, S # {}
  PROVE  \E x \in S : \A y \in S : x <= y
  <1> DEFINE Below == {ss \in Nat \X Nat : ss[1] < ss[2]}
  <1>1. IsWellFoundedOn(Below, Nat)
    BY NatLessThanWellFounded DEF OpToRel
  <1> HIDE DEF Below
  <1>2. PICK x \in S : \A y \in S : <<y, x>> \notin Below
    BY <1>1, WFMin, Zenon
  <1>3. \A y \in S : x <= y
    <2> TAKE y \in S
    <2>1. x \in Nat /\ y \in Nat
      OBVIOUS
    <2>2. <<y, x>> \notin Below
      BY <1>2
    <2>3. y < x => <<y, x>> \in Below
      BY <2>1 DEF Below
    <2> QED  BY <2>1, <2>2, <2>3
  <1> QED  BY <1>3

\* What FlattenSeq computes: g[i] is the first i members of s in one sequence.
IsFlat(g, s, n) == g = [i \in 1 .. n |-> IF i = 1 THEN s[i] ELSE g[i - 1] \o s[i]]

\* There is such a function: the least length without one has none.
LEMMA FlatExists ==
  ASSUME NEW s, NEW n \in Nat
  PROVE  \E g : IsFlat(g, s, n)
<1> DEFINE Bad == {m \in Nat : ~ \E g : IsFlat(g, s, m)}
<1>1. ASSUME Bad # {}
      PROVE  FALSE
  <2>1. PICK m \in Bad : \A k \in Bad : m <= k
    BY <1>1, LeastNat
  <2>2. CASE m = 0
    <3>1. IsFlat([i \in 1 .. 0 |-> 0], s, 0)
      BY DEF IsFlat
    <3> QED  BY <2>1, <2>2, <3>1
  <2>3. CASE m # 0
    <3>1. m - 1 \in Nat /\ m \in Nat /\ ~ (m - 1 \in Bad)
      BY <2>1, <2>3
    <3>2. PICK g : IsFlat(g, s, m - 1)
      BY <3>1
    <3>3. PICK last : last = IF m = 1 THEN s[m] ELSE g[m - 1] \o s[m]
      OBVIOUS
    <3>4. PICK h : h = [i \in 1 .. m |-> IF i = m THEN last ELSE g[i]]
      OBVIOUS
    <3>5. ASSUME NEW i \in 1 .. m
          PROVE  h[i] = IF i = 1 THEN s[i] ELSE h[i - 1] \o s[i]
      <4>1. CASE i = m
        <5>1. h[i] = last
          BY <3>4, <4>1
        <5>2. i # 1 => h[i - 1] = g[i - 1]
          BY <3>1, <3>4, <4>1
        <5> QED  BY <3>3, <4>1, <5>1, <5>2, Zenon
      <4>2. CASE i # m
        <5>1. i \in 1 .. (m - 1) /\ h[i] = g[i]
          BY <3>1, <3>4, <4>2
        <5>2. i # 1 => h[i - 1] = g[i - 1]
          BY <3>1, <3>4, <5>1
        <5>3. g[i] = IF i = 1 THEN s[i] ELSE g[i - 1] \o s[i]
          BY <3>2, <5>1, Zenon DEF IsFlat
        <5> QED  BY <5>1, <5>2, <5>3, Zenon
      <4> QED  BY <4>1, <4>2
    <3>6. IsFlat(h, s, m)
      <4>1. h = [i \in 1 .. m |-> h[i]]
        BY <3>4
      <4>2. [i \in 1 .. m |-> h[i]] = [i \in 1 .. m |-> IF i = 1 THEN s[i] ELSE h[i - 1] \o s[i]]
        BY <3>5, Zenon
      <4> QED  BY <4>1, <4>2, Zenon DEF IsFlat
    <3> QED  BY <2>1, <3>6
  <2> QED  BY <2>2, <2>3
<1> QED  BY <1>1

\* t begins with the first m members of s, and both are flattened.
BothFlat(s, t, m, n, g, h) ==
  /\ m \in Nat /\ n \in Nat /\ m <= n
  /\ \A i \in 1 .. m : t[i] = s[i]
  /\ IsFlat(g, s, m) /\ IsFlat(h, t, n)

\* What comes out of the beginning does not depend on what follows.
LEMMA FlatUnique ==
  ASSUME NEW s, NEW t, NEW m, NEW n, NEW g, NEW h, BothFlat(s, t, m, n, g, h)
  PROVE  \A i \in 1 .. m : g[i] = h[i]
<1>0. /\ m \in Nat /\ n \in Nat /\ m <= n
      /\ \A i \in 1 .. m : t[i] = s[i]
      /\ IsFlat(g, s, m) /\ IsFlat(h, t, n)
  BY DEF BothFlat
<1> DEFINE Bad == {i \in 1 .. m : g[i] # h[i]}
<1>1. ASSUME Bad # {}
      PROVE  FALSE
  <2>0. Bad \subseteq Nat
    OBVIOUS
  <2>1. PICK i \in Bad : \A k \in Bad : i <= k
    BY <1>1, <2>0, LeastNat, Zenon
  <2>2. i \in 1 .. m /\ i \in 1 .. n /\ g[i] # h[i]
    BY <1>0, <2>1
  <2>3. g[i] = IF i = 1 THEN s[i] ELSE g[i - 1] \o s[i]
    BY <1>0, <2>2, Zenon DEF IsFlat
  <2>4. h[i] = IF i = 1 THEN t[i] ELSE h[i - 1] \o t[i]
    BY <1>0, <2>2, Zenon DEF IsFlat
  <2>5. i # 1 => g[i - 1] = h[i - 1]
    <3>1. i # 1 => i - 1 \in 1 .. m /\ ~ (i <= i - 1)
      BY <1>0, <2>2
    <3> QED  BY <2>1, <3>1
  <2>6. t[i] = s[i]
    BY <1>0, <2>2
  <2> QED  BY <2>2, <2>3, <2>4, <2>5, <2>6, Zenon
<1> QED  BY <1>1

\* FlattenSeq is the last value of such a function.
LEMMA FlattenIs ==
  ASSUME NEW s, Len(s) \in Nat, Len(s) # 0
  PROVE  \E g : IsFlat(g, s, Len(s)) /\ FlattenSeq(s) = g[Len(s)]
<1>1. PICK f : f = CHOOSE g : IsFlat(g, s, Len(s))
  OBVIOUS
<1>2. IsFlat(f, s, Len(s))
  BY <1>1, FlatExists, Zenon
<1>3. FlattenSeq(s) = f[Len(s)]
  BY <1>1, Zenon DEF FlattenSeq, IsFlat
<1> QED  BY <1>2, <1>3

\* Nothing flattened is nothing.
LEMMA FlattenEmpty == FlattenSeq(<<>>) = <<>>
  BY DEF FlattenSeq

\* One more member adds its own elements at the end.
LEMMA FlattenAppend ==
  ASSUME NEW S, NEW s, NEW t, Len(s) \in Nat, Len(t) = Len(s) + 1,
         Len(s) = 0 => s = <<>>,
         \A i \in 1 .. Len(s) : t[i] = s[i],
         t[Len(t)] \in Seq(S)
  PROVE  FlattenSeq(t) = FlattenSeq(s) \o t[Len(t)]
<1>1. Len(t) \in Nat /\ Len(t) # 0 /\ Len(t) \in 1 .. Len(t)
  OBVIOUS
<1>2. PICK h : IsFlat(h, t, Len(t)) /\ FlattenSeq(t) = h[Len(t)]
  BY <1>1, FlattenIs
<1>3. h[Len(t)] = IF Len(t) = 1 THEN t[Len(t)] ELSE h[Len(t) - 1] \o t[Len(t)]
  BY <1>1, <1>2, Zenon DEF IsFlat
<1>4. CASE Len(s) = 0
  <2>1. FlattenSeq(s) = <<>> /\ Len(t) = 1
    BY <1>4, FlattenEmpty
  <2>2. <<>> \o t[Len(t)] = t[Len(t)]
    OBVIOUS
  <2> QED  BY <1>2, <1>3, <2>1, <2>2, Zenon
<1>5. CASE Len(s) # 0
  <2>1. PICK g : IsFlat(g, s, Len(s)) /\ FlattenSeq(s) = g[Len(s)]
    BY <1>5, FlattenIs
  <2>2. Len(s) <= Len(t) /\ Len(s) \in 1 .. Len(s) /\ Len(t) - 1 = Len(s) /\ Len(t) # 1
    BY <1>5
  <2>3. g[Len(s)] = h[Len(s)]
    <3>1. PICK m \in Nat : m = Len(s)
      OBVIOUS
    <3>2. PICK n \in Nat : n = Len(t)
      BY <1>1
    <3>3. m <= n /\ m \in 1 .. m /\ IsFlat(g, s, m) /\ IsFlat(h, t, n)
      BY <1>2, <2>1, <2>2, <3>1, <3>2, Zenon
    <3>4. BothFlat(s, t, m, n, g, h)
      BY <3>1, <3>3 DEF BothFlat
    <3>5. \A i \in 1 .. m : g[i] = h[i]
      BY <3>4, FlatUnique
    <3> QED  BY <3>1, <3>3, <3>5, Zenon
  <2> QED  BY <1>2, <1>3, <2>1, <2>2, <2>3, Zenon
<1> QED  BY <1>4, <1>5

-----------------------------------------------------------------------------
\* What the printer may be given.
Marks == {"cr", "lf", "other", "tof"}

\* What the i-th character of a file looks like on paper.
Piece(t, p, i) ==
  IF (IF i = 1 THEN p = 1 ELSE t[i - 1] = "cr") /\ t[i] # "lf"
  THEN <<"lf", t[i]>> ELSE <<t[i]>>
Pieces(t, p) == [i \in DOMAIN t |-> Piece(t, p, i)]
RenderOf(t, p) == FlattenSeq(Pieces(t, p))

\* Rendered is what the text read so far should look like, ZC71C as it was before.
LEMMA RenderedIs == Rendered = RenderOf(text, pending)
  BY DEF Rendered, RenderOf, Pieces, Piece

\* Of nothing read, nothing is printed.
LEMMA RenderNone ==
  ASSUME NEW p
  PROVE  RenderOf(<<>>, p) = <<>>
<1>1. Pieces(<<>>, p) = <<>>
  BY DEF Pieces
<1> QED  BY <1>1, FlattenEmpty DEF RenderOf

\* A character comes with a line feed or without.
LEMMA PieceMarks ==
  ASSUME NEW t \in Seq(Chars), NEW p, NEW i \in 1 .. Len(t)
  PROVE  Piece(t, p, i) \in Seq(Marks)
<1>1. t[i] \in Chars
  OBVIOUS
<1>2. t[i] \in Marks /\ "lf" \in Marks
  BY <1>1, SpoolerAssumption DEF Marks
<1> QED  BY <1>2 DEF Piece

\* One piece for each character.
LEMMA PiecesLength ==
  ASSUME NEW t \in Seq(Chars), NEW p
  PROVE  /\ Len(Pieces(t, p)) = Len(t)
         /\ \A i \in 1 .. Len(t) : Pieces(t, p)[i] = Piece(t, p, i)
         /\ Len(t) = 0 => Pieces(t, p) = <<>>
<1>1. DOMAIN t = 1 .. Len(t) /\ Len(t) \in Nat
  OBVIOUS
<1>2. Pieces(t, p) = [i \in 1 .. Len(t) |-> Piece(t, p, i)]
  BY <1>1 DEF Pieces
<1>3. \A i \in 1 .. Len(t) : Piece(t, p, i) \in Seq(Marks)
  BY PieceMarks
<1>4. Pieces(t, p) \in Seq(Seq(Marks))
  BY <1>1, <1>2, <1>3
<1> QED  BY <1>1, <1>2, <1>4

\* A character more adds its piece at the end, and changes none before it.
LEMMA RenderAppend ==
  ASSUME NEW t \in Seq(Chars), NEW p, NEW ch \in Chars
  PROVE  RenderOf(Append(t, ch), p) = RenderOf(t, p) \o Piece(Append(t, ch), p, Len(t) + 1)
<1>1. PICK u \in Seq(Chars) : u = Append(t, ch)
  <2>1. Append(t, ch) \in Seq(Chars)
    OBVIOUS
  <2> QED  BY <2>1, Zenon
<1>2. Len(t) \in Nat /\ Len(u) = Len(t) + 1 /\ \A i \in 1 .. Len(t) : u[i] = t[i]
  BY <1>1
<1>3. PICK a : a = Pieces(t, p)
  OBVIOUS
<1>4. PICK b : b = Pieces(u, p)
  OBVIOUS
<1>5. Len(a) = Len(t) /\ (\A i \in 1 .. Len(t) : a[i] = Piece(t, p, i)) /\ (Len(t) = 0 => a = <<>>)
  BY <1>3, PiecesLength
<1>6. Len(b) = Len(u) /\ \A i \in 1 .. Len(u) : b[i] = Piece(u, p, i)
  BY <1>4, PiecesLength
<1>7. ASSUME NEW i \in 1 .. Len(t)
      PROVE  b[i] = a[i]
  <2>1. u[i] = t[i] /\ (i # 1 => u[i - 1] = t[i - 1]) /\ i \in 1 .. Len(u)
    BY <1>2
  <2>2. Piece(u, p, i) = Piece(t, p, i)
    BY <2>1 DEF Piece
  <2> QED  BY <1>5, <1>6, <2>1, <2>2
<1>8. Len(u) \in 1 .. Len(u)
  BY <1>2
<1>9. b[Len(b)] = Piece(u, p, Len(t) + 1) /\ b[Len(b)] \in Seq(Marks)
  BY <1>2, <1>6, <1>8, PieceMarks
<1>10. Len(a) \in Nat /\ Len(b) = Len(a) + 1 /\ (Len(a) = 0 => a = <<>>)
  BY <1>2, <1>5, <1>6
<1>11. \A i \in 1 .. Len(a) : b[i] = a[i]
  BY <1>5, <1>7
<1>12. FlattenSeq(b) = FlattenSeq(a) \o b[Len(b)]
  BY <1>9, <1>10, <1>11, FlattenAppend
<1> QED  BY <1>1, <1>3, <1>4, <1>9, <1>12, Zenon DEF RenderOf

\* A character goes from the head of what is to print to the end of the paper.
LEMMA PrintOne ==
  ASSUME NEW S, NEW p \in Seq(S), NEW q \in Seq(S), q # <<>>
  PROVE  Append(p, Head(q)) \o Tail(q) = p \o q
<1>1. Head(q) \in S /\ Tail(q) \in Seq(S)
  BY HeadTailProperties
<1>2. PICK h \in S : h = Head(q)
  BY <1>1
<1>3. PICK r \in Seq(S) : r = Tail(q)
  BY <1>1
<1>4. q = <<h>> \o r
  BY <1>2, <1>3, HeadTailProperties
<1>5. Append(p, h) = p \o <<h>> /\ <<h>> \in Seq(S)
  OBVIOUS
<1>6. (p \o <<h>>) \o r = p \o (<<h>> \o r)
  BY <1>5, ConcatAssociative
<1> QED  BY <1>2, <1>3, <1>4, <1>5, <1>6, Zenon

\* A carriage return waits for its line feed: the last character of the copy,
\* or of the copy before.
Returned(t, p) == IF t = <<>> THEN p = 1 ELSE t[Len(t)] = "cr"

PaperTypes ==
  /\ ZC71C \in {0, 1} /\ text \in Seq(Chars) /\ paper \in Seq(Marks)
  /\ step # "out" => todo = <<>>
  /\ step \in Printing => (ZC71C = 1 <=> Returned(text, pending))

\* The form feed is on its way to the printer: nothing more is read.
Closing == todo[Len(todo)] = "tof"

OnPaper ==
  /\ step \in {"suspended", "read", "result"} => paper = RenderOf(text, pending)
  /\ step = "out" /\ ~Closing => paper \o todo = RenderOf(text, pending)
  /\ step = "out" /\ Closing => paper \o todo = RenderOf(text, pending) \o Trailer
  /\ step = "copies" => paper = RenderOf(text, pending) \o Trailer

PaperInv == PaperTypes /\ OnPaper

\* A step that neither reads nor prints.
LEMMA PaperAside ==
  ASSUME PaperInv, UNCHANGED <<ZC71C, text, paper, pending, todo>>,
         \/ step' = step
         \/ step # "out" /\ step' \notin Printing
         \/ step \in {"suspended", "read"} /\ step' \in {"suspended", "read", "result"}
  PROVE  PaperInv'
<1>1. PaperTypes'
  BY DEF PaperInv, PaperTypes, Returned, Printing
<1>2. (Closing' <=> Closing)
  BY DEF Closing
<1>3. OnPaper'
  BY <1>2, Zenon DEF PaperInv, OnPaper, Printing
<1> QED  BY <1>1, <1>3 DEF PaperInv

\* The characters on their way to the printer.
LEMMA SheetMarks ==
  ASSUME NEW q \in Sheets
  PROVE  /\ q \in Seq(Marks) /\ q # <<>> /\ Tail(q) \in Seq(Marks)
         /\ Head(q) \in Marks
         /\ Tail(q) # <<>> => Tail(q)[Len(Tail(q))] = q[Len(q)]
         /\ Tail(q) = <<>> => Head(q) = q[Len(q)]
<1>1. \A ch \in Chars : ch \in Marks
  BY SpoolerAssumption DEF Marks
<1>2. q \in Seq(Marks) /\ q # <<>>
  <2>1. CASE q \in {<<"cr", "lf", "tof">>, <<"lf", "tof">>, <<"tof">>}
    <3>1. "cr" \in Marks /\ "lf" \in Marks /\ "tof" \in Marks
      BY DEF Marks
    <3>2. CASE q = <<"cr", "lf", "tof">>
      BY <3>1, <3>2
    <3>3. CASE q = <<"lf", "tof">>
      BY <3>1, <3>3
    <3>4. CASE q = <<"tof">>
      BY <3>1, <3>4
    <3> QED  BY <2>1, <3>2, <3>3, <3>4
  <2>2. ASSUME NEW ch \in Chars, q = <<ch>>
        PROVE  q \in Seq(Marks) /\ q # <<>>
    BY <1>1, <2>2
  <2>3. ASSUME NEW ch \in Chars, q = <<"lf", ch>>
        PROVE  q \in Seq(Marks) /\ q # <<>>
    BY <1>1, <2>3 DEF Marks
  <2> QED  BY <2>1, <2>2, <2>3 DEF Sheets
<1>3. Head(q) \in Marks /\ Tail(q) \in Seq(Marks)
  BY <1>2, HeadTailProperties
<1>4. PICK r \in Seq(Marks) : r = Tail(q)
  BY <1>3
<1>5. Len(r) = Len(q) - 1 /\ \A i \in 1 .. Len(r) : r[i] = q[i + 1]
  BY <1>2, <1>4, HeadTailProperties
<1>6. Head(q) = q[1] /\ Len(q) \in Nat /\ Len(r) \in Nat /\ (r = <<>> <=> Len(r) = 0)
  BY <1>2
<1>7. r # <<>> => r[Len(r)] = q[Len(q)]
  BY <1>5, <1>6
<1>8. r = <<>> => Head(q) = q[Len(q)]
  BY <1>5, <1>6
<1> QED  BY <1>2, <1>3, <1>4, <1>7, <1>8, Zenon

\* The current entry's file is opened: nothing read, nothing printed.
LEMMA CountKeepsPaper ==
  ASSUME PaperInv, Count
  PROVE  PaperInv'
<1>1. CASE ZC71B = 0
  BY <1>1, PaperAside DEF Count, Handler, flags, Printing
<1>2. CASE ZC71B # 0
  <2>1. /\ step = "count" /\ step' = "suspended" /\ text' = <<>> /\ paper' = <<>>
        /\ pending' = ZC71C /\ ZC71C' = ZC71C /\ todo' = todo
    BY <1>2 DEF Count, Handler, flags
  <2>2. PaperTypes'
    BY <2>1 DEF PaperInv, PaperTypes, Returned
  <2>3. OnPaper'
    BY <2>1, RenderNone DEF OnPaper
  <2> QED  BY <2>2, <2>3 DEF PaperInv
<1> QED  BY <1>1, <1>2

\* A killed print is closed, or the next character asked for.
LEMMA ReadKeepsPaper ==
  ASSUME PaperInv, Read
  PROVE  PaperInv'
<1>1. step = "read" /\ UNCHANGED <<ZC71C, text, paper, pending>>
  BY DEF Read, Handler, flags, history
<1>2. CASE step' = "result" /\ todo' = todo
  BY <1>1, <1>2, PaperAside
<1>3. CASE step' = "out" /\ todo' = Trailer
  <2>1. PaperTypes'
    BY <1>1, <1>3 DEF PaperInv, PaperTypes, Returned, Printing
  <2>2. Closing'
    BY <1>3 DEF Closing, Trailer
  <2>3. paper = RenderOf(text, pending)
    BY <1>1 DEF PaperInv, OnPaper
  <2>4. OnPaper'
    BY <1>1, <1>3, <2>2, <2>3, Zenon DEF OnPaper
  <2> QED  BY <2>1, <2>4 DEF PaperInv
<1> QED  BY <1>2, <1>3 DEF Read

\* A character is read: it comes with the line feed the file left out.
LEMMA ResultKeepsPaper ==
  ASSUME PaperInv, Result
  PROVE  PaperInv'
<1>1. step = "result" /\ step' = "out" /\ UNCHANGED <<paper, pending>>
  BY DEF Result, Handler
<1>2. paper = RenderOf(text, pending) /\ text \in Seq(Chars)
      /\ (ZC71C = 1 <=> Returned(text, pending)) /\ PaperTypes
  BY <1>1 DEF PaperInv, OnPaper, PaperTypes, Printing
<1>3. CASE todo' = Trailer /\ UNCHANGED <<ZC71C, text>>
  <2>1. PaperTypes'
    BY <1>1, <1>2, <1>3 DEF PaperTypes, Returned, Printing
  <2>2. Closing'
    BY <1>3 DEF Closing, Trailer
  <2>4. OnPaper'
    BY <1>1, <1>2, <1>3, <2>2, Zenon DEF OnPaper
  <2> QED  BY <2>1, <2>4 DEF PaperInv
<1>4. ASSUME NEW ch \in Chars, todo' = WithLineFeed(ch), text' = Append(text, ch),
             ZC71C' = IF ch = "cr" THEN 1 ELSE 0
      PROVE  PaperInv'
  <2>1. PICK t \in Seq(Chars) : t = text
    BY <1>2
  <2>2. PICK u \in Seq(Chars) : u = Append(t, ch)
    <3>1. Append(t, ch) \in Seq(Chars)
      OBVIOUS
    <3> QED  BY <3>1, Zenon
  <2>3. /\ Len(t) \in Nat /\ Len(u) = Len(t) + 1 /\ u[Len(t) + 1] = ch /\ u # <<>>
        /\ t = <<>> <=> Len(t) = 0
        /\ Len(t) # 0 => u[Len(t)] = t[Len(t)]
    BY <2>2
  <2>4. text' = u
    BY <1>4, <2>1, <2>2
  <2>5. PaperTypes'
    <3>1. ZC71C' = 1 <=> Returned(u, pending)
      BY <1>4, <2>3 DEF Returned
    <3>2. ZC71C' \in {0, 1}
      BY <1>4
    <3> QED  BY <1>1, <1>2, <2>4, <3>1, <3>2 DEF PaperTypes
  <2>6. WithLineFeed(ch) = Piece(u, pending, Len(t) + 1)
    <3>1. ZC71C = 1 <=> (IF Len(t) + 1 = 1 THEN pending = 1 ELSE u[Len(t) + 1 - 1] = "cr")
      <4>1. CASE Len(t) = 0
        BY <1>2, <2>1, <2>3, <4>1 DEF Returned
      <4>2. CASE Len(t) # 0
        <5>1. Len(t) + 1 - 1 = Len(t) /\ Len(t) + 1 # 1
          BY <2>3, <4>2
        <5> QED  BY <1>2, <2>1, <2>3, <4>2, <5>1 DEF Returned
      <4> QED  BY <4>1, <4>2
    <3> QED  BY <2>3, <3>1 DEF WithLineFeed, Piece
  <2>7. RenderOf(u, pending) = RenderOf(t, pending) \o Piece(u, pending, Len(t) + 1)
    BY <2>2, RenderAppend, Zenon
  <2>8. ~Closing'
    <3>1. ch # "tof"
      BY SpoolerAssumption
    <3>2. todo' = <<"lf", ch>> \/ todo' = <<ch>>
      BY <1>4 DEF WithLineFeed
    <3>3. PICK q : q = todo'
      OBVIOUS
    <3>4. q[Len(q)] = ch
      <4>1. CASE q = <<"lf", ch>>
        BY <4>1
      <4>2. CASE q = <<ch>>
        BY <4>2
      <4> QED  BY <3>2, <3>3, <4>1, <4>2
    <3> QED  BY <3>1, <3>3, <3>4 DEF Closing
  <2>9. paper' \o todo' = RenderOf(text, pending)'
    BY <1>1, <1>2, <1>4, <2>1, <2>4, <2>6, <2>7, Zenon
  <2>10. OnPaper'
    BY <1>1, <2>8, <2>9, Zenon DEF OnPaper
  <2> QED  BY <2>5, <2>10 DEF PaperInv
<1> QED  BY <1>3, <1>4 DEF Result

\* The printer takes a character.
LEMMA OutKeepsPaper ==
  ASSUME PaperInv, QueueInv, Out
  PROVE  PaperInv'
<1>1. /\ step = "out" /\ todo' = Tail(todo) /\ paper' = Append(paper, Head(todo))
      /\ UNCHANGED <<ZC71C, text, pending>>
      /\ step' = IF Tail(todo) # <<>> THEN "out"
                 ELSE IF Head(todo) = "tof" THEN "copies" ELSE "read"
  BY DEF Out, Handler, flags
<1>2. todo \in Sheets /\ paper \in Seq(Marks) /\ PaperTypes /\ OnPaper
  BY <1>1 DEF PaperInv, QueueInv, Current, PaperTypes
<1>3. /\ todo \in Seq(Marks) /\ todo # <<>> /\ Tail(todo) \in Seq(Marks)
      /\ Head(todo) \in Marks
      /\ Tail(todo) # <<>> => Tail(todo)[Len(Tail(todo))] = todo[Len(todo)]
      /\ Tail(todo) = <<>> => Head(todo) = todo[Len(todo)]
  BY <1>2, SheetMarks
<1>4. paper' \in Seq(Marks)
  BY <1>1, <1>2, <1>3
<1>5. paper' \o todo' = paper \o todo
  BY <1>1, <1>2, <1>3, PrintOne
<1>6. PaperTypes'
  BY <1>1, <1>2, <1>4 DEF PaperTypes, Returned, Printing
<1>7. RenderOf(text, pending)' = RenderOf(text, pending)
  BY <1>1
<1>8. CASE Tail(todo) # <<>>
  <2>1. step' = "out" /\ (Closing' <=> Closing)
    BY <1>1, <1>3, <1>8 DEF Closing
  <2>2. OnPaper'
    BY <1>1, <1>2, <1>5, <1>7, <2>1, Zenon DEF OnPaper
  <2> QED  BY <1>6, <2>2 DEF PaperInv
<1>9. CASE Tail(todo) = <<>>
  <2>1. paper' = paper \o todo
    <3>1. paper' \o todo' = paper'
      BY <1>1, <1>4, <1>9, ConcatEmptySeq
    <3> QED  BY <1>5, <3>1, Zenon
  <2>2. CASE Head(todo) = "tof"
    <3>1. step' = "copies" /\ Closing
      BY <1>1, <1>3, <1>9, <2>2 DEF Closing
    <3>2. OnPaper'
      BY <1>1, <1>2, <1>7, <2>1, <3>1, Zenon DEF OnPaper
    <3> QED  BY <1>6, <3>2 DEF PaperInv
  <2>3. CASE Head(todo) # "tof"
    <3>1. step' = "read" /\ ~Closing
      BY <1>1, <1>3, <1>9, <2>3 DEF Closing
    <3>2. OnPaper'
      BY <1>1, <1>2, <1>7, <2>1, <3>1, Zenon DEF OnPaper
    <3> QED  BY <1>6, <3>2 DEF PaperInv
  <2> QED  BY <2>2, <2>3
<1> QED  BY <1>8, <1>9

\* The copy is over.
LEMMA CopiesKeepsPaper ==
  ASSUME PaperInv, Copies
  PROVE  PaperInv'
<1>1. /\ step = "copies" /\ step' \in {"queue", "less"} /\ text' = <<>> /\ paper' = <<>>
      /\ ZC71C' = ZC71C /\ todo' = todo
  BY DEF Copies, Handler, NextCopy
<1>2. PaperTypes'
  BY <1>1 DEF PaperInv, PaperTypes, Printing
<1>3. OnPaper'
  BY <1>1 DEF OnPaper
<1> QED  BY <1>2, <1>3 DEF PaperInv

\* The handler's own step.
LEMMA HandlerKeepsPaper ==
  ASSUME PaperInv, QueueInv, HandlerStep
  PROVE  PaperInv'
<1> USE DEF Handler, flags, history
<1>1. CASE Queue
  BY <1>1, PaperAside DEF Queue, Printing
<1>2. CASE Count
  BY <1>2, CountKeepsPaper
<1>3. CASE Suspended
  BY <1>3, PaperAside DEF Suspended
<1>4. CASE Read
  BY <1>4, ReadKeepsPaper
<1>5. CASE Result
  BY <1>5, ResultKeepsPaper
<1>6. CASE Wait
  BY <1>6, PaperAside DEF Wait, spoolVars
<1>7. CASE Out
  BY <1>7, OutKeepsPaper
<1>8. CASE Copies
  BY <1>8, CopiesKeepsPaper
<1>9. CASE Less
  BY <1>9, PaperAside DEF Less, Printing
<1>10. CASE Done \/ Enable \/ Exit
  BY <1>10, PaperAside DEF Done, Enable, Exit, Printing
<1> QED  BY <1>1, <1>2, <1>3, <1>4, <1>5, <1>6, <1>7, <1>8, <1>9, <1>10 DEF HandlerStep

\* The other programs leave the copy alone; the handler is started only when it
\* prints none.
LEMMA ForegroundKeepsPaper ==
  ASSUME PaperInv, HandlerPlace, ForegroundStep
  PROVE  PaperInv'
<1> USE DEF flags, history
<1>1. CASE Program
  BY <1>1, PaperAside DEF Program, spoolVars
<1>2. ASSUME NEW c \in 0 .. MaxCopies, Enqueue(c)
      PROVE  PaperInv'
  BY <1>2, PaperAside DEF Enqueue
<1>3. CASE StartPrinting
  <2>1. CASE UNCHANGED step
    BY <1>3, <2>1, PaperAside DEF StartPrinting
  <2>2. CASE PR1 = 0 /\ step' = "queue"
    <3>1. step # "out"
      BY <2>2 DEF HandlerPlace
    <3> QED  BY <1>3, <2>2, <3>1, PaperAside DEF StartPrinting, Printing
  <2> QED  BY <1>3, <2>1, <2>2 DEF StartPrinting
<1>4. CASE Kill \/ Suspend
  BY <1>4, PaperAside DEF Kill, Suspend
<1> QED  BY <1>1, <1>2, <1>3, <1>4 DEF ForegroundStep

\* The invariant of the paper is inductive.
LEMMA PaperInvNext == SpoolInv /\ QueueInv /\ PaperInv /\ [Next]_vars => PaperInv'
<1> SUFFICES ASSUME SpoolInv, QueueInv, PaperInv, [Next]_vars PROVE PaperInv'
  OBVIOUS
<1>1. CASE HandlerStep
  BY <1>1, HandlerKeepsPaper
<1>2. CASE ForegroundStep
  BY <1>2, ForegroundKeepsPaper DEF SpoolInv
<1>3. ASSUME NEW t \in Task, Fms(t)
      PROVE  PaperInv'
  BY <1>3, PaperAside DEF Fms, spoolVars, history, flags
<1>4. CASE Tick \/ Switch
  BY <1>4, PaperAside DEF Tick, Switch, spoolVars, history, flags
<1>5. CASE UNCHANGED vars
  BY <1>5, PaperAside DEF vars, spoolVars, history, flags
<1> QED  BY <1>1, <1>2, <1>3, <1>4, <1>5 DEF Next

\* No copy is printed at first.
LEMMA InitPaperInv == Init => PaperInv
<1> SUFFICES ASSUME Init PROVE PaperInv
  OBVIOUS
<1>1. step = "exit" /\ text = <<>> /\ paper = <<>> /\ todo = <<>> /\ ZC71C = 0
  BY DEF Init
<1> QED  BY <1>1 DEF PaperInv, PaperTypes, OnPaper, Printing

\* What is printed of a copy, with what is on its way to the printer, is the
\* file with a line feed after every carriage return that had none, also the
\* one a copy before left behind, and at its end the form feed (SPOOLER.ASM,
\* ZC79B to ZC7C7), for files of any length.
THEOREM PaperAsText == Spec => []PaperIsText
<1>1. PaperInv => PaperIsText
  <2> SUFFICES ASSUME PaperInv, step \in {"read", "out", "copies"}
               PROVE  \/ paper \o todo = Rendered
                      \/ paper \o todo = Rendered \o Trailer
    BY DEF PaperIsText
  <2>1. CASE step = "out"
    BY <2>1, RenderedIs, Zenon DEF PaperInv, OnPaper
  <2>2. CASE step # "out"
    <3>1. todo = <<>> /\ paper \in Seq(Marks)
      BY <2>2 DEF PaperInv, PaperTypes
    <3>2. paper \o todo = paper
      BY <3>1, ConcatEmptySeq
    <3>3. CASE step = "read"
      BY <3>2, <3>3, RenderedIs, Zenon DEF PaperInv, OnPaper
    <3>4. CASE step = "copies"
      BY <3>2, <3>4, RenderedIs, Zenon DEF PaperInv, OnPaper
    <3> QED  BY <2>2, <3>3, <3>4
  <2> QED  BY <2>1, <2>2
<1>2. Init => SpoolInv
  BY InitSpoolInv
<1> QED  BY <1>1, <1>2, InitQueueInv, InitPaperInv, SpoolInvNext, QueueInvNext, PaperInvNext, PTL
         DEF Spec
=============================================================================

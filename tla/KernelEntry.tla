---------------------------- MODULE KernelEntry -----------------------------
(***************************************************************************)
(* How threads get into the kernel and back to ring 3: the system call     *)
(* entry (syscall_entry.asm), the timer interrupt (interrupts.asm,         *)
(* irq.cpp, pit.cpp), the context switch (switch.asm and the end of        *)
(* ScheduleInternal), and exceptions delivered to a handler in ring 3.     *)
(* There is one processor, hence one of each register; the kernel has one  *)
(* scratch word, one pending handler and one stack pointer to load on      *)
(* entry; every thread has its own kernel stack.                           *)
(*                                                                         *)
(* Which thread is switched to is left open here (see Scheduler).  A fault *)
(* without a handler panics, and the model does not go on from there.      *)
(***************************************************************************)
EXTENDS Sequences, Integers

CONSTANTS
  Thread,      \* the user threads
  Space,       \* the address spaces
  ProcessOf,   \* the address space of each thread's process
  Place,       \* where a thread can be in ring 3
  NULL,        \* 0
  Raisers      \* the threads that set a handler, and raise exceptions

KernelEntryAssumption ==
  /\ ProcessOf \in [Thread -> Space]
  /\ NULL \notin Thread
  /\ Thread \cap Place = {}
  /\ Raisers \subseteq Thread

VARIABLES
  current,     \* s_current
  pc,          \* where each thread is
  user,        \* its user stack and instruction pointer, in ring 3
  on,          \* the owner of the kernel stack it is on, outside ring 3
  stack,       \* the kernel stacks
  iflag,       \* RFLAGS.IF
  inService,   \* the interrupt controller waits for the timer's EOI
  rsp0,        \* the owner of the stack at g_kernel_rsp0 and TSS.Rsp0
  scratch,     \* the owner of the user stack at s_user_rsp
  space,       \* CR3
  gs,          \* the thread whose TEB GS points to
  handler,     \* the threads with an ExceptionHandler
  pending,     \* g_pending_exception_va, by the thread that registered it
  due          \* history: what a thread's user context has to be

cpu == <<iflag, inService>>
switched == <<current, rsp0, space, gs>>
delivery == <<handler, pending>>
vars == <<switched, pc, user, on, stack, cpu, scratch, delivery, due>>

\* A context in ring 3.  A handler is named by the thread it belongs to.
Context == [sp : Thread, ip : Place \cup Thread]

Location ==
  {"user", "entry", "body", "exit", "interrupt", "tick", "iret",
   "raised", "yield", "resume", "entered", "start", "away"}

(***************************************************************************)
(* What is pushed on a kernel stack: the user context, by the system call  *)
(* entry or an interrupt; the place in the kernel, by an interrupt there;  *)
(* and the point to return to, by switch_context.                          *)
(***************************************************************************)
UserFrame(c) == [kind |-> "user", context |-> c]

KernelFrame(l) == [kind |-> "kernel", at |-> l]

SwitchFrame(l) == [kind |-> "switch", at |-> l]

Frame ==
  [kind : {"user"}, context : Context]
    \cup [kind : {"kernel", "switch"}, at : Location]

Top(s) == s[Len(s)]

Below(s) == SubSeq(s, 1, Len(s) - 1)

Is(l) == pc[current] = l

Go(l) == pc' = [pc EXCEPT ![current] = l]

\* From ring 3 the processor starts at the top of the stack it is told of.
OnKernelStack(f) ==
  /\ on' = [on EXCEPT ![current] = rsp0]
  /\ stack' = [stack EXCEPT ![rsp0] = f]

Push(f) == stack' = [stack EXCEPT ![on[current]] = Append(@, f)]

TopFrame == Top(stack[on[current]])

Discard == stack' = [stack EXCEPT ![on[current]] = Below(@)]

\* CreateUserThread prepares the stack of a thread that has not run yet.
NewStack(c) == <<UserFrame(c), SwitchFrame("entered")>>

Init ==
  \E first \in Thread, p \in Place :
    /\ current = first
    /\ pc = [t \in Thread |-> IF t = first THEN "user" ELSE "away"]
    /\ user = [t \in Thread |-> [sp |-> t, ip |-> p]]
    /\ on = [t \in Thread |-> t]
    /\ stack = [t \in Thread |-> IF t = first THEN <<>> ELSE NewStack(user[t])]
    /\ iflag = TRUE
    /\ inService = FALSE
    /\ rsp0 = first
    /\ scratch = first
    /\ space = ProcessOf[first]
    /\ gs = first
    /\ handler = {}
    /\ pending = NULL
    /\ due = user
-----------------------------------------------------------------------------
(***************************************************************************)
(* Ring 3.  The thread runs, or faults with a handler registered:          *)
(* DeliverUserException sends it there, once.                              *)
(***************************************************************************)
UserStep ==
  /\ Is("user")
  /\ \E p \in Place \ {user[current].ip} :
       /\ user' = [user EXCEPT ![current].ip = p]
       /\ due' = [due EXCEPT ![current] = user'[current]]
  /\ UNCHANGED <<switched, pc, on, stack, cpu, scratch, delivery>>

Fault ==
  /\ Is("user")
  /\ current \in handler
  /\ handler' = handler \ {current}
  /\ user' = [user EXCEPT ![current].ip = current]
  /\ due' = [due EXCEPT ![current].ip = current]
  /\ on' = [on EXCEPT ![current] = rsp0]
  /\ stack' = [stack EXCEPT ![rsp0] = <<>>]
  /\ UNCHANGED <<switched, pc, cpu, scratch, pending>>
-----------------------------------------------------------------------------
(***************************************************************************)
(* A system call.  SFMASK clears IF, so the scratch word belongs to one    *)
(* thread from the entry to the push.                                      *)
(***************************************************************************)
\* Mutant: SFMASK leaves IF on.
EnteredOpen == iflag' = iflag

Entered == iflag' = FALSE

Syscall ==
  /\ Is("user")
  /\ Go("entry")
  /\ scratch' = user[current].sp
  /\ OnKernelStack(<<>>)
  /\ Entered
  /\ UNCHANGED <<switched, user, inService, delivery, due>>

PushUser ==
  /\ Is("entry")
  /\ Go("body")
  /\ Push(UserFrame([user[current] EXCEPT !.sp = scratch]))
  /\ iflag' = TRUE
  /\ UNCHANGED <<switched, user, on, inService, scratch, delivery, due>>

\* KiSystemCall: NtSetExceptionHandler and NtRaiseException.
SetHandler ==
  /\ Is("body")
  /\ current \in Raisers
  /\ handler' \in {handler \cup {current}, handler \ {current}}
  /\ UNCHANGED <<switched, pc, user, on, stack, cpu, scratch, pending, due>>

RaiseException ==
  /\ Is("body")
  /\ current \in handler \cap Raisers
  /\ pending' = current
  /\ due' = [due EXCEPT ![current].ip = current]
  /\ Go("raised")
  /\ UNCHANGED <<switched, user, on, stack, cpu, scratch, handler>>

\* cli and the three pops.
PopUser ==
  /\ Is("body") \/ Is("raised")
  /\ Go("exit")
  /\ iflag' = FALSE
  /\ user' = [user EXCEPT ![current] = TopFrame.context]
  /\ Discard
  /\ UNCHANGED <<switched, on, inService, scratch, delivery, due>>

\* A pending handler replaces the instruction pointer to return to.
Sysret ==
  /\ Is("exit")
  /\ Go("user")
  /\ user' = IF pending = NULL THEN user
             ELSE [user EXCEPT ![current].ip = pending]
  /\ pending' = NULL
  /\ iflag' = TRUE
  /\ UNCHANGED <<switched, on, stack, inService, scratch, handler, due>>
-----------------------------------------------------------------------------
(***************************************************************************)
(* The timer interrupt.  The controller raises no second one before the    *)
(* EOI, which IrqDispatch sends before it calls the handler.               *)
(***************************************************************************)
\* Mutant: the gates are trap gates, which leave IF on.
TrapGate == iflag' = iflag

\* The gates are interrupt gates, which clear IF.
Gate == iflag' = FALSE

Interrupt ==
  /\ iflag
  /\ ~inService
  /\ Go("interrupt")
  /\ Gate
  /\ inService' = TRUE
  /\ IF Is("user") THEN OnKernelStack(<<UserFrame(user[current])>>)
     ELSE Push(KernelFrame(pc[current])) /\ UNCHANGED on
  /\ UNCHANGED <<switched, user, scratch, delivery, due>>

\* Mutant: the EOI does not come before the handler, which may not return.
EoiNot == inService' = TRUE

Eoi == inService' = FALSE

Dispatch ==
  /\ Is("interrupt")
  /\ Go("tick")
  /\ Eoi
  /\ UNCHANGED <<switched, user, on, stack, iflag, scratch, delivery, due>>

\* iretq: from the interrupt, or for the first time to ring 3.
Iret ==
  /\ Is("iret") \/ Is("start")
  /\ iflag' = TRUE
  /\ Discard
  /\ IF TopFrame.kind = "user"
     THEN Go("user") /\ user' = [user EXCEPT ![current] = TopFrame.context]
     ELSE Go(TopFrame.at) /\ UNCHANGED user
  /\ UNCHANGED <<switched, on, inService, scratch, delivery, due>>
-----------------------------------------------------------------------------
(***************************************************************************)
(* Switching: a tick that ends the quantum, or a system call that gives    *)
(* the processor up.  The old thread's place stays on its kernel stack.    *)
(***************************************************************************)
Yield ==
  /\ Is("body")
  /\ Go("yield")
  /\ iflag' = FALSE
  /\ UNCHANGED <<switched, user, on, stack, inService, scratch, delivery, due>>

\* Where a thread goes on after ScheduleInternal.
Returned(l) == IF l = "tick" THEN "iret" ELSE IF l = "yield" THEN "resume" ELSE l

\* ScheduleInternal finds no other thread, or Tick does not call it.
Stay ==
  /\ Is("tick") \/ Is("yield")
  /\ Go(Returned(pc[current]))
  /\ UNCHANGED <<switched, user, on, stack, cpu, scratch, delivery, due>>

\* Mutant: the stack to load stays that of the thread switched away.
SetRsp0Not(next) == rsp0' = rsp0

\* SetTSSRsp0, the address space and GS of the thread switched to.
SetRsp0(next) == rsp0' = next

SetSpace(next) == space' = ProcessOf[next]

SetGs(next) == gs' = next

SwitchTo(next) ==
  /\ Is("tick") \/ Is("yield")
  /\ next # current
  /\ pc[next] = "away"
  /\ current' = next
  /\ SetSpace(next)
  /\ SetRsp0(next)
  /\ SetGs(next)
  /\ pc' = [pc EXCEPT ![current] = "away",
                      ![next] = Returned(Top(stack[on[next]]).at)]
  /\ stack' = [stack EXCEPT ![on[current]] = Append(@, SwitchFrame(pc[current])),
                            ![on[next]] = Below(@)]
  /\ UNCHANGED <<user, on, cpu, scratch, delivery, due>>

Switch == \E next \in Thread : SwitchTo(next)

\* Schedule() returns, and enables interrupts.
Resume ==
  /\ Is("resume")
  /\ Go("body")
  /\ iflag' = TRUE
  /\ UNCHANGED <<switched, user, on, stack, inService, scratch, delivery, due>>

\* user_thread_entry: sti, then iretq.
UserThreadEntry ==
  /\ Is("entered")
  /\ Go("start")
  /\ iflag' = TRUE
  /\ UNCHANGED <<switched, user, on, stack, inService, scratch, delivery, due>>
-----------------------------------------------------------------------------
Kernel ==
  \/ PushUser
  \/ PopUser
  \/ Sysret
  \/ Dispatch
  \/ Iret
  \/ Stay
  \/ Switch
  \/ Resume
  \/ UserThreadEntry

Next ==
  \/ Kernel
  \/ UserStep
  \/ Fault
  \/ Syscall
  \/ SetHandler
  \/ RaiseException
  \/ Yield
  \/ Interrupt

(***************************************************************************)
(* The processor goes on inside the kernel, and a timer interrupt that     *)
(* waits is taken when interrupts are next enabled: the controller keeps   *)
(* the request, however short the time is for which they are.              *)
(***************************************************************************)
Spec == Init /\ [][Next]_vars

FairSpec == Spec /\ WF_vars(Kernel) /\ SF_vars(Interrupt)
-----------------------------------------------------------------------------
\* Every variable holds a value of its kind, and only the current thread is
\* not switched away; interrupts do not nest on a kernel stack (interrupt gates
\* and the EOI: a system call, a tick in it and the switch there are three).
TypeOK ==
  /\ current \in Thread
  /\ pc \in [Thread -> Location]
  /\ \A t \in Thread \ {current} : pc[t] = "away"
  /\ user \in [Thread -> Context]
  /\ on \in [Thread -> Thread]
  /\ \A t \in Thread : Len(stack[t]) <= 3 /\ \A i \in DOMAIN stack[t] : stack[t][i] \in Frame
  /\ iflag \in BOOLEAN
  /\ inService \in BOOLEAN
  /\ rsp0 \in Thread
  /\ scratch \in Thread
  /\ space \in Space
  /\ gs \in Thread
  /\ handler \subseteq Thread
  /\ pending \in Thread \cup {NULL}
  /\ due \in [Thread -> Context]

\* Every thread is in the kernel on its own kernel stack, and the stack that
\* the next entry from ring 3 starts over holds nothing anyone returns to
\* (SetTSSRsp0 in ScheduleInternal, switch_context, syscall_entry).
KernelStackPrivate ==
  /\ \A t \in Thread : pc[t] # "user" => on[t] = t
  /\ Is("user") => stack[rsp0] = <<>>

\* A thread in ring 3 finds its own user stack, the instruction it left at or
\* its own handler, and the address space and TEB of its own, whatever ran
\* meanwhile (the scratch word, CR3 and GS are shared).  Only a call of
\* NtRaiseException can send it, or one that it hits, elsewhere.
ResumesWhereItLeft ==
  Is("user") =>
    /\ user[current].sp = due[current].sp
    /\ \/ user[current].ip = due[current].ip
       \/ {due[current].ip, user[current].ip} \cap Raisers # {}
    /\ space = ProcessOf[current]
    /\ gs = current

\* No thread is sent to the handler that another thread registered
\* (syscall_entry.asm: the pending handler is safe, with one processor).
DeliveredToRaiser ==
  \A t \in Thread : user[t].ip \in Thread => user[t].ip = t

\* Ticks never stop coming, whatever thread the handler of one switches to
\* and however long that thread stays out of the kernel (IrqDispatch).
TicksKeepComing == []<>Is("tick")
=============================================================================

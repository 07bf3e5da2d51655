----------------------------- MODULE SelfTests -----------------------------
(* The tests KernelMain runs at every boot, before the session.  Each one   *)
(* clears some flags, loads a program, starts its thread, and calls         *)
(* Sched::Schedule until a flag is set; the flags are set by system calls,  *)
(* most of them by the first letters of a text that NT_WRITE_FILE gets from *)
(* any program.  A program is what it still has to do: the texts it writes, *)
(* the calls that set flags, and, in the shell, the commands it reads from  *)
(* the one queue that SetCommands fills.  Loading a program changes no flag *)
(* and no queue, so a test begins in one step.                              *)
EXTENDS Naturals, Sequences

CONSTANTS
    OnDisk,   \* the programs the boot loader found on the disk
    Slow      \* the programs that may still run when the next test begins

VARIABLES
    at,       \* the test the Main thread is in
    started,  \* its program runs, Main waits for the flag
    raised,   \* the flags that are set
    s_cmds,   \* the command queue
    s_cmd_idx,
    todo,     \* what each program has yet to do
    did,      \* what each program has done (not in the code)
    saved,    \* test.txt holds the line of M21
    panic

vars == <<at, started, raised, s_cmds, s_cmd_idx, todo, did, saved, panic>>

----------------------------------------------------------------------------
Test(prog, clears, waits) ==
    [prog |-> prog, clears |-> clears, waits |-> waits, cmds |-> <<>>,
     pauses |-> FALSE, asserts |-> {}, skips |-> FALSE]

With(t, cmds) == [t EXCEPT !.cmds = cmds]

TestsM5M6 == << Test("threads", {}, "done"), Test("usertest", {}, "call") >>

TestsM7M8 == << Test("hello", {}, "pe"), Test("hello2", {}, "write") >>

TestsM9M10 ==
    << With(Test("shell", {}, "Mic"), <<"ver", "exit">>),
       [Test("hello3", {"write"}, "write") EXCEPT !.skips = TRUE] >>

TestsM12 ==
    << [Test("pair", {}, "woken") EXCEPT !.pauses = TRUE],
       [Test("hello5", {"wait", "write"}, "write") EXCEPT !.asserts = {"wait"}] >>

\* Mutant: M11 waits for the write flag again.
TestsM11ByWrite == << Test("hello4", {"write"}, "write") >> \o TestsM12

TestsM11M12 == << Test("hello4", {"write"}, "alloc") >> \o TestsM12

TestsM13M14 ==
    << Test("hello6", {"write", "THR"}, "THR"),
       Test("hello7", {"write", "Mem"}, "Mem") >>

TestsM15M16 ==
    << Test("hello8", {"write", "M15"}, "M15"),
       Test("hello9", {"write", "M16"}, "M16") >>

TestsM17M18 ==
    << Test("hello10", {"write", "M17"}, "M17"),
       With(Test("shell2", {"write", "M18"}, "M18"), <<"dir", "exec", "exit">>) >>

TestsM19M20 ==
    << With(Test("shell3", {"write", "Syst"}, "Syst"), <<"ps", "exec", "exit">>),
       With(Test("shell4", {"write", "M20"}, "M20"),
            <<"echo", "dump", "clear", "exit">>) >>

TestsM21M22 ==
    << With(Test("shell5", {"write", "M21"}, "M21"),
            <<"write", "cat", "dir", "exit">>),
       Test("consumer", {"write", "M22"}, "M22") >>

TestsPrograms ==
    << Test("sehtest", {"seh"}, "seh"), Test("wintest", {"write"}, "write"),
       Test("win32test", {"write"}, "write") >>

TestsDisk == << [Test("winapp", {"write"}, "write") EXCEPT !.skips = TRUE] >>

Tests == TestsM5M6 \o TestsM7M8 \o TestsM9M10 \o TestsM11M12 \o TestsM13M14
         \o TestsM15M16 \o TestsM17M18 \o TestsM19M20 \o TestsM21M22
         \o TestsPrograms \o TestsDisk

Session == Len(Tests) + 1

----------------------------------------------------------------------------
Shell == {"shell", "shell2", "shell3", "shell4", "shell5"}

Prog == {Tests[i].prog : i \in 1..Len(Tests)} \cup {"shell6"}

(* What a program does when it is alone.  A shell writes its prompt, reads  *)
(* a line and obeys it.                                                     *)
Script(p) ==
    CASE p \in Shell \cup {"shell6"} -> <<"text", "read">>
      [] p = "threads"   -> <<"done">>
      [] p = "usertest"  -> <<"call">>
      [] p = "hello"     -> <<"pe">>
      [] p = "hello4"    -> <<"alloc", "text">>
      [] p = "pair"      -> <<"woken">>
      [] p = "hello5"    -> <<"wait", "text">>
      [] p = "hello6"    -> <<"text", "text", "THR">>
      [] p = "hello7"    -> <<"Mic", "Mem">>
      [] p = "hello8"    -> <<"M15">>
      [] p = "hello9"    -> <<"M16">>
      [] p = "hello10"   -> <<"text", "text", "M17">>
      [] p = "consumer"  -> <<"M22">>
      [] p = "sehtest"   -> <<"seh">>
      [] p = "win32test" -> <<"text", "text">>
      [] OTHER           -> <<"text">>

Obey(cmd) ==
    (CASE cmd = "exit"  -> <<"M18">>
       [] cmd = "ver"   -> <<"Mic">>
       [] cmd = "ps"    -> <<"Syst">>
       [] cmd = "echo"  -> <<"M20">>
       [] cmd = "write" -> <<"save">>
       [] cmd = "cat"   -> <<"show">>
       [] cmd = "clear" -> << >>
       [] OTHER         -> <<"text">>)
    \o IF cmd = "exit" THEN << >> ELSE <<"text", "read">>

Call == {"done", "call", "pe", "alloc", "woken", "wait", "seh"}

\* A text sets the write flag, and the flag of its first letters.
NT_WRITE_FILE(o) ==
    CASE o \in Call   -> {o}
      [] o = "text"   -> {"write"}
      [] o = "save"   -> {}
      [] o = "show"   -> {"write"} \cup (IF saved THEN {"M21"} ELSE {})
      [] OTHER        -> {"write", o}

----------------------------------------------------------------------------
\* Mutant: the place in the queue is not set back.
SetCommandsOn(cmds) ==
    /\ s_cmds' = cmds
    /\ UNCHANGED s_cmd_idx

SetCommands(cmds) ==
    /\ s_cmds' = cmds
    /\ s_cmd_idx' = 1

AtKeyboard(p) == /\ todo[p] # <<>>
                 /\ Head(todo[p]) = "read"
                 /\ s_cmd_idx > Len(s_cmds)

Quiet(p) == todo[p] = <<>> \/ AtKeyboard(p)

Init == /\ at = 1 /\ started = FALSE /\ raised = {}
        /\ s_cmds = <<>> /\ s_cmd_idx = 1
        /\ todo = [p \in Prog |-> <<>>] /\ did = [p \in Prog |-> {}]
        /\ saved = FALSE /\ panic = FALSE

\* A test begins: flags, commands, the program and its thread.
BeginTest ==
    /\ ~started /\ ~panic /\ at < Session
    /\ \A p \in Prog \ Slow : Quiet(p)
    /\ LET t == Tests[at] IN
       /\ raised' = raised \ t.clears
       /\ IF t.cmds # <<>> THEN SetCommands(t.cmds)
                           ELSE UNCHANGED <<s_cmds, s_cmd_idx>>
       /\ IF t.prog \in {"hello3", "winapp", "consumer"} \ OnDisk
          THEN /\ panic' = ~t.skips
               /\ at' = IF t.skips THEN at + 1 ELSE at
               /\ UNCHANGED <<started, todo>>
          ELSE /\ started' = TRUE
               /\ todo' = [todo EXCEPT ![t.prog] = Script(t.prog)]
               /\ UNCHANGED <<at, panic>>
    /\ UNCHANGED <<did, saved>>

\* Main sees the flag.  The 300 ms of M12 are long enough for every program.
EndTest ==
    /\ started /\ ~panic /\ at < Session
    /\ LET t == Tests[at] IN
       /\ t.waits \in raised
       /\ t.pauses => \A p \in Prog : Quiet(p)
       /\ IF t.asserts \subseteq raised
          THEN at' = at + 1 /\ started' = FALSE /\ UNCHANGED panic
          ELSE panic' = TRUE /\ UNCHANGED <<at, started>>
    /\ UNCHANGED <<raised, s_cmds, s_cmd_idx, todo, did, saved>>

\* After the last test: the drain, taken to be long enough as well, then the
\* session, whose Userinit empties the queue and whose Explorer starts a shell.
Interactive ==
    /\ at = Session /\ ~started
    /\ \A p \in Prog : Quiet(p)
    /\ started' = TRUE
    /\ SetCommands(<<>>)
    /\ todo' = [todo EXCEPT !["shell6"] = Script("shell6")]
    /\ UNCHANGED <<at, raised, did, saved, panic>>

\* A program goes on: a call, a text, or a shell that takes the next command.
RunProgram(p) ==
    /\ todo[p] # <<>> /\ ~panic /\ ~AtKeyboard(p)
    /\ LET o == Head(todo[p]) IN
       IF o = "read"
       THEN /\ todo' = [todo EXCEPT ![p] = Obey(s_cmds[s_cmd_idx])]
            /\ s_cmd_idx' = s_cmd_idx + 1
            /\ UNCHANGED <<raised, did, saved>>
       ELSE /\ todo' = [todo EXCEPT ![p] = Tail(@)]
            /\ raised' = raised \cup NT_WRITE_FILE(o)
            /\ did' = [did EXCEPT ![p] = @ \cup NT_WRITE_FILE(o)]
            /\ saved' = (saved \/ o = "save")
            /\ UNCHANGED s_cmd_idx
    /\ UNCHANGED <<at, started, s_cmds, panic>>

KernelMain == BeginTest \/ EndTest \/ Interactive

Next == KernelMain \/ \E p \in Prog : RunProgram(p)

(* Main calls Schedule in its loop and the timer preempts: every runnable   *)
(* thread gets its turn.                                                    *)
Spec == /\ Init /\ [][Next]_vars
        /\ WF_vars(KernelMain)
        /\ \A p \in Prog : WF_vars(RunProgram(p))

----------------------------------------------------------------------------
(* A test past which the boot has gone was passed by its own program: no    *)
(* text of a program left over from an earlier test lets Main go on.  Those *)
(* that only wait for some text are left out; the comment of M11 tells why  *)
(* it waits for its own signal, which NT_ALLOC_VM gives.                    *)
AnyText == {"hello2", "hello3", "wintest", "win32test", "winapp"}

TestsSeen ==
    \A i \in 1..Len(Tests) :
        LET t == Tests[i]
            signal == IF t.prog = "hello4" THEN "alloc" ELSE t.waits IN
        (i < at /\ t.prog \notin AnyText) => signal \in did[t.prog]

(* The boot reaches the session: no test waits for ever, no assertion of a  *)
(* test stops the machine.                                                  *)
BootReachesSession == <>(at = Session /\ started)

(* "wait for every test process to exit before touching VGA"                *)
(* (kernel_main.cpp:1467): when the session begins, no test shell is left.  *)
TestShellsGone ==
    (at = Session /\ started) => \A p \in Shell : todo[p] = <<>>

(* Each test is passed by its own program, those that wait for the write    *)
(* flag too; it does not hold, see the README.                              *)
EveryTestSeen ==
    \A i \in 1..Len(Tests) :
        (i < at /\ (Tests[i].skips => Tests[i].prog \in OnDisk))
            => Tests[i].waits \in did[Tests[i].prog]
=============================================================================

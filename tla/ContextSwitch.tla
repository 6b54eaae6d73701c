---------------------------- MODULE ContextSwitch ----------------------------
(***************************************************************************)
(* The stacks of threads, word by word: the frame thread_setup_stack       *)
(* builds, src/kernel/arch/i386/thread_asm.S instruction by instruction,   *)
(* and isr_common of interrupts_asm.S, which may come between any two of   *)
(* these instructions and works on whatever stack ESP then points to.      *)
(*                                                                         *)
(* A thread may call thread_context_switch_asm again and again and be      *)
(* switched back to, which thread_reschedule allows for (it queues a       *)
(* thread that is still ready), though thread_main never comes back.       *)
(*                                                                         *)
(* Words, addresses of code and contents of registers are tuples headed by *)
(* what they are; <<"addr", o, i>> is the address of word i of o's stack.  *)
(***************************************************************************)
EXTENDS Integers, Sequences, FiniteSets

CONSTANTS
  Thread,
  Boot,        \* whose stack start_kernel runs on
  Words,       \* the size of a stack in words
  MaxLocals    \* the most words a C function keeps below its caller's

ASSUME StackAssumption ==
  /\ Boot \notin Thread
  /\ Words \in Nat /\ Words >= 32 + MaxLocals
  /\ MaxLocals \in Nat

VARIABLES
  mem,        \* owner -> the words of its stack, from the lowest address
  regs,       \* register -> word
  pc,         \* address of the next instruction
  stack_ptr,  \* struct thread -> the field stack_ptr
  current,    \* the thread the C code takes to be running
  kept,       \* history: thread -> what the caller of the switch relies on
  before      \* history: what the interrupted code relies on

vars == <<mem, regs, pc, stack_ptr, current, kept, before>>

Owner == Thread \union {Boot}
CalleeSaved == {"ebp", "ebx", "edi", "esi"}
Register == CalleeSaved \union {"eax", "ecx", "edx", "esp"}

Zero == <<"zero">>
Junk == <<"junk">>
Addr(o, i) == <<"addr", o, i>>

\* Code addresses: C code of a thread or of the boot, the start of thread_main, the
\* return from thread_context_switch_asm, instruction i of Code.
InC == <<"c">>
ThreadMain == <<"thread_main">>
Returned == <<"returned">>
Asm(i) == <<"asm", i>>

Push(r) == [op |-> "push", reg |-> r]
Pop(r) == [op |-> "pop", reg |-> r]
\* mov 4k(%esp), r
Load(k, r) == [op |-> "load", words |-> k, reg |-> r]
Op(o) == [op |-> o]

LoadFirst == <<Load(1, "esp"), Op("jmp thread_restore")>>

\* Variant: the stack pointer is saved before the registers are.
SwitchSavesEarly ==
  <<Load(2, "ecx"), Load(1, "eax"),
    Op("mov esp, (eax)"), Push("ebp"), Push("ebx"), Push("edi"), Push("esi"),
    Op("mov ecx, esp")>>

Switch ==
  <<Load(2, "ecx"), Load(1, "eax"),
    Push("ebp"), Push("ebx"), Push("edi"), Push("esi"),
    Op("mov esp, (eax)"), Op("mov ecx, esp")>>

\* Variant: two registers are restored in the order in which they were saved.
RestoreSwapped == <<Pop("edi"), Pop("esi"), Pop("ebx"), Pop("ebp"), Op("ret")>>

Restore == <<Pop("esi"), Pop("edi"), Pop("ebx"), Pop("ebp"), Op("ret")>>

\* Variant: the error code is left on the stack.
IsrLeavesErrorCode ==
  <<Op("push 0"), Op("push n"), Op("pushal"), Push("esp"), Op("call isr_main"),
    Op("add 4"), Op("popal"), Op("add 4"), Op("iret")>>

\* ISR_NO_ERROR and isr_common; add 4 and add 8 drop one and two words.
Isr ==
  <<Op("push 0"), Op("push n"), Op("pushal"), Push("esp"), Op("call isr_main"),
    Op("add 4"), Op("popal"), Op("add 8"), Op("iret")>>

Code == LoadFirst \o Switch \o Restore \o Isr

LoadFirstEntry == Asm(1)
SwitchEntry == Asm(Len(LoadFirst) + 1)
RestoreEntry == Asm(Len(LoadFirst \o Switch) + 1)
IsrStart == Len(LoadFirst \o Switch \o Restore) + 1

\* Interrupt gates keep interrupts disabled from the first instruction to iret.
InIsr == pc[1] = "asm" /\ pc[2] >= IsrStart

-----------------------------------------------------------------------------
Init ==
  /\ mem = [o \in Owner |-> [i \in 1 .. Words |-> Junk]]
  /\ regs = [r \in Register |-> IF r = "esp" THEN Addr(Boot, Words + 1) ELSE Junk]
  /\ pc = InC
  /\ stack_ptr = [t \in Thread |-> Junk]
  /\ current = Boot
  /\ kept = [t \in Thread |-> Junk]
  /\ before = Junk

Owns(o) == regs["esp"][2] = o
Top == regs["esp"][3]
Stack == mem[regs["esp"][2]]

EspAt(i) == Addr(regs["esp"][2], i)

\* The words ws pushed one after the other; r is what the registers become.
PushWords(ws, r) ==
  /\ mem' = [mem EXCEPT ![regs["esp"][2]] =
               [i \in 1 .. Words |->
                  IF i < Top /\ Top - i <= Len(ws) THEN ws[Top - i] ELSE @[i]]]
  /\ regs' = [r EXCEPT !["esp"] = EspAt(Top - Len(ws))]

\* k words leave the stack.  What is below the stack pointer is dead.
DropWords(k, r) ==
  /\ regs' = [r EXCEPT !["esp"] = EspAt(Top + k)]
  /\ mem' = [mem EXCEPT ![regs["esp"][2]] =
               [i \in 1 .. Words |-> IF i < Top + k THEN Junk ELSE @[i]]]

\* stack_ptr[-1], stack_ptr[-2], ... as thread_setup_stack sets them.
InitialFrame(t) ==
  <<<<"arg", t>>, <<"fn", t>>, Zero, ThreadMain, Zero, Zero, Zero, Zero>>

InitialStackPtr(t) == Addr(t, Words + 1 - 8)

\* thread_setup_stack, called by the code that creates t.
ThreadSetupStack(t) ==
  /\ pc = InC
  /\ stack_ptr[t] = Junk
  /\ mem' = [mem EXCEPT ![t] =
               [i \in 1 .. Words |->
                  IF Words + 1 - i <= 8 THEN InitialFrame(t)[Words + 1 - i] ELSE @[i]]]
  /\ stack_ptr' = [stack_ptr EXCEPT ![t] = InitialStackPtr(t)]
  /\ kept' = [kept EXCEPT ![t] =
                [from |-> ThreadMain, esp |-> Addr(t, Words + 1 - 3), base |-> Junk,
                 saved |-> [r \in CalleeSaved |-> Zero]]]
  /\ UNCHANGED <<regs, pc, current, before>>

\* thread_start_scheduler and thread_load_first: the call pushes the argument and
\* the return address.
ThreadLoadFirst(t) ==
  /\ pc = InC /\ current = Boot
  /\ stack_ptr[t] # Junk
  /\ PushWords(<<stack_ptr[t], InC>>, regs)
  /\ pc' = LoadFirstEntry
  /\ current' = t
  /\ UNCHANGED <<stack_ptr, kept, before>>

\* The running thread computes: its registers hold values of its own.
Compute ==
  /\ pc = InC /\ current # Boot
  /\ \E v \in {0, 1} :
       regs' = [r \in Register |->
                  IF r = "esp" THEN regs["esp"] ELSE <<"value", current, r, v>>]
  /\ UNCHANGED <<mem, pc, stack_ptr, current, kept, before>>

\* thread_reschedule and thread_context_switch: below k words of the C callers, the
\* call pushes both arguments and the return address.
ThreadContextSwitch(t, k) ==
  /\ pc = InC /\ current \in Thread \ {t}
  /\ stack_ptr[t] # Junk
  /\ PushWords([i \in 1 .. k |-> <<"local", current, i>>]
                 \o <<stack_ptr[t], <<"field", current>>, Returned>>, regs)
  /\ kept' = [kept EXCEPT ![current] =
                [from |-> Returned, esp |-> EspAt(Top - k - 2), base |-> regs["esp"],
                 saved |-> [r \in CalleeSaved |-> regs[r]]]]
  /\ pc' = SwitchEntry
  /\ current' = t
  /\ UNCHANGED <<stack_ptr, before>>

\* thread_main begins: it finds its arguments above the return address.
ThreadMainStarts ==
  /\ pc = ThreadMain
  /\ pc' = InC
  /\ UNCHANGED <<mem, regs, stack_ptr, current, kept, before>>

\* thread_context_switch returns to its callers, which drop what they had pushed.
SwitchReturns ==
  /\ pc = Returned
  /\ DropWords(kept[current].base[3] - Top, regs)
  /\ pc' = InC
  /\ UNCHANGED <<stack_ptr, current, kept, before>>

-----------------------------------------------------------------------------
\* The processor executes instruction i, whose op is o.
At(i, o) ==
  /\ pc = Asm(i)
  /\ Code[i].op = o
  /\ UNCHANGED <<current, kept>>

Falls(i) == pc' = Asm(i + 1)

PushalOrder == <<"eax", "ecx", "edx", "ebx", "esp", "ebp", "esi", "edi">>

Execute(i) ==
  /\ before' = before
  /\ \/ /\ At(i, "load")
        /\ regs' = [regs EXCEPT ![Code[i].reg] = Stack[Top + Code[i].words]]
        /\ Falls(i) /\ UNCHANGED <<mem, stack_ptr>>
     \/ /\ At(i, "jmp thread_restore")
        /\ pc' = RestoreEntry /\ UNCHANGED <<mem, regs, stack_ptr>>
     \/ /\ At(i, "push")
        /\ PushWords(<<regs[Code[i].reg]>>, regs)
        /\ Falls(i) /\ UNCHANGED stack_ptr
     \/ /\ At(i, "pop")
        /\ DropWords(1, [regs EXCEPT ![Code[i].reg] = Stack[Top]])
        /\ Falls(i) /\ UNCHANGED stack_ptr
     \/ /\ At(i, "mov esp, (eax)")
        /\ stack_ptr' = [stack_ptr EXCEPT ![regs["eax"][2]] = regs["esp"]]
        /\ Falls(i) /\ UNCHANGED <<mem, regs>>
     \/ /\ At(i, "mov ecx, esp")
        /\ regs' = [regs EXCEPT !["esp"] = regs["ecx"]]
        /\ Falls(i) /\ UNCHANGED <<mem, stack_ptr>>
     \/ /\ At(i, "ret")
        /\ pc' = Stack[Top]
        /\ DropWords(1, regs) /\ UNCHANGED stack_ptr

\* The instructions of isr_common.  isr_main uses the stack below and the registers
\* a C function need not keep; it touches no thread's state.
ExecuteIsr(i) ==
  /\ UNCHANGED stack_ptr
  /\ \/ (At(i, "push 0") \/ At(i, "push n")) /\ PushWords(<<Zero>>, regs) /\ Falls(i)
     \/ /\ At(i, "pushal")
        /\ PushWords([k \in 1 .. 8 |-> regs[PushalOrder[k]]], regs) /\ Falls(i)
     \/ /\ At(i, "push") /\ PushWords(<<regs[Code[i].reg]>>, regs) /\ Falls(i)
     \/ /\ At(i, "call isr_main")
        /\ mem' = [mem EXCEPT ![regs["esp"][2]] =
                     [w \in 1 .. Words |-> IF w < Top THEN Junk ELSE @[w]]]
        /\ regs' = [r \in Register |->
                      IF r \in {"eax", "ecx", "edx"} THEN Junk ELSE regs[r]]
        /\ Falls(i)
     \/ At(i, "add 4") /\ DropWords(1, regs) /\ Falls(i)
     \/ At(i, "add 8") /\ DropWords(2, regs) /\ Falls(i)
     \/ /\ At(i, "popal")
        /\ DropWords(8, [r \in Register |->
             IF r = "esp" THEN regs[r]
             ELSE Stack[Top + 8 - (CHOOSE k \in 1 .. 8 : PushalOrder[k] = r)]])
        /\ Falls(i)
     \/ At(i, "iret") /\ pc' = Stack[Top] /\ DropWords(3, regs)
  /\ before' = IF Code[i].op = "iret" THEN Junk ELSE before

\* The processor takes an interrupt: EFLAGS, CS and EIP go on the stack.
Interrupt ==
  /\ ~ InIsr
  /\ PushWords(<<<<"eflags">>, <<"cs">>, pc>>, regs)
  /\ pc' = Asm(IsrStart)
  /\ before' = [regs |-> regs, pc |-> pc, stack |-> Stack]
  /\ UNCHANGED <<stack_ptr, current, kept>>

Next ==
  \/ \E t \in Thread :
       \/ ThreadSetupStack(t) \/ ThreadLoadFirst(t)
       \/ \E k \in 0 .. MaxLocals : ThreadContextSwitch(t, k)
  \/ Compute \/ ThreadMainStarts \/ SwitchReturns
  \/ \E i \in 1 .. IsrStart - 1 : Execute(i)
  \/ \E i \in IsrStart .. Len(Code) : ExecuteIsr(i)
  \/ Interrupt

Spec == Init /\ [][Next]_vars

-----------------------------------------------------------------------------
Addresses(o) == {Addr(o, i) : i \in 1 .. Words + 1}

\* Every variable has its type; a thread's saved stack pointer points to its own
\* stack.
TypeOK ==
  /\ \A o \in Owner : DOMAIN mem[o] = 1 .. Words
  /\ DOMAIN regs = Register
  /\ \E o \in Owner : regs["esp"] \in Addresses(o)
  /\ pc \in {InC, ThreadMain, Returned} \union {Asm(i) : i \in 1 .. Len(Code)}
  /\ \A t \in Thread : stack_ptr[t] \in Addresses(t) \union {Junk}
  /\ current \in Owner

\* The words thread_restore will pop when it switches to t.
Frame(t) ==
  LET i == stack_ptr[t][3]
  IN  /\ mem[t][i] = kept[t].saved["esi"] /\ mem[t][i + 1] = kept[t].saved["edi"]
      /\ mem[t][i + 2] = kept[t].saved["ebx"] /\ mem[t][i + 3] = kept[t].saved["ebp"]
      /\ mem[t][i + 4] = kept[t].from
      /\ kept[t].esp = Addr(t, i + 5)

\* From the moment the processor has left a thread's stack, whatever interrupts come
\* and whichever threads run, its saved stack pointer leads to its registers and to
\* where it goes on.
SavedFramesIntact ==
  \A t \in Thread : stack_ptr[t] # Junk /\ t # current /\ ~ Owns(t) => Frame(t)

\* Stack pointers stay on their own stacks, and what they lead to stays intact.
StacksSound == TypeOK /\ SavedFramesIntact

\* A thread that comes back from thread_context_switch_asm finds the registers a C
\* function must keep, its stack pointer and its place as it left them.  A new one
\* enters thread_main the same way, on its own stack, with fn and arg where a call
\* would have put them.
ResumesAsItLeft ==
  pc \in {Returned, ThreadMain} =>
    /\ pc = kept[current].from /\ regs["esp"] = kept[current].esp
    /\ \A r \in CalleeSaved : regs[r] = kept[current].saved[r]

EntersWithItsArguments ==
  pc = ThreadMain =>
    /\ Owns(current)
    /\ SubSeq(Stack, Top, Words) = <<Zero, <<"fn", current>>, <<"arg", current>>>>

\* Every way out of thread_restore: back into a thread, or into a new one.
ThreadsGoOn == ResumesAsItLeft /\ EntersWithItsArguments

\* An interrupt between any two instructions, on any stack, goes unnoticed: at iret
\* all registers, the place and the live part of the stack are as they were.
InterruptGoesUnnoticed ==
  [][InIsr /\ pc' \notin {Asm(i) : i \in IsrStart .. Len(Code)} =>
       /\ pc' = before.pc /\ regs' = before.regs
       /\ Stack' = before.stack]_vars
=============================================================================

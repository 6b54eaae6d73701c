------------------------ MODULE ContextSwitchProofs ------------------------
(***************************************************************************)
(* What ContextSwitch promises of the stacks of threads, for any number of *)
(* threads, stacks of any size that StackAssumption allows and interrupts  *)
(* between any two instructions.                                           *)
(*                                                                         *)
(* The inductive invariant IInv speaks of the interrupted code: of its     *)
(* place, registers and stacks, which from an interrupt to iret are those  *)
(* that `before' remembers.  The steps of isr_common then leave CodeInv    *)
(* alone, and IsrInv says that they can still put everything back.         *)
(***************************************************************************)
EXTENDS ContextSwitch, SequenceTheorems, TLAPS

-----------------------------------------------------------------------------
(* The program. *)

\* The program, instruction by instruction.
LEMMA CodeList ==
  /\ Len(Code) = 24 /\ IsrStart = 16
  /\ SwitchEntry = Asm(3) /\ RestoreEntry = Asm(11)
  /\ \A i \in 1 .. 2 : Code[i] = LoadFirst[i]
  /\ \A i \in 1 .. 8 : Code[i + 2] = Switch[i]
  /\ \A i \in 1 .. 5 : Code[i + 10] = Restore[i]
  /\ \A i \in 1 .. 9 : Code[i + 15] = Isr[i]
<1> DEFINE S == Range(LoadFirst) \union Range(Switch) \union Range(Restore) \union Range(Isr)
           ab == LoadFirst \o Switch
           abc == ab \o Restore
           abcd == abc \o Isr
<1>1. /\ LoadFirst \in Seq(Range(LoadFirst)) /\ Switch \in Seq(Range(Switch))
      /\ Restore \in Seq(Range(Restore)) /\ Isr \in Seq(Range(Isr))
  <2>1. \A a, b : <<a, b>> \in Seq(Range(<<a, b>>))
    BY DEF Range
  <2>2. \A a, b, c, d, e : <<a, b, c, d, e>> \in Seq(Range(<<a, b, c, d, e>>))
    BY DEF Range
  <2>3. \A a, b, c, d, e, f, g, h : 
          <<a, b, c, d, e, f, g, h>> \in Seq(Range(<<a, b, c, d, e, f, g, h>>))
    BY DEF Range
  <2>4. \A a, b, c, d, e, f, g, h, i : 
          <<a, b, c, d, e, f, g, h, i>> \in Seq(Range(<<a, b, c, d, e, f, g, h, i>>))
    BY DEF Range
  <2> QED
    BY <2>1, <2>2, <2>3, <2>4 DEF LoadFirst, Switch, Restore, Isr
<1>2. Len(LoadFirst) = 2 /\ Len(Switch) = 8 /\ Len(Restore) = 5 /\ Len(Isr) = 9
  BY DEF LoadFirst, Switch, Restore, Isr
<1>3. /\ LoadFirst \in Seq(S) /\ Switch \in Seq(S) /\ Restore \in Seq(S) /\ Isr \in Seq(S)
  BY <1>1
<1> HIDE DEF S
<1>4. /\ ab \in Seq(S) /\ Len(ab) = Len(LoadFirst) + Len(Switch)
      /\ \A i \in 1 .. Len(LoadFirst) + Len(Switch) :
           ab[i] = IF i <= Len(LoadFirst) THEN LoadFirst[i] ELSE Switch[i - Len(LoadFirst)]
  BY <1>3, ConcatProperties
<1> HIDE DEF ab
<1>5. /\ abc \in Seq(S) /\ Len(abc) = Len(ab) + Len(Restore)
      /\ \A i \in 1 .. Len(ab) + Len(Restore) :
           abc[i] = IF i <= Len(ab) THEN ab[i] ELSE Restore[i - Len(ab)]
  <2>1. ab \in Seq(S) /\ Restore \in Seq(S)
    BY <1>3, <1>4
  <2> QED
    BY <2>1, ConcatProperties, Zenon
<1> HIDE DEF abc
<1>6. /\ abcd \in Seq(S) /\ Len(abcd) = Len(abc) + Len(Isr)
      /\ \A i \in 1 .. Len(abc) + Len(Isr) :
           abcd[i] = IF i <= Len(abc) THEN abc[i] ELSE Isr[i - Len(abc)]
  <2>1. abc \in Seq(S) /\ Isr \in Seq(S)
    BY <1>3, <1>5
  <2> QED
    BY <2>1, ConcatProperties, Zenon
<1> HIDE DEF abcd
<1>7. /\ Len(ab) = 10 /\ Len(abc) = 15 /\ Len(abcd) = 24
      /\ \A i \in 1 .. 10 : ab[i] = IF i <= 2 THEN LoadFirst[i] ELSE Switch[i - 2]
      /\ \A i \in 1 .. 15 : abc[i] = IF i <= 10 THEN ab[i] ELSE Restore[i - 10]
      /\ \A i \in 1 .. 24 : abcd[i] = IF i <= 15 THEN abc[i] ELSE Isr[i - 15]
  BY <1>2, <1>4, <1>5, <1>6
<1>8. abcd = Code /\ abc = LoadFirst \o Switch \o Restore /\ ab = LoadFirst \o Switch
  BY DEF abcd, abc, ab, Code
<1>9. IsrStart = 16 /\ SwitchEntry = Asm(3) /\ RestoreEntry = Asm(11)
  BY <1>2, <1>7, <1>8 DEF IsrStart, SwitchEntry, RestoreEntry
<1>10. \A i \in 1 .. 2 : abcd[i] = LoadFirst[i]
  BY <1>7
<1>11. ASSUME NEW i \in 1 .. 8 PROVE abcd[i + 2] = Switch[i]
  <2>1. abcd[i + 2] = ab[i + 2]
    BY <1>7
  <2>2. ab[i + 2] = Switch[(i + 2) - 2]
    BY <1>7
  <2> QED
    BY <2>1, <2>2
<1>12. ASSUME NEW i \in 1 .. 5 PROVE abcd[i + 10] = Restore[i]
  <2>1. abcd[i + 10] = abc[i + 10]
    BY <1>7
  <2>2. abc[i + 10] = Restore[(i + 10) - 10]
    BY <1>7
  <2> QED
    BY <2>1, <2>2
<1>13. ASSUME NEW i \in 1 .. 9 PROVE abcd[i + 15] = Isr[i]
  <2>1. abcd[i + 15] = Isr[(i + 15) - 15]
    BY <1>7
  <2> QED
    BY <2>1
<1> QED
  BY <1>7, <1>8, <1>9, <1>10, <1>11, <1>12, <1>13

\* The order in which thread_restore pops the registers.
RestoreOrder == <<"esi", "edi", "ebx", "ebp">>
\* The instructions one by one.
LEMMA Ops ==
  /\ Code[1] = Load(1, "esp") /\ Code[2].op = "jmp thread_restore"
  /\ Code[3] = Load(2, "ecx") /\ Code[4] = Load(1, "eax")
  /\ Code[9].op = "mov esp, (eax)" /\ Code[10].op = "mov ecx, esp" /\ Code[15].op = "ret"
  /\ \A n \in 0 .. 3 : Code[5 + n] = Push(RestoreOrder[4 - n])
  /\ \A n \in 0 .. 3 : Code[11 + n] = Pop(RestoreOrder[n + 1])
  /\ Code[16].op = "push 0" /\ Code[17].op = "push n" /\ Code[18].op = "pushal"
  /\ Code[19] = Push("esp") /\ Code[20].op = "call isr_main" /\ Code[21].op = "add 4"
  /\ Code[22].op = "popal" /\ Code[23].op = "add 8" /\ Code[24].op = "iret"
<1>1. /\ Code[1] = LoadFirst[1] /\ Code[2] = LoadFirst[2]
      /\ Code[3] = Switch[1] /\ Code[4] = Switch[2] /\ Code[5] = Switch[3]
      /\ Code[6] = Switch[4] /\ Code[7] = Switch[5] /\ Code[8] = Switch[6]
      /\ Code[9] = Switch[7] /\ Code[10] = Switch[8]
      /\ Code[11] = Restore[1] /\ Code[12] = Restore[2] /\ Code[13] = Restore[3]
      /\ Code[14] = Restore[4] /\ Code[15] = Restore[5]
  <2>1. /\ \A i \in 1 .. 8 : Code[i + 2] = Switch[i]
        /\ \A i \in 1 .. 5 : Code[i + 10] = Restore[i]
        /\ \A i \in 1 .. 2 : Code[i] = LoadFirst[i]
    BY CodeList
  <2>2. /\ Code[1 + 2] = Switch[1] /\ Code[2 + 2] = Switch[2] /\ Code[3 + 2] = Switch[3]
        /\ Code[4 + 2] = Switch[4] /\ Code[5 + 2] = Switch[5] /\ Code[6 + 2] = Switch[6]
        /\ Code[7 + 2] = Switch[7] /\ Code[8 + 2] = Switch[8]
        /\ Code[1 + 10] = Restore[1] /\ Code[2 + 10] = Restore[2] /\ Code[3 + 10] = Restore[3]
        /\ Code[4 + 10] = Restore[4] /\ Code[5 + 10] = Restore[5]
    BY <2>1
  <2> QED
    BY <2>1, <2>2
<1>2. /\ Code[16] = Isr[1] /\ Code[17] = Isr[2] /\ Code[18] = Isr[3] /\ Code[19] = Isr[4]
      /\ Code[20] = Isr[5] /\ Code[21] = Isr[6] /\ Code[22] = Isr[7] /\ Code[23] = Isr[8]
      /\ Code[24] = Isr[9]
  <2>1. \A i \in 1 .. 9 : Code[i + 15] = Isr[i]
    BY CodeList
  <2>2. /\ Code[1 + 15] = Isr[1] /\ Code[2 + 15] = Isr[2] /\ Code[3 + 15] = Isr[3]
        /\ Code[4 + 15] = Isr[4] /\ Code[5 + 15] = Isr[5] /\ Code[6 + 15] = Isr[6]
        /\ Code[7 + 15] = Isr[7] /\ Code[8 + 15] = Isr[8] /\ Code[9 + 15] = Isr[9]
    BY <2>1
  <2> QED
    BY <2>2
<1>3. /\ LoadFirst[1] = Load(1, "esp") /\ LoadFirst[2] = Op("jmp thread_restore")
      /\ Switch[1] = Load(2, "ecx") /\ Switch[2] = Load(1, "eax") /\ Switch[3] = Push("ebp")
      /\ Switch[4] = Push("ebx") /\ Switch[5] = Push("edi") /\ Switch[6] = Push("esi")
      /\ Switch[7] = Op("mov esp, (eax)") /\ Switch[8] = Op("mov ecx, esp")
      /\ Restore[1] = Pop("esi") /\ Restore[2] = Pop("edi") /\ Restore[3] = Pop("ebx")
      /\ Restore[4] = Pop("ebp") /\ Restore[5] = Op("ret")
  BY DEF LoadFirst, Switch, Restore
<1>4. /\ Isr[1] = Op("push 0") /\ Isr[2] = Op("push n") /\ Isr[3] = Op("pushal")
      /\ Isr[4] = Push("esp") /\ Isr[5] = Op("call isr_main") /\ Isr[6] = Op("add 4")
      /\ Isr[7] = Op("popal") /\ Isr[8] = Op("add 8") /\ Isr[9] = Op("iret")
  BY DEF Isr
<1>5. /\ \A n \in 0 .. 3 : Code[5 + n] = Push(RestoreOrder[4 - n])
      /\ \A n \in 0 .. 3 : Code[11 + n] = Pop(RestoreOrder[n + 1])
  <2> SUFFICES ASSUME NEW n \in 0 .. 3
               PROVE  /\ Code[5 + n] = Push(RestoreOrder[4 - n])
                      /\ Code[11 + n] = Pop(RestoreOrder[n + 1])
    OBVIOUS
  <2>1. n = 0 \/ n = 1 \/ n = 2 \/ n = 3
    OBVIOUS
  <2>2. /\ n = 0 => Code[5 + n] = Push("ebp") /\ Code[11 + n] = Pop("esi")
        /\ n = 1 => Code[5 + n] = Push("ebx") /\ Code[11 + n] = Pop("edi")
        /\ n = 2 => Code[5 + n] = Push("edi") /\ Code[11 + n] = Pop("ebx")
        /\ n = 3 => Code[5 + n] = Push("esi") /\ Code[11 + n] = Pop("ebp")
    <3>1. /\ n = 0 => 5 + n = 5 /\ 11 + n = 11
          /\ n = 1 => 5 + n = 6 /\ 11 + n = 12
          /\ n = 2 => 5 + n = 7 /\ 11 + n = 13
          /\ n = 3 => 5 + n = 8 /\ 11 + n = 14
      OBVIOUS
    <3>2. /\ Code[5] = Push("ebp") /\ Code[6] = Push("ebx") /\ Code[7] = Push("edi")
          /\ Code[8] = Push("esi") /\ Code[11] = Pop("esi") /\ Code[12] = Pop("edi")
          /\ Code[13] = Pop("ebx") /\ Code[14] = Pop("ebp")
      BY <1>1, <1>3
    <3> QED
      BY <3>1, <3>2
  <2>3. /\ n = 0 => RestoreOrder[4 - n] = "ebp" /\ RestoreOrder[n + 1] = "esi"
        /\ n = 1 => RestoreOrder[4 - n] = "ebx" /\ RestoreOrder[n + 1] = "edi"
        /\ n = 2 => RestoreOrder[4 - n] = "edi" /\ RestoreOrder[n + 1] = "ebx"
        /\ n = 3 => RestoreOrder[4 - n] = "esi" /\ RestoreOrder[n + 1] = "ebp"
    BY DEF RestoreOrder
  <2> QED
    BY <2>1, <2>2, <2>3
<1>6. \A o : Op(o).op = o
  BY DEF Op
<1>7. /\ Code[1] = Load(1, "esp") /\ Code[2] = Op("jmp thread_restore")
      /\ Code[3] = Load(2, "ecx") /\ Code[4] = Load(1, "eax")
      /\ Code[9] = Op("mov esp, (eax)") /\ Code[10] = Op("mov ecx, esp") /\ Code[15] = Op("ret")
  BY <1>1, <1>3, Zenon
<1>8. /\ Code[16] = Op("push 0") /\ Code[17] = Op("push n") /\ Code[18] = Op("pushal")
      /\ Code[19] = Push("esp") /\ Code[20] = Op("call isr_main") /\ Code[21] = Op("add 4")
      /\ Code[22] = Op("popal") /\ Code[23] = Op("add 8") /\ Code[24] = Op("iret")
  BY <1>2, <1>4, Zenon
<1> QED
  BY <1>5, <1>6, <1>7, <1>8, Zenon

\* Words and addresses are what their tags say they are.
LEMMA Tags ==
  /\ \A o, i : Addr(o, i)[2] = o /\ Addr(o, i)[3] = i /\ Addr(o, i) # Junk
  /\ \A o, i, p, j : Addr(o, i) = Addr(p, j) <=> o = p /\ i = j
  /\ \A i, j : Asm(i) = Asm(j) <=> i = j
  /\ \A i : Asm(i)[1] = "asm" /\ Asm(i)[2] = i /\ Asm(i) # InC /\ Asm(i) # ThreadMain
            /\ Asm(i) # Returned
  /\ InC # ThreadMain /\ InC # Returned /\ ThreadMain # Returned
  /\ InC[1] # "asm" /\ ThreadMain[1] # "asm" /\ Returned[1] # "asm"
  /\ \A t : <<"field", t>>[2] = t
<1>1. \A o, i : Addr(o, i)[1] = "addr" /\ Addr(o, i)[2] = o /\ Addr(o, i)[3] = i
  BY DEF Addr
<1>2. Junk[1] = "junk"
  BY DEF Junk
<1>3. \A i : Asm(i)[1] = "asm" /\ Asm(i)[2] = i
  BY DEF Asm
<1>4. InC[1] = "c" /\ ThreadMain[1] = "thread_main" /\ Returned[1] = "returned"
  BY DEF InC, ThreadMain, Returned
<1>5. \A t : <<"field", t>>[2] = t
  OBVIOUS
<1>6. \A o, i : Addr(o, i) # Junk
  BY <1>1, <1>2
<1>7. /\ InC # ThreadMain /\ InC # Returned /\ ThreadMain # Returned
      /\ InC[1] # "asm" /\ ThreadMain[1] # "asm" /\ Returned[1] # "asm"
  BY <1>4
<1>8. \A i : Asm(i) # InC /\ Asm(i) # ThreadMain /\ Asm(i) # Returned
  BY <1>3, <1>4
<1>9. \A o, i, p, j : Addr(o, i) = Addr(p, j) <=> o = p /\ i = j
  BY <1>1
<1>10. \A i, j : Asm(i) = Asm(j) <=> i = j
  BY <1>3
<1> QED
  BY <1>1, <1>3, <1>5, <1>6, <1>7, <1>8, <1>9, <1>10

-----------------------------------------------------------------------------
(* What instructions do. *)

IsMem(m) == m = [o \in Owner |-> [i \in 1 .. Words |-> m[o][i]]]
IsRegs(r) == r = [x \in Register |-> r[x]]

\* Words pushed on the stack of o.
LEMMA PushEffect ==
  ASSUME IsMem(mem), NEW o \in Owner, NEW top \in Int, regs["esp"] = Addr(o, top),
         NEW ws, Len(ws) \in Nat, NEW r, IsRegs(r), PushWords(ws, r)
  PROVE  /\ IsMem(mem') /\ IsRegs(regs')
         /\ \A p \in Owner \ {o} : mem'[p] = mem[p]
         /\ \A i \in 1 .. Words :
              mem'[o][i] = IF i < top /\ top - i <= Len(ws) THEN ws[top - i] ELSE mem[o][i]
         /\ regs'["esp"] = Addr(o, top - Len(ws))
         /\ \A x \in Register \ {"esp"} : regs'[x] = r[x]
<1>1. regs["esp"][2] = o /\ Top = top
  BY Tags DEF Top
<1>2. mem' = [mem EXCEPT ![o] = [i \in 1 .. Words |->
                IF i < top /\ top - i <= Len(ws) THEN ws[top - i] ELSE mem[o][i]]]
  BY <1>1 DEF PushWords
<1>3. regs' = [r EXCEPT !["esp"] = Addr(o, top - Len(ws))]
  BY <1>1 DEF PushWords, EspAt
<1>4. "esp" \in Register
  BY DEF Register
<1>5. mem'[o] = [i \in 1 .. Words |->
                  IF i < top /\ top - i <= Len(ws) THEN ws[top - i] ELSE mem[o][i]]
  BY <1>2 DEF IsMem
<1>6. DOMAIN mem' = Owner /\ \A p \in Owner \ {o} : mem'[p] = mem[p]
  BY <1>2 DEF IsMem
<1>7. IsMem(mem')
  <2>1. mem' = [p \in Owner |-> mem'[p]]
    BY <1>2 DEF IsMem
  <2>2. ASSUME NEW p \in Owner
        PROVE  mem'[p] = [i \in 1 .. Words |-> mem'[p][i]]
    <3>1. CASE p = o
      BY <1>5, <3>1
    <3>2. CASE p # o
      <4>1. mem[p] = [i \in 1 .. Words |-> mem[p][i]]
        BY DEF IsMem
      <4> QED
        BY <1>6, <3>2, <4>1
    <3> QED
      BY <3>1, <3>2
  <2> QED
    BY <2>1, <2>2 DEF IsMem
<1>8. IsRegs(regs')
  BY <1>3 DEF IsRegs
<1> QED
  BY <1>3, <1>4, <1>5, <1>6, <1>7, <1>8 DEF IsRegs

\* k words leave the stack of o.
LEMMA DropEffect ==
  ASSUME IsMem(mem), NEW o \in Owner, NEW top \in Int, regs["esp"] = Addr(o, top),
         NEW k \in Int, NEW r, IsRegs(r), DropWords(k, r)
  PROVE  /\ IsMem(mem') /\ IsRegs(regs')
         /\ \A p \in Owner \ {o} : mem'[p] = mem[p]
         /\ \A i \in 1 .. Words : mem'[o][i] = IF i < top + k THEN Junk ELSE mem[o][i]
         /\ regs'["esp"] = Addr(o, top + k)
         /\ \A x \in Register \ {"esp"} : regs'[x] = r[x]
<1>1. regs["esp"][2] = o /\ Top = top
  BY Tags DEF Top
<1>2. mem' = [mem EXCEPT ![o] = [i \in 1 .. Words |-> IF i < top + k THEN Junk ELSE mem[o][i]]]
  BY <1>1 DEF DropWords
<1>3. regs' = [r EXCEPT !["esp"] = Addr(o, top + k)]
  BY <1>1 DEF DropWords, EspAt
<1>4. "esp" \in Register
  BY DEF Register
<1>5. mem'[o] = [i \in 1 .. Words |-> IF i < top + k THEN Junk ELSE mem[o][i]]
  BY <1>2 DEF IsMem
<1>6. DOMAIN mem' = Owner /\ \A p \in Owner \ {o} : mem'[p] = mem[p]
  BY <1>2 DEF IsMem
<1>7. IsMem(mem')
  <2>1. mem' = [p \in Owner |-> mem'[p]]
    BY <1>2 DEF IsMem
  <2>2. ASSUME NEW p \in Owner
        PROVE  mem'[p] = [i \in 1 .. Words |-> mem'[p][i]]
    <3>1. CASE p = o
      BY <1>5, <3>1
    <3>2. CASE p # o
      <4>1. mem[p] = [i \in 1 .. Words |-> mem[p][i]]
        BY DEF IsMem
      <4> QED
        BY <1>6, <3>2, <4>1
    <3> QED
      BY <3>1, <3>2
  <2> QED
    BY <2>1, <2>2 DEF IsMem
<1>8. IsRegs(regs')
  BY <1>3 DEF IsRegs
<1> QED
  BY <1>3, <1>4, <1>5, <1>6, <1>7, <1>8 DEF IsRegs

\* An instruction of thread_asm.S does what its op says.
LEMMA ExecuteByOp ==
  ASSUME NEW i, Execute(i)
  PROVE  /\ pc = Asm(i) /\ UNCHANGED <<before, current, kept>>
         /\ Code[i].op = "load" =>
              /\ regs' = [regs EXCEPT ![Code[i].reg] = Stack[Top + Code[i].words]]
              /\ Falls(i) /\ UNCHANGED <<mem, stack_ptr>>
         /\ Code[i].op = "jmp thread_restore" =>
              pc' = RestoreEntry /\ UNCHANGED <<mem, regs, stack_ptr>>
         /\ Code[i].op = "push" =>
              PushWords(<<regs[Code[i].reg]>>, regs) /\ Falls(i) /\ UNCHANGED stack_ptr
         /\ Code[i].op = "pop" =>
              /\ DropWords(1, [regs EXCEPT ![Code[i].reg] = Stack[Top]])
              /\ Falls(i) /\ UNCHANGED stack_ptr
         /\ Code[i].op = "mov esp, (eax)" =>
              /\ stack_ptr' = [stack_ptr EXCEPT ![regs["eax"][2]] = regs["esp"]]
              /\ Falls(i) /\ UNCHANGED <<mem, regs>>
         /\ Code[i].op = "mov ecx, esp" =>
              /\ regs' = [regs EXCEPT !["esp"] = regs["ecx"]]
              /\ Falls(i) /\ UNCHANGED <<mem, stack_ptr>>
         /\ Code[i].op = "ret" =>
              pc' = Stack[Top] /\ DropWords(1, regs) /\ UNCHANGED stack_ptr
BY DEF Execute, At

\* So does one of isr_common.
LEMMA ExecuteIsrByOp ==
  ASSUME NEW i, ExecuteIsr(i)
  PROVE  /\ pc = Asm(i) /\ UNCHANGED <<stack_ptr, current, kept>>
         /\ before' = IF Code[i].op = "iret" THEN Junk ELSE before
         /\ Code[i].op \in {"push 0", "push n"} => PushWords(<<Zero>>, regs) /\ Falls(i)
         /\ Code[i].op = "pushal" =>
              PushWords([k \in 1 .. 8 |-> regs[PushalOrder[k]]], regs) /\ Falls(i)
         /\ Code[i].op = "push" => PushWords(<<regs[Code[i].reg]>>, regs) /\ Falls(i)
         /\ Code[i].op = "call isr_main" =>
              /\ mem' = [mem EXCEPT ![regs["esp"][2]] =
                           [w \in 1 .. Words |-> IF w < Top THEN Junk ELSE @[w]]]
              /\ regs' = [r \in Register |->
                            IF r \in {"eax", "ecx", "edx"} THEN Junk ELSE regs[r]]
              /\ Falls(i)
         /\ Code[i].op = "add 4" => DropWords(1, regs) /\ Falls(i)
         /\ Code[i].op = "popal" =>
              /\ DropWords(8, [r \in Register |->
                   IF r = "esp" THEN regs[r]
                   ELSE Stack[Top + 8 - (CHOOSE k \in 1 .. 8 : PushalOrder[k] = r)]])
              /\ Falls(i)
         /\ Code[i].op = "add 8" => DropWords(2, regs) /\ Falls(i)
         /\ Code[i].op = "iret" => pc' = Stack[Top] /\ DropWords(3, regs)
BY DEF ExecuteIsr, At

\* Each instruction of thread_asm.S, by its number.
LEMMA ExecuteIs ==
  ASSUME NEW i \in 1 .. 15, Execute(i)
  PROVE  /\ pc = Asm(i) /\ UNCHANGED <<before, current, kept>>
         /\ i = 1 => regs' = [regs EXCEPT !["esp"] = Stack[Top + 1]] /\ pc' = Asm(2)
                     /\ UNCHANGED <<mem, stack_ptr>>
         /\ i = 2 => pc' = Asm(11) /\ UNCHANGED <<mem, regs, stack_ptr>>
         /\ i = 3 => regs' = [regs EXCEPT !["ecx"] = Stack[Top + 2]] /\ pc' = Asm(4)
                     /\ UNCHANGED <<mem, stack_ptr>>
         /\ i = 4 => regs' = [regs EXCEPT !["eax"] = Stack[Top + 1]] /\ pc' = Asm(5)
                     /\ UNCHANGED <<mem, stack_ptr>>
         /\ \A n \in 0 .. 3 : i = 5 + n =>
              PushWords(<<regs[RestoreOrder[4 - n]]>>, regs) /\ pc' = Asm(i + 1)
              /\ UNCHANGED stack_ptr
         /\ i = 9 => stack_ptr' = [stack_ptr EXCEPT ![regs["eax"][2]] = regs["esp"]]
                     /\ pc' = Asm(10) /\ UNCHANGED <<mem, regs>>
         /\ i = 10 => regs' = [regs EXCEPT !["esp"] = regs["ecx"]] /\ pc' = Asm(11)
                      /\ UNCHANGED <<mem, stack_ptr>>
         /\ \A n \in 0 .. 3 : i = 11 + n =>
              DropWords(1, [regs EXCEPT ![RestoreOrder[n + 1]] = Stack[Top]])
              /\ pc' = Asm(i + 1) /\ UNCHANGED stack_ptr
         /\ i = 15 => pc' = Stack[Top] /\ DropWords(1, regs) /\ UNCHANGED stack_ptr
<1>1. pc = Asm(i) /\ UNCHANGED <<before, current, kept>>
  BY ExecuteByOp
<1>2. ASSUME i = 1
      PROVE  /\ regs' = [regs EXCEPT !["esp"] = Stack[Top + 1]] /\ pc' = Asm(2)
             /\ UNCHANGED <<mem, stack_ptr>>
  <2>1. Code[i] = Load(1, "esp")
    BY <1>2, Ops
  <2>2. Code[i].op = "load" /\ Code[i].words = 1 /\ Code[i].reg = "esp"
    BY <2>1 DEF Load
  <2>3. Falls(i) => pc' = Asm(2)
    BY <1>2 DEF Falls
  <2> QED
    BY <2>2, <2>3, ExecuteByOp
<1>3. ASSUME i = 2
      PROVE  pc' = Asm(11) /\ UNCHANGED <<mem, regs, stack_ptr>>
  <2>1. Code[i].op = "jmp thread_restore" /\ RestoreEntry = Asm(11)
    BY <1>3, Ops, CodeList
  <2> QED
    BY <2>1, ExecuteByOp
<1>4. ASSUME i = 3
      PROVE  /\ regs' = [regs EXCEPT !["ecx"] = Stack[Top + 2]] /\ pc' = Asm(4)
             /\ UNCHANGED <<mem, stack_ptr>>
  <2>1. Code[i] = Load(2, "ecx")
    BY <1>4, Ops
  <2>2. Code[i].op = "load" /\ Code[i].words = 2 /\ Code[i].reg = "ecx"
    BY <2>1 DEF Load
  <2>3. Falls(i) => pc' = Asm(4)
    BY <1>4 DEF Falls
  <2> QED
    BY <2>2, <2>3, ExecuteByOp
<1>5. ASSUME i = 4
      PROVE  /\ regs' = [regs EXCEPT !["eax"] = Stack[Top + 1]] /\ pc' = Asm(5)
             /\ UNCHANGED <<mem, stack_ptr>>
  <2>1. Code[i] = Load(1, "eax")
    BY <1>5, Ops
  <2>2. Code[i].op = "load" /\ Code[i].words = 1 /\ Code[i].reg = "eax"
    BY <2>1 DEF Load
  <2>3. Falls(i) => pc' = Asm(5)
    BY <1>5 DEF Falls
  <2> QED
    BY <2>2, <2>3, ExecuteByOp
<1>6. ASSUME NEW n \in 0 .. 3, i = 5 + n
      PROVE  /\ PushWords(<<regs[RestoreOrder[4 - n]]>>, regs) /\ pc' = Asm(i + 1)
             /\ UNCHANGED stack_ptr
  <2>1. Code[i] = Push(RestoreOrder[4 - n])
    BY <1>6, Ops
  <2>2. Code[i].op = "push" /\ Code[i].reg = RestoreOrder[4 - n]
    BY <2>1 DEF Push
  <2>3. Falls(i) => pc' = Asm(i + 1)
    BY DEF Falls
  <2> QED
    BY <2>2, <2>3, ExecuteByOp
<1>7. ASSUME i = 9
      PROVE  /\ stack_ptr' = [stack_ptr EXCEPT ![regs["eax"][2]] = regs["esp"]]
             /\ pc' = Asm(10) /\ UNCHANGED <<mem, regs>>
  <2>1. Code[i].op = "mov esp, (eax)"
    BY <1>7, Ops
  <2>2. Falls(i) => pc' = Asm(10)
    BY <1>7 DEF Falls
  <2> QED
    BY <2>1, <2>2, ExecuteByOp
<1>8. ASSUME i = 10
      PROVE  /\ regs' = [regs EXCEPT !["esp"] = regs["ecx"]] /\ pc' = Asm(11)
             /\ UNCHANGED <<mem, stack_ptr>>
  <2>1. Code[i].op = "mov ecx, esp"
    BY <1>8, Ops
  <2>2. Falls(i) => pc' = Asm(11)
    BY <1>8 DEF Falls
  <2> QED
    BY <2>1, <2>2, ExecuteByOp
<1>9. ASSUME NEW n \in 0 .. 3, i = 11 + n
      PROVE  /\ DropWords(1, [regs EXCEPT ![RestoreOrder[n + 1]] = Stack[Top]])
             /\ pc' = Asm(i + 1) /\ UNCHANGED stack_ptr
  <2>1. Code[i] = Pop(RestoreOrder[n + 1])
    BY <1>9, Ops
  <2>2. Code[i].op = "pop" /\ Code[i].reg = RestoreOrder[n + 1]
    BY <2>1 DEF Pop
  <2>3. Falls(i) => pc' = Asm(i + 1)
    BY DEF Falls
  <2> QED
    BY <2>2, <2>3, ExecuteByOp
<1>10. ASSUME i = 15
      PROVE  pc' = Stack[Top] /\ DropWords(1, regs) /\ UNCHANGED stack_ptr
  <2>1. Code[i].op = "ret"
    BY <1>10, Ops
  <2> QED
    BY <2>1, ExecuteByOp
<1> QED
  BY <1>1, <1>2, <1>3, <1>4, <1>5, <1>6, <1>7, <1>8, <1>9, <1>10

\* Each instruction of isr_common, by its number.
LEMMA ExecuteIsrIs ==
  ASSUME NEW i \in 16 .. 24, ExecuteIsr(i)
  PROVE  /\ pc = Asm(i) /\ UNCHANGED <<stack_ptr, current, kept>>
         /\ i # 24 => pc' = Asm(i + 1) /\ before' = before
         /\ i \in {16, 17} => PushWords(<<Zero>>, regs)
         /\ i = 18 => PushWords([k \in 1 .. 8 |-> regs[PushalOrder[k]]], regs)
         /\ i = 19 => PushWords(<<regs["esp"]>>, regs)
         /\ i = 20 =>
              /\ mem' = [mem EXCEPT ![regs["esp"][2]] =
                           [w \in 1 .. Words |-> IF w < Top THEN Junk ELSE @[w]]]
              /\ regs' = [r \in Register |->
                            IF r \in {"eax", "ecx", "edx"} THEN Junk ELSE regs[r]]
         /\ i = 21 => DropWords(1, regs)
         /\ i = 22 =>
              DropWords(8, [r \in Register |->
                IF r = "esp" THEN regs[r]
                ELSE Stack[Top + 8 - (CHOOSE k \in 1 .. 8 : PushalOrder[k] = r)]])
         /\ i = 23 => DropWords(2, regs)
         /\ i = 24 => pc' = Stack[Top] /\ DropWords(3, regs)
<1>1. pc = Asm(i) /\ UNCHANGED <<stack_ptr, current, kept>>
  BY ExecuteIsrByOp
<1>3. i = 16 \/ i = 17 \/ i = 18 \/ i = 19 \/ i = 20 \/ i = 21 \/ i = 22 \/ i = 23 \/ i = 24
  OBVIOUS
<1>4. ASSUME i = 16
      PROVE  /\ PushWords(<<Zero>>, regs)
             /\ pc' = Asm(17) /\ before' = before
  <2>1. Code[i].op = "push 0"
    BY <1>4, Ops
  <2>2. Falls(i) => pc' = Asm(17)
    BY <1>4 DEF Falls
  <2> QED
    BY <2>1, <2>2, ExecuteIsrByOp
<1>5. ASSUME i = 17
      PROVE  /\ PushWords(<<Zero>>, regs)
             /\ pc' = Asm(18) /\ before' = before
  <2>1. Code[i].op = "push n"
    BY <1>5, Ops
  <2>2. Falls(i) => pc' = Asm(18)
    BY <1>5 DEF Falls
  <2> QED
    BY <2>1, <2>2, ExecuteIsrByOp
<1>6. ASSUME i = 18
      PROVE  /\ PushWords([k \in 1 .. 8 |-> regs[PushalOrder[k]]], regs)
             /\ pc' = Asm(19) /\ before' = before
  <2>1. Code[i].op = "pushal"
    BY <1>6, Ops
  <2>2. Falls(i) => pc' = Asm(19)
    BY <1>6 DEF Falls
  <2> QED
    BY <2>1, <2>2, ExecuteIsrByOp
<1>7. ASSUME i = 19
      PROVE  /\ PushWords(<<regs["esp"]>>, regs)
             /\ pc' = Asm(20) /\ before' = before
  <2>1. Code[i] = Push("esp")
    BY <1>7, Ops
  <2>2. Code[i].op = "push" /\ Code[i].reg = "esp"
    BY <2>1 DEF Push
  <2>3. Falls(i) => pc' = Asm(20)
    BY <1>7 DEF Falls
  <2> QED
    BY <2>2, <2>3, ExecuteIsrByOp
<1>8. ASSUME i = 20
      PROVE  /\ mem' = [mem EXCEPT ![regs["esp"][2]] =
                          [w \in 1 .. Words |-> IF w < Top THEN Junk ELSE @[w]]]
             /\ regs' = [r \in Register |->
                           IF r \in {"eax", "ecx", "edx"} THEN Junk ELSE regs[r]]
             /\ pc' = Asm(21) /\ before' = before
  <2>1. Code[i].op = "call isr_main"
    BY <1>8, Ops
  <2>2. Falls(i) => pc' = Asm(21)
    BY <1>8 DEF Falls
  <2> QED
    BY <2>1, <2>2, ExecuteIsrByOp
<1>9. ASSUME i = 21
      PROVE  /\ DropWords(1, regs)
             /\ pc' = Asm(22) /\ before' = before
  <2>1. Code[i].op = "add 4"
    BY <1>9, Ops
  <2>2. Falls(i) => pc' = Asm(22)
    BY <1>9 DEF Falls
  <2> QED
    BY <2>1, <2>2, ExecuteIsrByOp
<1>10. ASSUME i = 22
      PROVE  /\ DropWords(8, [r \in Register |->
               IF r = "esp" THEN regs[r]
               ELSE Stack[Top + 8 - (CHOOSE k \in 1 .. 8 : PushalOrder[k] = r)]])
             /\ pc' = Asm(23) /\ before' = before
  <2>1. Code[i].op = "popal"
    BY <1>10, Ops
  <2>2. Falls(i) => pc' = Asm(23)
    BY <1>10 DEF Falls
  <2> QED
    BY <2>1, <2>2, ExecuteIsrByOp
<1>11. ASSUME i = 23
      PROVE  /\ DropWords(2, regs)
             /\ pc' = Asm(24) /\ before' = before
  <2>1. Code[i].op = "add 8"
    BY <1>11, Ops
  <2>2. Falls(i) => pc' = Asm(24)
    BY <1>11 DEF Falls
  <2> QED
    BY <2>1, <2>2, ExecuteIsrByOp
<1>12. ASSUME i = 24
      PROVE  /\ pc' = Stack[Top] /\ DropWords(3, regs)
  <2>1. Code[i].op = "iret"
    BY <1>12, Ops
  <2> QED
    BY <2>1, ExecuteIsrByOp
<1> QED
  BY <1>1, <1>3, <1>4, <1>5, <1>6, <1>7, <1>8, <1>9, <1>10, <1>11, <1>12

-----------------------------------------------------------------------------
(* The inductive invariant.  It speaks of the interrupted code: from its     *)
(* interrupt to iret, that is what `before' remembers.                       *)

Pc == IF InIsr THEN before.pc ELSE pc
Regs == IF InIsr THEN before.regs ELSE regs
Mem == IF InIsr THEN [mem EXCEPT ![regs["esp"][2]] = before.stack] ELSE mem

Here == Regs["esp"][2]
Depth == Regs["esp"][3]

\* The stack m of t, whose record in `kept' is s, leads to where t goes on, if its frame is
\* at word j: to a new thread, or back into thread_context_switch.
GoesOn(m, s, t, j) ==
  /\ s.esp = Addr(t, j + 5)
  /\ \/ /\ s.from = ThreadMain /\ j = Words - 7
        /\ m[Words - 2] = Zero /\ m[Words - 1] = <<"fn", t>> /\ m[Words] = <<"arg", t>>
     \/ /\ s.from = Returned /\ j \in Words - 9 - MaxLocals .. Words - 9
        /\ s.base = Addr(t, Words - 2)

\* What of that frame is left when n words have been popped.
FrameIn(m, s, t, j, n) ==
  /\ GoesOn(m, s, t, j)
  /\ \A k \in 1 .. 4 : k > n => m[j + k - 1] = s.saved[RestoreOrder[k]]
  /\ n < 5 => m[j + 4] = s.from

Suspended(t) ==
  /\ stack_ptr[t] = Addr(t, stack_ptr[t][3])
  /\ FrameIn(Mem[t], kept[t], t, stack_ptr[t][3], 0)
  /\ \A i \in 1 .. Words : i < stack_ptr[t][3] => Mem[t][i] = Junk

\* n words of the current thread's frame have been popped.
Restoring(n) ==
  /\ Here = current /\ current \in Thread
  /\ FrameIn(Mem[current], kept[current], current, Depth - n, n)
  /\ \A k \in 1 .. 4 : k <= n => Regs[RestoreOrder[k]] = kept[current].saved[RestoreOrder[k]]

\* n registers of the thread that is left have been pushed, above them its return
\* address and the two arguments.
Saving(n) ==
  /\ Here \in Thread \ {current} /\ current \in Thread
  /\ FrameIn(Mem[Here], kept[Here], Here, Depth + n - 4, 4 - n) /\ kept[Here].from = Returned
  /\ \A r \in CalleeSaved : Regs[r] = kept[Here].saved[r]
  /\ Mem[Here][Depth + n + 1] = <<"field", Here>>
  /\ Mem[Here][Depth + n + 2] = stack_ptr[current]

\* What the interrupted code has on its stack and in its registers, by its place.
PhaseInv ==
  /\ Pc = InC => Here = current /\ Depth = IF current = Boot THEN Words + 1 ELSE Words - 2
  /\ Pc = Asm(1) => /\ current \in Thread /\ Here = Boot /\ Depth = Words - 1
                    /\ Mem[Boot][Words] = stack_ptr[current]
  /\ Pc = Asm(2) => Restoring(0)
  /\ Pc \in {Asm(3), Asm(4)} => Saving(0)
  /\ \A n \in 0 .. 4 : Pc = Asm(5 + n) => Saving(n)
  /\ Pc = Asm(10) => Saving(4) /\ stack_ptr[Here] = Regs["esp"]
  /\ \A i \in 4 .. 10 : Pc = Asm(i) => Regs["ecx"] = stack_ptr[current]
  /\ \A i \in 5 .. 10 : Pc = Asm(i) => Regs["eax"] = <<"field", Here>>
  /\ \A n \in 0 .. 4 : Pc = Asm(11 + n) => Restoring(n)
  /\ Pc \in {ThreadMain, Returned} => Restoring(5) /\ Pc = kept[current].from

\* Where an interrupt may come.
CodePlaces == {InC, ThreadMain, Returned} \union {Asm(i) : i \in 1 .. 15}

StackTypes ==
  /\ IsMem(Mem) /\ IsRegs(Regs)
  /\ Regs["esp"] = Addr(Here, Depth)
  /\ Here \in Owner /\ Depth \in 15 .. Words + 1
  /\ Pc \in CodePlaces
  /\ DOMAIN stack_ptr = Thread /\ DOMAIN kept = Thread
  /\ \A t \in Thread : stack_ptr[t] \in Addresses(t) \union {Junk}
  /\ current \in Owner

\* A thread that has no frame yet has an empty stack; one the processor is not on can be
\* resumed.
ThreadsInv ==
  \A t \in Thread :
    /\ stack_ptr[t] = Junk => /\ t # Here /\ t # current
                              /\ \A i \in 1 .. Words : Mem[t][i] = Junk
    /\ stack_ptr[t] # Junk /\ t # Here => Suspended(t)

DeadInv == \A i \in 1 .. Words : i < Depth => Mem[Here][i] = Junk

CodeInv == StackTypes /\ ThreadsInv /\ DeadInv /\ PhaseInv

\* How many words the processor and isr_common have pushed before instruction i.
IsrWords(i) ==
  CASE i \in {16, 24} -> 3
    [] i = 17 -> 4
    [] i \in {18, 23} -> 5
    [] i \in {19, 22} -> 13
    [] i \in {20, 21} -> 14

\* What the handler has pushed, and which registers it has not changed yet.
IsrInv ==
  InIsr =>
    /\ IsMem(mem) /\ IsRegs(regs)
    /\ before.stack = [i \in 1 .. Words |-> before.stack[i]]
    /\ pc \in {Asm(i) : i \in 16 .. 24}
    /\ regs["esp"] = Addr(Here, Depth - IsrWords(pc[2]))
    /\ \A i \in 1 .. Words :
         /\ i < Depth - IsrWords(pc[2]) => mem[Here][i] = Junk
         /\ i >= Depth => mem[Here][i] = before.stack[i]
    /\ mem[Here][Depth - 3] = before.pc
    /\ pc[2] \in 19 .. 22 =>
         \A k \in (1 .. 8) \ {5} : mem[Here][Depth - 5 - k] = before.regs[PushalOrder[k]]
    /\ \A r \in Register \ {"esp"} :
         (pc[2] \in {21, 22} => r \notin {"eax", "ecx", "edx"}) => regs[r] = before.regs[r]

IInv == CodeInv /\ IsrInv

-----------------------------------------------------------------------------
(* Interrupts. *)

\* The code that interrupts may interrupt is not isr_common.
LEMMA Places ==
  /\ pc \in CodePlaces => ~ InIsr
  /\ pc' \in CodePlaces => ~ InIsr'
  /\ pc \in {Asm(i) : i \in 16 .. 24} => InIsr
  /\ pc' \in {Asm(i) : i \in 16 .. 24} => InIsr'
<1>1. IsrStart = 16
  BY CodeList
<1>2. ASSUME NEW p \in CodePlaces
      PROVE  ~ (p[1] = "asm" /\ p[2] >= IsrStart)
  <2>1. CASE p \in {InC, ThreadMain, Returned}
    BY <2>1, Tags
  <2>2. ASSUME NEW i \in 1 .. 15, p = Asm(i)
        PROVE  ~ (p[2] >= IsrStart)
    <3>1. p[2] = i
      BY <2>2, Tags
    <3> QED
      BY <1>1, <3>1
  <2> QED
    BY <2>1, <2>2 DEF CodePlaces
<1>3. ASSUME NEW p \in {Asm(i) : i \in 16 .. 24}
      PROVE  p[1] = "asm" /\ p[2] >= IsrStart
  <2>1. PICK i \in 16 .. 24 : p = Asm(i)
    OBVIOUS
  <2>2. p[1] = "asm" /\ p[2] = i
    BY <2>1, Tags
  <2> QED
    BY <1>1, <2>2
<1>4. InIsr <=> pc[1] = "asm" /\ pc[2] >= IsrStart
  BY DEF InIsr
<1>5. InIsr' <=> pc'[1] = "asm" /\ pc'[2] >= IsrStart
  BY CodeList DEF InIsr
<1> QED
  BY <1>2, <1>3, <1>4, <1>5

\* Outside interrupts the code is what runs.
LEMMA Outside ==
  /\ ~ InIsr => Pc = pc /\ Regs = regs /\ Mem = mem
  /\ ~ InIsr' => Pc' = pc' /\ Regs' = regs' /\ Mem' = mem'
BY DEF Pc, Regs, Mem

\* A step that changes nothing of the interrupted code.
LEMMA CodeRests ==
  ASSUME CodeInv, Pc' = Pc, Regs' = Regs, Mem' = Mem, UNCHANGED <<stack_ptr, current, kept>>
  PROVE  CodeInv'
<1>1. Here' = Here /\ Depth' = Depth
  BY DEF Here, Depth
<1>2. StackTypes'
  BY <1>1 DEF CodeInv, StackTypes
<1>3. ThreadsInv'
  BY <1>1 DEF CodeInv, ThreadsInv, Suspended
<1>4. DeadInv'
  BY <1>1 DEF CodeInv, DeadInv
<1>5. PhaseInv'
  BY <1>1 DEF CodeInv, PhaseInv, Restoring, Saving
<1> QED
  BY <1>2, <1>3, <1>4, <1>5 DEF CodeInv

\* IsrWords, place by place.
LEMMA WordsPushed ==
  /\ IsrWords(16) = 3 /\ IsrWords(17) = 4 /\ IsrWords(18) = 5 /\ IsrWords(19) = 13
  /\ IsrWords(20) = 14 /\ IsrWords(21) = 14 /\ IsrWords(22) = 13 /\ IsrWords(23) = 5
  /\ IsrWords(24) = 3
BY DEF IsrWords

\* An interrupt keeps what the code had in `before'.
LEMMA InterruptStep ==
  ASSUME IInv, Interrupt
  PROVE  IInv'
<1>1. ~ InIsr /\ pc' = Asm(16) /\ before' = [regs |-> regs, pc |-> pc, stack |-> Stack]
      /\ UNCHANGED <<stack_ptr, current, kept>>
      /\ PushWords(<<<<"eflags">>, <<"cs">>, pc>>, regs)
  BY CodeList DEF Interrupt
<1>2. PICK o \in Owner, top \in 15 .. Words + 1 :
        o = Here /\ top = Depth /\ regs["esp"] = Addr(o, top)
        /\ IsMem(mem) /\ IsRegs(regs)
  BY <1>1, Outside DEF IInv, CodeInv, StackTypes
<1>3. Stack = mem[o]
  BY <1>2, Tags DEF Stack
<1>4. InIsr'
  BY <1>1, Places
<1>5. DEFINE ws == <<<<"eflags">>, <<"cs">>, pc>>
<1>6. Len(ws) = 3 /\ ws[3] = pc
  OBVIOUS
<1> HIDE DEF ws
<1>7. Words \in Nat
  BY StackAssumption
<1>8. /\ IsMem(mem') /\ IsRegs(regs')
      /\ \A p \in Owner \ {o} : mem'[p] = mem[p]
      /\ \A i \in 1 .. Words :
           mem'[o][i] = IF i < top /\ top - i <= 3 THEN ws[top - i] ELSE mem[o][i]
      /\ regs'["esp"] = Addr(o, top - 3)
      /\ \A x \in Register \ {"esp"} : regs'[x] = regs[x]
  <2>1. PushWords(ws, regs) /\ top \in Int /\ Len(ws) \in Nat
    BY <1>1, <1>2, <1>6, <1>7 DEF ws
  <2>2. /\ IsMem(mem') /\ IsRegs(regs')
        /\ \A p \in Owner \ {o} : mem'[p] = mem[p]
        /\ \A i \in 1 .. Words :
             mem'[o][i] = IF i < top /\ top - i <= Len(ws) THEN ws[top - i] ELSE mem[o][i]
        /\ regs'["esp"] = Addr(o, top - Len(ws))
        /\ \A x \in Register \ {"esp"} : regs'[x] = regs[x]
    BY <1>2, <2>1, PushEffect
  <2> QED
    BY <1>6, <2>2
<1>9. before'.pc = pc /\ before'.regs = regs /\ before'.stack = mem[o]
  BY <1>1, <1>3
<1>10. Pc' = Pc /\ Regs' = Regs
  BY <1>1, <1>4, <1>9, Outside DEF Pc, Regs
<1>11. Mem' = Mem
  <2>1. Mem' = [mem' EXCEPT ![o] = mem[o]]
    <3>1. regs'["esp"][2] = o
      BY <1>8, Tags
    <3> QED
      BY <1>4, <1>9, <3>1 DEF Mem
  <2>2. mem = [p \in Owner |-> mem[p]] /\ mem' = [p \in Owner |-> mem'[p]]
    BY <1>2, <1>8 DEF IsMem
  <2>3. [mem' EXCEPT ![o] = mem[o]] = mem
    BY <1>8, <2>2
  <2> QED
    BY <1>1, <2>1, <2>3, Outside
<1>12. Here' = o /\ Depth' = top
  BY <1>2, <1>10 DEF Here, Depth
<1>13. pc'[2] = 16 /\ IsrWords(pc'[2]) = 3
  BY <1>1, Tags, WordsPushed
<1>14. IsrInv'
  <2>1. before'.stack = [i \in 1 .. Words |-> before'.stack[i]]
    BY <1>2, <1>9 DEF IsMem
  <2>2. pc' \in {Asm(i) : i \in 16 .. 24}
    BY <1>1
  <2>3. \A i \in 1 .. Words :
          /\ i < top - 3 => mem'[o][i] = Junk
          /\ i >= top => mem'[o][i] = before'.stack[i]
    <3>1. \A i \in 1 .. Words : i < top => mem[o][i] = Junk
      BY <1>1, <1>2, Outside DEF IInv, CodeInv, DeadInv
    <3> QED
      BY <1>7, <1>8, <1>9, <3>1
  <2>4. mem'[o][top - 3] = before'.pc
    <3>1. top - 3 \in 1 .. Words /\ top - (top - 3) = 3
      BY <1>7
    <3> QED
      BY <1>6, <1>8, <1>9, <3>1
  <2>5. \A r \in Register \ {"esp"} : regs'[r] = before'.regs[r]
    BY <1>8, <1>9
  <2>6. pc'[2] \notin 19 .. 22
    BY <1>13
  <2> QED
    BY <1>8, <1>12, <1>13, <2>1, <2>2, <2>3, <2>4, <2>5, <2>6 DEF IsrInv
<1>15. CodeInv'
  BY <1>1, <1>10, <1>11, CodeRests DEF IInv
<1> QED
  BY <1>14, <1>15 DEF IInv

\* Where pushal has put a register is where popal looks for it.
LEMMA PopalFinds ==
  ASSUME NEW r \in Register \ {"esp"}
  PROVE  \E k \in (1 .. 8) \ {5} :
           PushalOrder[k] = r /\ k = CHOOSE k0 \in 1 .. 8 : PushalOrder[k0] = r
<1> DEFINE found == CHOOSE k \in 1 .. 8 : PushalOrder[k] = r
<1>1. /\ PushalOrder[1] = "eax" /\ PushalOrder[2] = "ecx" /\ PushalOrder[3] = "edx"
      /\ PushalOrder[4] = "ebx" /\ PushalOrder[5] = "esp" /\ PushalOrder[6] = "ebp"
      /\ PushalOrder[7] = "esi" /\ PushalOrder[8] = "edi"
  BY DEF PushalOrder
<1>2. r \in {"eax", "ecx", "edx", "ebx", "ebp", "esi", "edi"}
  BY DEF Register, CalleeSaved
<1>3. \E k \in 1 .. 8 : PushalOrder[k] = r
  BY <1>1, <1>2
<1>4. found \in 1 .. 8 /\ PushalOrder[found] = r
  BY <1>3
<1>5. found # 5
  BY <1>1, <1>4
<1>6. found \in (1 .. 8) \ {5} /\ PushalOrder[found] = r
  BY <1>4, <1>5
<1> QED
  BY <1>6

\* A step of the handler, from instruction i on.
LEMMA IsrEffect ==
  ASSUME NEW i \in 16 .. 23, ExecuteIsr(i), IsrInv, InIsr,
         NEW o \in Owner, NEW top \in 15 .. Words + 1, o = Here, top = Depth
  PROVE  /\ IsMem(mem') /\ IsRegs(regs')
         /\ \A p \in Owner \ {o} : mem'[p] = mem[p]
         /\ regs'["esp"] = Addr(o, top - IsrWords(i + 1))
         /\ \A j \in 1 .. Words : j < top - IsrWords(i + 1) => mem'[o][j] = Junk
         /\ \A j \in 1 .. Words : j >= top - 3 => mem'[o][j] = mem[o][j]
         /\ i \in 18 .. 21 =>
              \A k \in (1 .. 8) \ {5} : mem'[o][top - 5 - k] = before.regs[PushalOrder[k]]
         /\ \A r \in Register \ {"esp"} :
              (i \in {20, 21} => r \notin {"eax", "ecx", "edx"}) => regs'[r] = before.regs[r]
<1>1. pc = Asm(i) /\ pc[2] = i
  BY ExecuteIsrIs, Tags
<1>2. Words \in Nat
  BY StackAssumption
<1>3. /\ IsMem(mem) /\ IsRegs(regs)
      /\ regs["esp"] = Addr(o, top - IsrWords(i))
      /\ \A j \in 1 .. Words : j < top - IsrWords(i) => mem[o][j] = Junk
      /\ i \in 19 .. 22 =>
           \A k \in (1 .. 8) \ {5} : mem[o][top - 5 - k] = before.regs[PushalOrder[k]]
      /\ \A r \in Register \ {"esp"} :
           (i \in {21, 22} => r \notin {"eax", "ecx", "edx"}) => regs[r] = before.regs[r]
  BY <1>1 DEF IsrInv
<1>4. \A k \in (1 .. 8) \ {5} : top - 5 - k \in 1 .. Words
  BY <1>2
\* One word is pushed.
<1>5. ASSUME NEW w \in {3, 4, 13}, IsrWords(i) = w, IsrWords(i + 1) = w + 1, NEW e,
             PushWords(<<e>>, regs)
      PROVE  /\ IsMem(mem') /\ IsRegs(regs')
             /\ \A p \in Owner \ {o} : mem'[p] = mem[p]
             /\ regs'["esp"] = Addr(o, top - (w + 1))
             /\ \A j \in 1 .. Words : j < top - (w + 1) => mem'[o][j] = Junk
             /\ \A j \in 1 .. Words : j >= top - w => mem'[o][j] = mem[o][j]
             /\ \A r \in Register \ {"esp"} : regs'[r] = regs[r]
  <2> DEFINE ws == <<e>>
  <2>1. Len(ws) = 1
    OBVIOUS
  <2>2. PushWords(ws, regs)
    BY <1>5
  <2> HIDE DEF ws
  <2>3. top - w \in Int /\ Len(ws) \in Nat /\ regs["esp"] = Addr(o, top - w)
    BY <1>2, <1>3, <1>5, <2>1
  <2>4. /\ IsMem(mem') /\ IsRegs(regs')
        /\ \A p \in Owner \ {o} : mem'[p] = mem[p]
        /\ \A j \in 1 .. Words :
             mem'[o][j] = IF j < top - w /\ top - w - j <= Len(ws) THEN ws[top - w - j]
                          ELSE mem[o][j]
        /\ regs'["esp"] = Addr(o, top - w - Len(ws))
        /\ \A x \in Register \ {"esp"} : regs'[x] = regs[x]
    BY <1>3, <2>2, <2>3, PushEffect
  <2>5. top - w - Len(ws) = top - (w + 1)
    BY <2>1, <1>2
  <2>6. \A j \in 1 .. Words : j < top - (w + 1) => mem'[o][j] = Junk
    BY <1>2, <1>3, <1>5, <2>1, <2>4
  <2>7. \A j \in 1 .. Words : j >= top - w => mem'[o][j] = mem[o][j]
    BY <1>2, <2>1, <2>4
  <2> QED
    BY <2>4, <2>5, <2>6, <2>7
\* k words are dropped.
<1>6. ASSUME NEW w \in {5, 13, 14}, IsrWords(i) = w, NEW k \in {1, 2, 8}, NEW v,
             v = w - k, IsrWords(i + 1) = v, v >= 3, NEW r, IsRegs(r), DropWords(k, r)
      PROVE  /\ IsMem(mem') /\ IsRegs(regs')
             /\ \A p \in Owner \ {o} : mem'[p] = mem[p]
             /\ regs'["esp"] = Addr(o, top - v)
             /\ \A j \in 1 .. Words : j < top - v => mem'[o][j] = Junk
             /\ \A j \in 1 .. Words : j >= top - v => mem'[o][j] = mem[o][j]
             /\ \A x \in Register \ {"esp"} : regs'[x] = r[x]
  <2>1. top - w \in Int /\ k \in Int /\ regs["esp"] = Addr(o, top - w) /\ top - w + k = top - v
    BY <1>2, <1>3, <1>6
  <2>2. /\ IsMem(mem') /\ IsRegs(regs')
        /\ \A p \in Owner \ {o} : mem'[p] = mem[p]
        /\ \A j \in 1 .. Words : mem'[o][j] = IF j < top - w + k THEN Junk ELSE mem[o][j]
        /\ regs'["esp"] = Addr(o, top - w + k)
        /\ \A x \in Register \ {"esp"} : regs'[x] = r[x]
    BY <1>3, <1>6, <2>1, DropEffect
  <2>3. v \in Int
    BY <1>6
  <2> QED
    BY <1>2, <2>1, <2>2, <2>3
<1>7. i = 16 \/ i = 17 \/ i = 18 \/ i = 19 \/ i = 20 \/ i = 21 \/ i = 22 \/ i = 23
  OBVIOUS
<1>8. CASE i \in {16, 17}
  <2>1. PICK w \in {3, 4} : IsrWords(i) = w /\ IsrWords(i + 1) = w + 1
    <3>1. \/ IsrWords(i) = 3 /\ IsrWords(i + 1) = 4
          \/ IsrWords(i) = 4 /\ IsrWords(i + 1) = 5
      BY <1>8, WordsPushed
    <3> QED
      BY <3>1
  <2>2. PushWords(<<Zero>>, regs)
    BY <1>8, ExecuteIsrIs
  <2>3. /\ IsMem(mem') /\ IsRegs(regs')
        /\ \A p \in Owner \ {o} : mem'[p] = mem[p]
        /\ regs'["esp"] = Addr(o, top - (w + 1))
        /\ \A j \in 1 .. Words : j < top - (w + 1) => mem'[o][j] = Junk
        /\ \A j \in 1 .. Words : j >= top - w => mem'[o][j] = mem[o][j]
        /\ \A r \in Register \ {"esp"} : regs'[r] = regs[r]
    BY <1>5, <2>1, <2>2
  <2>4. \A j \in 1 .. Words : j >= top - 3 => j >= top - w
    BY <1>2
  <2>5. \A r \in Register \ {"esp"} : regs[r] = before.regs[r]
    BY <1>3, <1>8
  <2>6. i \notin 18 .. 21
    BY <1>8
  <2> QED
    BY <2>1, <2>3, <2>4, <2>5, <2>6
<1>9. CASE i = 18
  <2> DEFINE ws == [k \in 1 .. 8 |-> regs[PushalOrder[k]]]
  <2>1. Len(ws) = 8 /\ \A k \in 1 .. 8 : ws[k] = regs[PushalOrder[k]]
    <3>1. ws \in Seq({regs[PushalOrder[k]] : k \in 1 .. 8})
      OBVIOUS
    <3>2. Len(ws) \in Nat /\ DOMAIN ws = 1 .. Len(ws) /\ DOMAIN ws = 1 .. 8
      BY <3>1
    <3>3. Len(ws) = 8
      BY <3>2
    <3> QED
      BY <3>3
  <2>2. PushWords(ws, regs)
    BY <1>9, ExecuteIsrIs
  <2> HIDE DEF ws
  <2>3. IsrWords(i) = 5 /\ IsrWords(i + 1) = 13
    BY <1>9, WordsPushed
  <2>4. top - 5 \in Int /\ Len(ws) \in Nat /\ regs["esp"] = Addr(o, top - 5)
    BY <1>2, <1>3, <2>1, <2>3
  <2>5. /\ IsMem(mem') /\ IsRegs(regs')
        /\ \A p \in Owner \ {o} : mem'[p] = mem[p]
        /\ \A j \in 1 .. Words :
             mem'[o][j] = IF j < top - 5 /\ top - 5 - j <= Len(ws) THEN ws[top - 5 - j]
                          ELSE mem[o][j]
        /\ regs'["esp"] = Addr(o, top - 5 - Len(ws))
        /\ \A x \in Register \ {"esp"} : regs'[x] = regs[x]
    BY <1>3, <2>2, <2>4, PushEffect
  <2>6. top - 5 - Len(ws) = top - 13
    BY <1>2, <2>1
  <2>7. \A j \in 1 .. Words : j < top - 13 => mem'[o][j] = Junk
    BY <1>2, <1>3, <2>1, <2>3, <2>5
  <2>8. \A j \in 1 .. Words : j >= top - 3 => mem'[o][j] = mem[o][j]
    BY <1>2, <2>5
  <2>9. \A r \in Register \ {"esp"} : regs[r] = before.regs[r]
    BY <1>3, <1>9
  <2>10. ASSUME NEW k \in (1 .. 8) \ {5}
         PROVE  mem'[o][top - 5 - k] = before.regs[PushalOrder[k]]
    <3>1. top - 5 - k \in 1 .. Words /\ top - 5 - (top - 5 - k) = k /\ top - 5 - k < top - 5
      BY <1>2
    <3>2. mem'[o][top - 5 - k] = regs[PushalOrder[k]]
      BY <2>1, <2>5, <3>1
    <3>3. PushalOrder[k] \in Register \ {"esp"}
      <4>1. k = 1 \/ k = 2 \/ k = 3 \/ k = 4 \/ k = 6 \/ k = 7 \/ k = 8
        OBVIOUS
      <4> QED
        BY <4>1 DEF PushalOrder, Register, CalleeSaved
    <3> QED
      BY <2>9, <3>2, <3>3
  <2> QED
    BY <1>9, <2>3, <2>5, <2>6, <2>7, <2>8, <2>9, <2>10
<1>10. CASE i = 19
  <2>1. IsrWords(i) = 13 /\ IsrWords(i + 1) = 13 + 1
    BY <1>10, WordsPushed
  <2>2. PushWords(<<regs["esp"]>>, regs)
    BY <1>10, ExecuteIsrIs
  <2>3. /\ IsMem(mem') /\ IsRegs(regs')
        /\ \A p \in Owner \ {o} : mem'[p] = mem[p]
        /\ regs'["esp"] = Addr(o, top - (13 + 1))
        /\ \A j \in 1 .. Words : j < top - (13 + 1) => mem'[o][j] = Junk
        /\ \A j \in 1 .. Words : j >= top - 13 => mem'[o][j] = mem[o][j]
        /\ \A r \in Register \ {"esp"} : regs'[r] = regs[r]
    BY <1>5, <2>1, <2>2
  <2>4. \A j \in 1 .. Words : j >= top - 3 => j >= top - 13
    BY <1>2
  <2>5. \A k \in (1 .. 8) \ {5} : top - 5 - k >= top - 13
    BY <1>2
  <2>6. \A k \in (1 .. 8) \ {5} : mem'[o][top - 5 - k] = before.regs[PushalOrder[k]]
    BY <1>3, <1>4, <1>10, <2>3, <2>5
  <2>7. \A r \in Register \ {"esp"} : regs[r] = before.regs[r]
    BY <1>3, <1>10
  <2> QED
    BY <2>1, <2>3, <2>4, <2>6, <2>7
<1>11. CASE i = 20
  <2>1. IsrWords(i) = 14 /\ IsrWords(i + 1) = 14
    BY <1>11, WordsPushed
  <2>2. regs["esp"][2] = o /\ Top = top - 14
    BY <1>3, <2>1, Tags DEF Top
  <2>3. /\ mem' = [mem EXCEPT ![o] =
                     [w \in 1 .. Words |-> IF w < top - 14 THEN Junk ELSE mem[o][w]]]
        /\ regs' = [r \in Register |-> IF r \in {"eax", "ecx", "edx"} THEN Junk ELSE regs[r]]
    BY <1>11, <2>2, ExecuteIsrIs
  <2>4. mem'[o] = [w \in 1 .. Words |-> IF w < top - 14 THEN Junk ELSE mem[o][w]]
    BY <1>3, <2>3 DEF IsMem
  <2>5. \A p \in Owner \ {o} : mem'[p] = mem[p]
    BY <1>3, <2>3 DEF IsMem
  <2>6. IsMem(mem')
    <3>1. mem' = [p \in Owner |-> mem'[p]]
      BY <1>3, <2>3 DEF IsMem
    <3>2. ASSUME NEW p \in Owner
          PROVE  mem'[p] = [w \in 1 .. Words |-> mem'[p][w]]
      <4>1. CASE p = o
        BY <2>4, <4>1
      <4>2. CASE p # o
        <5>1. mem[p] = [w \in 1 .. Words |-> mem[p][w]]
          BY <1>3 DEF IsMem
        <5> QED
          BY <2>5, <4>2, <5>1
      <4> QED
        BY <4>1, <4>2
    <3> QED
      BY <3>1, <3>2 DEF IsMem
  <2>7. IsRegs(regs') /\ \A r \in Register \ {"eax", "ecx", "edx"} : regs'[r] = regs[r]
    BY <2>3 DEF IsRegs
  <2>8. "esp" \in Register \ {"eax", "ecx", "edx"}
    BY DEF Register
  <2>9. /\ \A j \in 1 .. Words : j < top - 14 => mem'[o][j] = Junk
        /\ \A j \in 1 .. Words : j >= top - 14 => mem'[o][j] = mem[o][j]
    BY <1>2, <2>4
  <2>10. \A k \in (1 .. 8) \ {5} : top - 5 - k >= top - 14
    BY <1>2
  <2>11. \A k \in (1 .. 8) \ {5} : mem'[o][top - 5 - k] = before.regs[PushalOrder[k]]
    BY <1>3, <1>4, <1>11, <2>9, <2>10
  <2>12. \A j \in 1 .. Words : j >= top - 3 => j >= top - 14
    BY <1>2
  <2>13. \A r \in Register \ {"esp"} : regs[r] = before.regs[r]
    BY <1>3, <1>11
  <2>14. regs'["esp"] = Addr(o, top - IsrWords(i + 1))
    BY <1>3, <2>1, <2>7, <2>8
  <2>15. \A r \in Register \ {"esp"} :
              r \notin {"eax", "ecx", "edx"} => regs'[r] = before.regs[r]
    BY <2>7, <2>13
  <2> QED
    BY <1>11, <2>1, <2>5, <2>6, <2>7, <2>9, <2>11, <2>12, <2>14, <2>15
<1>12. CASE i = 21
  <2>1. IsrWords(i) = 14 /\ IsrWords(i + 1) = 13 /\ 13 = 14 - 1 /\ 13 >= 3
    BY <1>12, WordsPushed
  <2>2. DropWords(1, regs)
    BY <1>12, ExecuteIsrIs
  <2>3. /\ IsMem(mem') /\ IsRegs(regs')
        /\ \A p \in Owner \ {o} : mem'[p] = mem[p]
        /\ regs'["esp"] = Addr(o, top - 13)
        /\ \A j \in 1 .. Words : j < top - 13 => mem'[o][j] = Junk
        /\ \A j \in 1 .. Words : j >= top - 13 => mem'[o][j] = mem[o][j]
        /\ \A x \in Register \ {"esp"} : regs'[x] = regs[x]
    BY <1>3, <1>6, <2>1, <2>2
  <2>4. \A j \in 1 .. Words : j >= top - 3 => j >= top - 13
    BY <1>2
  <2>5. \A k \in (1 .. 8) \ {5} : top - 5 - k >= top - 13
    BY <1>2
  <2>6. \A k \in (1 .. 8) \ {5} : mem'[o][top - 5 - k] = before.regs[PushalOrder[k]]
    BY <1>3, <1>4, <1>12, <2>3, <2>5
  <2>7. \A r \in Register \ {"esp"} :
              r \notin {"eax", "ecx", "edx"} => regs[r] = before.regs[r]
    BY <1>3, <1>12
  <2> QED
    BY <1>12, <2>1, <2>3, <2>4, <2>6, <2>7
<1>13. CASE i = 22
  <2>1. IsrWords(i) = 13 /\ IsrWords(i + 1) = 5 /\ 5 = 13 - 8 /\ 5 >= 3
    BY <1>13, WordsPushed
  <2> DEFINE r == [x \in Register |->
                     IF x = "esp" THEN regs[x]
                     ELSE Stack[Top + 8 - (CHOOSE k \in 1 .. 8 : PushalOrder[k] = x)]]
  <2>2. DropWords(8, r)
    BY <1>13, ExecuteIsrIs
  <2>3. IsRegs(r)
    BY DEF IsRegs
  <2>4. ASSUME NEW x \in Register \ {"esp"}
        PROVE  r[x] = before.regs[x]
    <3>1. PICK k \in (1 .. 8) \ {5} :
            PushalOrder[k] = x /\ k = CHOOSE k0 \in 1 .. 8 : PushalOrder[k0] = x
      BY PopalFinds
    <3>2. r[x] = Stack[Top + 8 - k]
      BY <3>1
    <3>3. Stack = mem[o] /\ Top = top - 13
      BY <1>3, <2>1, Tags DEF Stack, Top
    <3>4. Top + 8 - k = top - 5 - k
      BY <1>2, <3>3
    <3>5. r[x] = mem[o][top - 5 - k]
      BY <3>2, <3>3, <3>4
    <3> HIDE DEF r
    <3> QED
      BY <1>3, <1>13, <3>1, <3>5
  <2> HIDE DEF r
  <2>5. /\ IsMem(mem') /\ IsRegs(regs')
        /\ \A p \in Owner \ {o} : mem'[p] = mem[p]
        /\ regs'["esp"] = Addr(o, top - 5)
        /\ \A j \in 1 .. Words : j < top - 5 => mem'[o][j] = Junk
        /\ \A j \in 1 .. Words : j >= top - 5 => mem'[o][j] = mem[o][j]
        /\ \A x \in Register \ {"esp"} : regs'[x] = r[x]
    BY <1>6, <2>1, <2>2, <2>3
  <2>6. \A j \in 1 .. Words : j >= top - 3 => j >= top - 5
    BY <1>2
  <2>7. i \notin 18 .. 21
    BY <1>13
  <2> QED
    BY <2>1, <2>4, <2>5, <2>6, <2>7
<1>14. CASE i = 23
  <2>1. IsrWords(i) = 5 /\ IsrWords(i + 1) = 3 /\ 3 = 5 - 2 /\ 3 >= 3
    BY <1>14, WordsPushed
  <2>2. DropWords(2, regs)
    BY <1>14, ExecuteIsrIs
  <2>3. /\ IsMem(mem') /\ IsRegs(regs')
        /\ \A p \in Owner \ {o} : mem'[p] = mem[p]
        /\ regs'["esp"] = Addr(o, top - 3)
        /\ \A j \in 1 .. Words : j < top - 3 => mem'[o][j] = Junk
        /\ \A j \in 1 .. Words : j >= top - 3 => mem'[o][j] = mem[o][j]
        /\ \A x \in Register \ {"esp"} : regs'[x] = regs[x]
    BY <1>3, <1>6, <2>1, <2>2
  <2>4. \A r \in Register \ {"esp"} : regs[r] = before.regs[r]
    BY <1>3, <1>14
  <2>5. i \notin 18 .. 21
    BY <1>14
  <2> QED
    BY <2>1, <2>3, <2>4, <2>5
<1> QED
  BY <1>7, <1>8, <1>9, <1>10, <1>11, <1>12, <1>13, <1>14

\* The handler runs on the interrupted stack and leaves the interrupted code alone.
LEMMA IsrStep ==
  ASSUME IInv, NEW i \in 16 .. 23, ExecuteIsr(i)
  PROVE  IInv' /\ InIsr'
<1>1. /\ pc = Asm(i) /\ pc' = Asm(i + 1) /\ before' = before
      /\ UNCHANGED <<stack_ptr, current, kept>>
  BY ExecuteIsrIs
<1>2. InIsr /\ InIsr' /\ pc'[2] = i + 1
  BY <1>1, Places, Tags
<1>3. PICK o \in Owner, top \in 15 .. Words + 1 : o = Here /\ top = Depth
  BY DEF IInv, CodeInv, StackTypes
<1>4. IsrInv
  BY DEF IInv
<1>5. /\ IsMem(mem') /\ IsRegs(regs')
      /\ \A p \in Owner \ {o} : mem'[p] = mem[p]
      /\ regs'["esp"] = Addr(o, top - IsrWords(i + 1))
      /\ \A j \in 1 .. Words : j < top - IsrWords(i + 1) => mem'[o][j] = Junk
      /\ \A j \in 1 .. Words : j >= top - 3 => mem'[o][j] = mem[o][j]
      /\ i \in 18 .. 21 =>
           \A k \in (1 .. 8) \ {5} : mem'[o][top - 5 - k] = before.regs[PushalOrder[k]]
      /\ \A r \in Register \ {"esp"} :
           (i \in {20, 21} => r \notin {"eax", "ecx", "edx"}) => regs'[r] = before.regs[r]
  BY <1>2, <1>3, <1>4, IsrEffect
<1>6. Pc' = Pc /\ Regs' = Regs
  BY <1>1, <1>2 DEF Pc, Regs
<1>7. regs["esp"][2] = o /\ regs'["esp"][2] = o
  BY <1>2, <1>3, <1>4, <1>5, Tags DEF IsrInv
<1>8. Mem' = Mem
  <2>1. Mem' = [mem' EXCEPT ![o] = before.stack] /\ Mem = [mem EXCEPT ![o] = before.stack]
    BY <1>1, <1>2, <1>7 DEF Mem
  <2>2. mem = [p \in Owner |-> mem[p]] /\ mem' = [p \in Owner |-> mem'[p]]
    BY <1>2, <1>4, <1>5 DEF IsrInv, IsMem
  <2> QED
    BY <1>5, <2>1, <2>2
<1>9. Here' = o /\ Depth' = top
  BY <1>3, <1>6 DEF Here, Depth
<1>10. IsrInv'
  <2>1. \A j \in 1 .. Words : j >= top => j >= top - 3
    BY StackAssumption
  <2>2. top - 3 \in 1 .. Words
    BY StackAssumption
  <2>3. /\ before.stack = [j \in 1 .. Words |-> before.stack[j]]
        /\ \A j \in 1 .. Words : j >= top => mem[o][j] = before.stack[j]
        /\ mem[o][top - 3] = before.pc
    BY <1>2, <1>3, <1>4 DEF IsrInv
  <2>4. pc' \in {Asm(n) : n \in 16 .. 24}
    BY <1>1
  <2>5. /\ pc'[2] \in 19 .. 22 => i \in 18 .. 21
        /\ ~ (pc'[2] \in {21, 22}) => ~ (i \in {20, 21})
    BY <1>2
  <2>6. /\ \A j \in 1 .. Words : j >= top => mem'[o][j] = before'.stack[j]
        /\ mem'[o][top - 3] = before'.pc
        /\ before'.stack = [j \in 1 .. Words |-> before'.stack[j]]
    BY <1>1, <1>5, <2>1, <2>2, <2>3
  <2>7. regs'["esp"] = Addr(Here', Depth' - IsrWords(pc'[2]))
    BY <1>2, <1>5, <1>9
  <2>8. \A j \in 1 .. Words : j < Depth' - IsrWords(pc'[2]) => mem'[Here'][j] = Junk
    BY <1>2, <1>5, <1>9
  <2>9. pc'[2] \in 19 .. 22 =>
          \A k \in (1 .. 8) \ {5} : mem'[o][top - 5 - k] = before'.regs[PushalOrder[k]]
    BY <1>1, <1>5, <2>5
  <2>10. \A r \in Register \ {"esp"} :
           (pc'[2] \in {21, 22} => r \notin {"eax", "ecx", "edx"}) => regs'[r] = before'.regs[r]
    BY <1>1, <1>2, <1>5
  <2> QED
    BY <1>5, <1>9, <2>4, <2>6, <2>7, <2>8, <2>9, <2>10 DEF IsrInv
<1>11. CodeInv'
  BY <1>1, <1>6, <1>8, CodeRests DEF IInv
<1> QED
  BY <1>2, <1>10, <1>11 DEF IInv

\* iret puts back what the interrupt found.
LEMMA IretStep ==
  ASSUME IInv, ExecuteIsr(24)
  PROVE  /\ IInv' /\ ~ InIsr'
         /\ pc' = before.pc /\ regs' = before.regs /\ Stack' = before.stack
<1>1. pc = Asm(24) /\ UNCHANGED <<stack_ptr, current, kept>> /\ pc' = Stack[Top]
      /\ DropWords(3, regs)
  BY ExecuteIsrIs
<1>2. InIsr /\ pc[2] = 24 /\ IsrWords(24) = 3
  BY <1>1, Places, Tags, WordsPushed
<1>3. PICK o \in Owner, top \in 15 .. Words + 1 :
        o = Here /\ top = Depth /\ Regs["esp"] = Addr(o, top) /\ IsRegs(Regs)
  BY DEF IInv, CodeInv, StackTypes
<1>4. Pc = before.pc /\ Regs = before.regs /\ Pc \in CodePlaces
  BY <1>2 DEF Pc, Regs, IInv, CodeInv, StackTypes
<1>5. /\ IsMem(mem) /\ IsRegs(regs)
      /\ before.stack = [j \in 1 .. Words |-> before.stack[j]]
      /\ regs["esp"] = Addr(o, top - 3)
      /\ \A j \in 1 .. Words : j >= top => mem[o][j] = before.stack[j]
      /\ mem[o][top - 3] = before.pc
      /\ \A r \in Register \ {"esp"} : regs[r] = before.regs[r]
  BY <1>2, <1>3 DEF IInv, IsrInv
<1>6. regs["esp"][2] = o /\ Top = top - 3 /\ Stack = mem[o]
  BY <1>5, Tags DEF Top, Stack
<1>7. pc' = before.pc
  BY <1>1, <1>5, <1>6
<1>8. ~ InIsr'
  BY <1>4, <1>7, Places
<1>9. /\ IsMem(mem') /\ IsRegs(regs')
      /\ \A p \in Owner \ {o} : mem'[p] = mem[p]
      /\ \A j \in 1 .. Words : mem'[o][j] = IF j < top - 3 + 3 THEN Junk ELSE mem[o][j]
      /\ regs'["esp"] = Addr(o, top - 3 + 3)
      /\ \A x \in Register \ {"esp"} : regs'[x] = regs[x]
  <2>1. top - 3 \in Int /\ 3 \in Int
    BY StackAssumption
  <2> QED
    BY <1>1, <1>5, <2>1, DropEffect
<1>10. top - 3 + 3 = top
  BY StackAssumption
<1>11. regs' = before.regs
  <2>1. \A x \in Register : regs'[x] = before.regs[x]
    BY <1>3, <1>4, <1>5, <1>9, <1>10
  <2> QED
    BY <1>3, <1>4, <1>9, <2>1 DEF IsRegs
<1>12. mem'[o] = before.stack
  <2>1. Mem[o] = before.stack
    <3>1. Mem = [mem EXCEPT ![o] = before.stack]
      BY <1>2, <1>6 DEF Mem
    <3> QED
      BY <1>5, <3>1 DEF IsMem
  <2>2. \A j \in 1 .. Words : j < top => before.stack[j] = Junk
    BY <1>3, <2>1 DEF IInv, CodeInv, DeadInv
  <2>3. \A j \in 1 .. Words : mem'[o][j] = before.stack[j]
    BY <1>5, <1>9, <1>10, <2>2, StackAssumption
  <2>4. mem'[o] = [j \in 1 .. Words |-> mem'[o][j]]
    BY <1>9 DEF IsMem
  <2> QED
    BY <1>5, <2>3, <2>4
<1>13. Stack' = before.stack
  <2>1. regs'["esp"][2] = o
    BY <1>9, Tags
  <2> QED
    BY <1>12, <2>1 DEF Stack
<1>14. Mem' = Mem
  <2>1. Mem = [mem EXCEPT ![o] = before.stack] /\ Mem' = mem'
    BY <1>2, <1>6, <1>8, Outside DEF Mem
  <2>2. mem = [p \in Owner |-> mem[p]] /\ mem' = [p \in Owner |-> mem'[p]]
    BY <1>5, <1>9 DEF IsMem
  <2> QED
    BY <1>9, <1>12, <2>1, <2>2
<1>15. Pc' = Pc /\ Regs' = Regs
  BY <1>4, <1>7, <1>8, <1>11, Outside
<1>16. CodeInv'
  BY <1>1, <1>14, <1>15, CodeRests DEF IInv
<1> QED
  BY <1>7, <1>8, <1>11, <1>13, <1>16 DEF IInv, IsrInv

-----------------------------------------------------------------------------
(* The instructions of thread_asm.S. *)

\* thread_restore pops the callee-saved registers, and only them.
LEMMA Orders ==
  /\ \A k \in 1 .. 4 : RestoreOrder[k] \in CalleeSaved
  /\ CalleeSaved \subseteq Register \ {"esp", "eax", "ecx"}
  /\ \A r \in CalleeSaved : \E k \in 1 .. 4 : r = RestoreOrder[k]
  /\ {"esp", "eax", "ecx"} \subseteq Register
<1>1. /\ RestoreOrder[1] = "esi" /\ RestoreOrder[2] = "edi"
      /\ RestoreOrder[3] = "ebx" /\ RestoreOrder[4] = "ebp"
  BY DEF RestoreOrder
<1>2. \A k \in 1 .. 4 : k = 1 \/ k = 2 \/ k = 3 \/ k = 4
  OBVIOUS
<1> QED
  BY <1>1, <1>2 DEF CalleeSaved, Register

\* A frame lies within its stack, with room for an interrupt below it.
LEMMA FrameBounds ==
  ASSUME NEW m, NEW s, NEW t, NEW j, GoesOn(m, s, t, j)
  PROVE  j \in 23 .. Words - 7
BY StackAssumption DEF GoesOn

\* Popping words, or writing below a frame, leaves the rest of it alone.
LEMMA FrameRests ==
  ASSUME NEW m, NEW m2, NEW s, NEW t, NEW j, NEW n \in 0 .. 5, NEW n2 \in n .. 5,
         FrameIn(m, s, t, j, n), \A i \in 1 .. Words : i >= j + n2 => m2[i] = m[i]
  PROVE  FrameIn(m2, s, t, j, n2)
<1>1. j \in 23 .. Words - 7 /\ Words \in Nat
  BY FrameBounds, StackAssumption DEF FrameIn
<1>2. GoesOn(m2, s, t, j)
  <2>1. ASSUME j = Words - 7
        PROVE  /\ m2[Words - 2] = m[Words - 2] /\ m2[Words - 1] = m[Words - 1]
               /\ m2[Words] = m[Words]
    <3>1. /\ Words - 2 \in 1 .. Words /\ Words - 2 >= j + n2
          /\ Words - 1 \in 1 .. Words /\ Words - 1 >= j + n2
          /\ Words \in 1 .. Words /\ Words >= j + n2
      BY <1>1, <2>1
    <3> QED
      BY <3>1
  <2> QED
    BY <2>1 DEF FrameIn, GoesOn
<1>3. ASSUME NEW k \in 1 .. 4, k > n2
      PROVE  m2[j + k - 1] = s.saved[RestoreOrder[k]]
  <2>1. j + k - 1 \in 1 .. Words /\ j + k - 1 >= j + n2 /\ k > n
    BY <1>1, <1>3
  <2> QED
    BY <2>1 DEF FrameIn
<1>4. ASSUME n2 < 5
      PROVE  m2[j + 4] = s.from
  <2>1. j + 4 \in 1 .. Words /\ j + 4 >= j + n2 /\ n < 5
    BY <1>1, <1>4
  <2> QED
    BY <2>1 DEF FrameIn
<1> QED
  BY <1>2, <1>3, <1>4 DEF FrameIn

\* Outside interrupts the processor is on one of the stacks.
LEMMA Running ==
  ASSUME IInv, ~ InIsr
  PROVE  /\ Pc = pc /\ Regs = regs /\ Mem = mem /\ CodeInv
         /\ \E o \in Owner, top \in 15 .. Words + 1 :
              /\ o = Here /\ top = Depth /\ regs["esp"] = Addr(o, top)
              /\ Top = top /\ Stack = mem[o]
              /\ IsMem(mem) /\ IsRegs(regs)
              /\ \A i \in 1 .. Words : i < top => mem[o][i] = Junk
<1>1. Pc = pc /\ Regs = regs /\ Mem = mem /\ CodeInv
  BY Outside DEF IInv
<1>2. PICK o \in Owner, top \in 15 .. Words + 1 :
        o = Here /\ top = Depth /\ regs["esp"] = Addr(o, top)
        /\ IsMem(mem) /\ IsRegs(regs)
  BY <1>1 DEF CodeInv, StackTypes
<1>3. Top = top /\ Stack = mem[o]
  BY <1>2, Tags DEF Top, Stack
<1>4. \A i \in 1 .. Words : i < top => mem[o][i] = Junk
  BY <1>1, <1>2 DEF CodeInv, DeadInv
<1> QED
  BY <1>1, <1>2, <1>3, <1>4

\* A step that leaves the processor on some stack, outside interrupts.
LEMMA Lands ==
  ASSUME CodeInv, NEW o \in Owner, NEW top \in 15 .. Words + 1, pc' \in CodePlaces,
         IsMem(mem'), IsRegs(regs'), regs'["esp"] = Addr(o, top),
         current' \in Owner, DOMAIN kept' = Thread, DOMAIN stack_ptr' = Thread,
         \A t \in Thread : stack_ptr'[t] \in Addresses(t) \union {Junk}
  PROVE  /\ StackTypes' /\ IsrInv' /\ ~ InIsr'
         /\ Here' = o /\ Depth' = top /\ Pc' = pc' /\ Regs' = regs' /\ Mem' = mem'
<1>1. ~ InIsr' /\ Pc' = pc' /\ Regs' = regs' /\ Mem' = mem'
  BY Places, Outside
<1>2. Here' = o /\ Depth' = top
  BY <1>1, Tags DEF Here, Depth
<1>3. StackTypes'
  BY <1>1, <1>2 DEF StackTypes
<1> QED
  BY <1>1, <1>2, <1>3 DEF IsrInv

\* A step that changes only the stack the processor is on.
LEMMA ThreadsRest ==
  ASSUME CodeInv, Here' = Here, \A p \in Owner \ {Here} : Mem'[p] = Mem[p],
         UNCHANGED <<stack_ptr, current, kept>>
  PROVE  ThreadsInv'
<1> SUFFICES ASSUME NEW t \in Thread
             PROVE  /\ stack_ptr[t] = Junk => /\ t # Here /\ t # current
                                              /\ \A i \in 1 .. Words : Mem'[t][i] = Junk
                    /\ stack_ptr[t] # Junk /\ t # Here => Suspended(t)'
  BY DEF ThreadsInv
<1>1. t # Here => Mem'[t] = Mem[t]
  BY DEF Owner
<1>2. /\ stack_ptr[t] = Junk => /\ t # Here /\ t # current
                                /\ \A i \in 1 .. Words : Mem[t][i] = Junk
      /\ stack_ptr[t] # Junk /\ t # Here => Suspended(t)
  BY DEF CodeInv, ThreadsInv
<1> QED
  BY <1>1, <1>2 DEF Suspended

\* The processor goes over to the frame of the current thread.
LEMMA SwitchTo ==
  ASSUME CodeInv, ~ InIsr, current \in Thread, Here # current,
         Here \in Thread => Suspended(Here),
         regs' = [regs EXCEPT !["esp"] = stack_ptr[current]],
         UNCHANGED <<mem, stack_ptr, current, kept>>, pc' \in {Asm(2), Asm(11)}
  PROVE  IInv'
<1>1. Pc = pc /\ Regs = regs /\ Mem = mem /\ IsMem(mem) /\ IsRegs(regs)
  BY Outside DEF CodeInv, StackTypes
<1>2. PICK c \in Thread : c = current
  OBVIOUS
<1>3. stack_ptr[c] # Junk /\ Suspended(c)
  BY <1>2 DEF CodeInv, ThreadsInv
<1>4. PICK j : j = stack_ptr[c][3] /\ stack_ptr[c] = Addr(c, j)
               /\ FrameIn(mem[c], kept[c], c, j, 0)
               /\ \A i \in 1 .. Words : i < j => mem[c][i] = Junk
  BY <1>1, <1>3 DEF Suspended
<1>5. j \in 23 .. Words - 7 /\ j \in 15 .. Words + 1
  BY <1>4, FrameBounds, StackAssumption DEF FrameIn
<1>6. regs'["esp"] = Addr(c, j) /\ IsRegs(regs') /\ IsMem(mem')
  BY <1>1, <1>2, <1>4, Orders DEF IsRegs
<1>7. pc' \in CodePlaces
  <2>1. Asm(2) \in CodePlaces /\ Asm(11) \in CodePlaces
    BY DEF CodePlaces
  <2> QED
    BY <2>1
<1>8. /\ StackTypes' /\ IsrInv'
      /\ Here' = c /\ Depth' = j /\ Pc' = pc' /\ Regs' = regs' /\ Mem' = mem'
  <2>1. /\ c \in Owner /\ current' \in Owner /\ DOMAIN kept' = Thread
        /\ DOMAIN stack_ptr' = Thread
        /\ \A t \in Thread : stack_ptr'[t] \in Addresses(t) \union {Junk}
    BY DEF CodeInv, StackTypes, Owner
  <2> QED
    BY <1>5, <1>6, <1>7, <2>1, Lands
<1>9. ThreadsInv'
  <2> SUFFICES ASSUME NEW t \in Thread
               PROVE  /\ stack_ptr[t] = Junk => /\ t # c /\ t # current
                                                /\ \A i \in 1 .. Words : mem[t][i] = Junk
                      /\ stack_ptr[t] # Junk /\ t # c => Suspended(t)'
    BY <1>8 DEF ThreadsInv
  <2>1. /\ stack_ptr[t] = Junk => /\ t # Here /\ t # current
                                  /\ \A i \in 1 .. Words : mem[t][i] = Junk
        /\ stack_ptr[t] # Junk => Suspended(t)
    BY <1>1 DEF CodeInv, ThreadsInv
  <2>2. Suspended(t) => Suspended(t)'
    BY <1>1, <1>8 DEF Suspended
  <2> QED
    BY <1>2, <2>1, <2>2
<1>10. DeadInv'
  BY <1>4, <1>8 DEF DeadInv
<1>11. Restoring(0)'
  <2>1. j - 0 = j
    BY <1>5
  <2>2. FrameIn(Mem'[current'], kept'[current'], current', Depth' - 0, 0)
    BY <1>2, <1>4, <1>8, <2>1
  <2>3. \A k \in 1 .. 4 : ~ (k <= 0)
    OBVIOUS
  <2> QED
    BY <1>2, <1>8, <2>2, <2>3 DEF Restoring
<1>12. PhaseInv'
  <2>1. CASE pc' = Asm(2)
    BY <1>8, <1>11, <2>1, Tags DEF PhaseInv
  <2>2. CASE pc' = Asm(11)
    BY <1>8, <1>11, <2>2, Tags DEF PhaseInv
  <2> QED
    BY <2>1, <2>2
<1> QED
  BY <1>8, <1>9, <1>10, <1>12 DEF IInv, CodeInv

\* mov 4(%esp), %esp and jmp thread_restore.
LEMMA LoadFirstStep ==
  ASSUME IInv, NEW i \in 1 .. 2, Execute(i)
  PROVE  IInv'
<1>1. pc = Asm(i) /\ UNCHANGED <<before, current, kept>>
  BY ExecuteIs
<1>2. ~ InIsr
  BY <1>1, Places DEF CodePlaces
<1>3. Pc = pc /\ Regs = regs /\ Mem = mem /\ CodeInv
  BY <1>2, Running
<1>4. PICK o \in Owner, top \in 15 .. Words + 1 :
              /\ o = Here /\ top = Depth /\ regs["esp"] = Addr(o, top)
              /\ Top = top /\ Stack = mem[o]
              /\ IsMem(mem) /\ IsRegs(regs)
              /\ \A n \in 1 .. Words : n < top => mem[o][n] = Junk
  BY <1>2, Running
<1>5. CASE i = 1
  <2>1. /\ current \in Thread /\ Here = Boot /\ Depth = Words - 1
        /\ mem[Boot][Words] = stack_ptr[current]
    BY <1>1, <1>3, <1>5 DEF CodeInv, PhaseInv
  <2>2. Top + 1 = Words
    BY <1>4, <2>1, StackAssumption
  <2>3. regs' = [regs EXCEPT !["esp"] = stack_ptr[current]] /\ pc' = Asm(2)
        /\ UNCHANGED <<mem, stack_ptr, current, kept>>
    BY <1>4, <1>5, <2>1, <2>2, ExecuteIs
  <2>4. Here # current /\ ~ (Here \in Thread)
    BY <2>1, StackAssumption
  <2> QED
    BY <1>2, <1>3, <2>1, <2>3, <2>4, SwitchTo
<1>6. CASE i = 2
  <2>1. pc' = Asm(11) /\ UNCHANGED <<mem, regs, stack_ptr, current, kept>>
    BY <1>6, ExecuteIs
  <2>2. pc' \in CodePlaces
    BY <2>1 DEF CodePlaces
  <2>3. /\ current' \in Owner /\ DOMAIN kept' = Thread /\ DOMAIN stack_ptr' = Thread
        /\ \A t \in Thread : stack_ptr'[t] \in Addresses(t) \union {Junk}
    BY <1>3, <2>1 DEF CodeInv, StackTypes
  <2>4. /\ StackTypes' /\ IsrInv'
        /\ Here' = o /\ Depth' = top /\ Pc' = pc' /\ Regs' = regs' /\ Mem' = mem'
    BY <1>3, <1>4, <2>1, <2>2, <2>3, Lands
  <2>5. ThreadsInv'
    BY <1>3, <1>4, <2>1, <2>4, ThreadsRest
  <2>6. DeadInv'
    BY <1>4, <2>1, <2>4 DEF DeadInv
  <2>7. Restoring(0)'
    <3>1. Restoring(0)
      BY <1>1, <1>3, <1>6 DEF CodeInv, PhaseInv
    <3> QED
      BY <1>3, <1>4, <2>1, <2>4, <3>1 DEF Restoring
  <2>8. PhaseInv'
    BY <2>1, <2>4, <2>7, Tags DEF PhaseInv
  <2> QED
    BY <2>4, <2>5, <2>6, <2>8 DEF IInv, CodeInv
<1> QED
  BY <1>5, <1>6

\* What a step of thread_context_switch_asm up to the switch keeps.
LEMMA SavingStep ==
  ASSUME IInv, ~ InIsr, NEW n \in 0 .. 4, Saving(n), NEW n2 \in {n, n + 1}, n2 <= 4,
         NEW d \in Int, d = Depth + n - n2,
         IsMem(mem'), IsRegs(regs'), \A p \in Owner \ {Here} : mem'[p] = mem[p],
         \A i \in 1 .. Words : i < d => mem'[Here][i] = Junk,
         \A i \in 1 .. Words : i >= Depth => mem'[Here][i] = mem[Here][i],
         n2 > n => mem'[Here][d] = regs[RestoreOrder[4 - n]],
         regs'["esp"] = Addr(Here, d), \A r \in CalleeSaved : regs'[r] = regs[r],
         UNCHANGED <<stack_ptr, current, kept>>, pc' \in {Asm(i) : i \in 4 .. 9}
  PROVE  /\ StackTypes' /\ IsrInv' /\ ThreadsInv' /\ DeadInv' /\ Saving(n2)'
         /\ Here' = Here /\ Pc' = pc' /\ Regs' = regs'
<1>1. Pc = pc /\ Regs = regs /\ Mem = mem /\ CodeInv
  BY Running
<1>2. PICK o \in Owner, top \in 15 .. Words + 1 :
              /\ o = Here /\ top = Depth /\ regs["esp"] = Addr(o, top)
              /\ Top = top /\ Stack = mem[o]
              /\ IsMem(mem) /\ IsRegs(regs)
              /\ \A i \in 1 .. Words : i < top => mem[o][i] = Junk
  BY Running
<1>3. /\ o \in Thread /\ o # current /\ current \in Thread
      /\ FrameIn(mem[o], kept[o], o, top + n - 4, 4 - n) /\ kept[o].from = Returned
      /\ \A r \in CalleeSaved : regs[r] = kept[o].saved[r]
      /\ mem[o][top + n + 1] = <<"field", o>>
      /\ mem[o][top + n + 2] = stack_ptr[current]
  BY <1>1, <1>2 DEF Saving
<1>4. Words \in Nat
  BY StackAssumption
<1>5. PICK j \in 23 .. Words - 7 : j = top + n - 4
  BY <1>3, FrameBounds DEF FrameIn
<1>6. d = j + 4 - n2 /\ d \in 15 .. Words + 1
  BY <1>2, <1>4, <1>5
<1>7. pc' \in CodePlaces
  BY DEF CodePlaces
<1>8. /\ StackTypes' /\ IsrInv'
      /\ Here' = o /\ Depth' = d /\ Pc' = pc' /\ Regs' = regs' /\ Mem' = mem'
  <2>1. /\ current' \in Owner /\ DOMAIN kept' = Thread /\ DOMAIN stack_ptr' = Thread
        /\ \A t \in Thread : stack_ptr'[t] \in Addresses(t) \union {Junk}
    BY <1>1 DEF CodeInv, StackTypes
  <2> QED
    BY <1>1, <1>2, <1>6, <1>7, <2>1, Lands
<1>9. ThreadsInv'
  BY <1>1, <1>2, <1>8, ThreadsRest
<1>10. DeadInv'
  BY <1>2, <1>8 DEF DeadInv
<1>11. FrameIn(mem'[o], kept[o], o, j, 4 - n2)
  <2> DEFINE m == mem'[o]
  <2>1. PICK q \in 0 .. 4 : q = 4 - n
    OBVIOUS
  <2>2. FrameIn(m, kept[o], o, j, q)
    <3>1. \A i \in 1 .. Words : i >= j + q => m[i] = mem[o][i]
      BY <1>2, <1>4, <1>5, <2>1
    <3>2. q \in 0 .. 5 /\ q \in q .. 5
      OBVIOUS
    <3>3. FrameIn(mem[o], kept[o], o, j, q)
      BY <1>3, <1>5, <2>1
    <3> HIDE DEF m
    <3> QED
      BY <3>1, <3>2, <3>3, FrameRests
  <2>3. CASE n2 = n
    BY <2>1, <2>2, <2>3
  <2>4. CASE n2 = n + 1
    <3>1. FrameIn(mem'[o], kept[o], o, j, 4 - n)
      BY <2>1, <2>2
    <3>2. mem'[o][j + (4 - n) - 1] = kept[o].saved[RestoreOrder[4 - n]]
      <4>1. 4 - n \in 1 .. 4 /\ d = j + (4 - n) - 1
        BY <1>6, <2>4
      <4>2. RestoreOrder[4 - n] \in CalleeSaved
        BY <4>1, Orders
      <4>3. mem'[o][d] = regs[RestoreOrder[4 - n]]
        BY <1>2, <2>4
      <4> QED
        BY <1>3, <4>1, <4>2, <4>3
    <3>3. \A k \in 1 .. 4 : k > 4 - n2 => k > 4 - n \/ k = 4 - n
      BY <2>4
    <3>4. 4 - n < 5 /\ 4 - n2 < 5
      OBVIOUS
    <3>5. /\ GoesOn(mem'[o], kept[o], o, j)
          /\ \A k \in 1 .. 4 : k > 4 - n => mem'[o][j + k - 1] = kept[o].saved[RestoreOrder[k]]
          /\ mem'[o][j + 4] = kept[o].from
      BY <3>1, <3>4 DEF FrameIn
    <3>6. \A k \in 1 .. 4 : k > 4 - n2 => mem'[o][j + k - 1] = kept[o].saved[RestoreOrder[k]]
      BY <3>2, <3>3, <3>5
    <3> QED
      BY <3>5, <3>6 DEF FrameIn
  <2> QED
    BY <2>3, <2>4
<1>12. Saving(n2)'
  <2>1. /\ top + n + 1 \in 1 .. Words /\ top + n + 1 >= top
        /\ top + n + 2 \in 1 .. Words /\ top + n + 2 >= top
    BY <1>4, <1>5
  <2>2. d + n2 + 1 = top + n + 1 /\ d + n2 + 2 = top + n + 2 /\ d + n2 - 4 = j
    BY <1>2, <1>5, <1>6
  <2>3. mem'[o][d + n2 + 1] = <<"field", o>> /\ mem'[o][d + n2 + 2] = stack_ptr[current]
    BY <1>2, <1>3, <2>1, <2>2
  <2>4. FrameIn(Mem'[Here'], kept'[Here'], Here', Depth' + n2 - 4, 4 - n2)
    BY <1>8, <1>11, <2>2
  <2> QED
    BY <1>3, <1>8, <2>3, <2>4 DEF Saving
<1> QED
  BY <1>2, <1>8, <1>9, <1>10, <1>12

\* The loads of thread_context_switch_asm's arguments.
LEMMA ArgumentsStep ==
  ASSUME IInv, NEW i \in 3 .. 4, Execute(i)
  PROVE  IInv'
<1>1. pc = Asm(i) /\ UNCHANGED <<before, current, kept>>
  BY ExecuteIs
<1>2. ~ InIsr
  BY <1>1, Places DEF CodePlaces
<1>3. Pc = pc /\ Regs = regs /\ Mem = mem /\ CodeInv
  BY <1>2, Running
<1>4. PICK o \in Owner, top \in 15 .. Words + 1 :
              /\ o = Here /\ top = Depth /\ regs["esp"] = Addr(o, top)
              /\ Top = top /\ Stack = mem[o]
              /\ IsMem(mem) /\ IsRegs(regs)
              /\ \A n \in 1 .. Words : n < top => mem[o][n] = Junk
  BY <1>2, Running
<1>5. Saving(0)
  BY <1>1, <1>3, Tags DEF CodeInv, PhaseInv
<1>6. mem[o][top + 1] = <<"field", o>> /\ mem[o][top + 2] = stack_ptr[current]
  <2>1. top + 0 + 1 = top + 1 /\ top + 0 + 2 = top + 2
    BY StackAssumption
  <2> QED
    BY <1>3, <1>4, <1>5, <2>1 DEF Saving
<1>7. /\ i = 3 => regs' = [regs EXCEPT !["ecx"] = stack_ptr[current]]
      /\ i = 4 => regs' = [regs EXCEPT !["eax"] = <<"field", o>>]
      /\ pc' = Asm(i + 1) /\ UNCHANGED <<mem, stack_ptr>>
  <2>1. i = 3 \/ i = 4
    OBVIOUS
  <2>2. CASE i = 3
    BY <1>4, <1>6, <2>2, ExecuteIs
  <2>3. CASE i = 4
    BY <1>4, <1>6, <2>3, ExecuteIs
  <2> QED
    BY <2>1, <2>2, <2>3
<1>8. /\ IsRegs(regs') /\ regs'["esp"] = Addr(Here, Depth)
      /\ \A r \in CalleeSaved : regs'[r] = regs[r]
      /\ i = 3 => regs'["ecx"] = stack_ptr[current]
      /\ i = 4 => regs'["eax"] = <<"field", o>> /\ regs'["ecx"] = regs["ecx"]
  <2>1. i = 3 \/ i = 4
    OBVIOUS
  <2>2. CASE i = 3
    BY <1>4, <1>7, <2>2, Orders DEF IsRegs
  <2>3. CASE i = 4
    BY <1>4, <1>7, <2>3, Orders DEF IsRegs
  <2> QED
    BY <2>1, <2>2, <2>3
<1>9. /\ StackTypes' /\ IsrInv' /\ ThreadsInv' /\ DeadInv' /\ Saving(0)'
      /\ Here' = Here /\ Pc' = pc' /\ Regs' = regs'
  <2> DEFINE n == 0
  <2>1. /\ n \in 0 .. 4 /\ n \in {n, n + 1} /\ n <= 4 /\ Depth \in Int /\ Depth = Depth + n - n
        /\ ~ (n > n)
    BY <1>4, StackAssumption
  <2>2. Saving(n)
    BY <1>5
  <2>3. pc' \in {Asm(k) : k \in 4 .. 9}
    BY <1>7
  <2>4. /\ IsMem(mem') /\ \A p \in Owner \ {Here} : mem'[p] = mem[p]
        /\ \A k \in 1 .. Words : k < Depth => mem'[Here][k] = Junk
        /\ \A k \in 1 .. Words : k >= Depth => mem'[Here][k] = mem[Here][k]
        /\ UNCHANGED <<stack_ptr, current, kept>>
    BY <1>1, <1>4, <1>7
  <2> HIDE DEF n
  <2>5. /\ StackTypes' /\ IsrInv' /\ ThreadsInv' /\ DeadInv' /\ Saving(n)'
        /\ Here' = Here /\ Pc' = pc' /\ Regs' = regs'
    BY <1>2, <1>8, <2>1, <2>2, <2>3, <2>4, SavingStep
  <2> QED
    BY <2>5 DEF n
<1>10. PhaseInv'
  <2>1. CASE i = 3
    <3>1. Pc' = Asm(4)
      BY <1>7, <1>9, <2>1
    <3> QED
      BY <1>1, <1>7, <1>8, <1>9, <2>1, <3>1, Tags DEF PhaseInv
  <2>2. CASE i = 4
    <3>1. Pc' = Asm(5)
      BY <1>7, <1>9, <2>2
    <3>2. regs["ecx"] = stack_ptr[current]
      BY <1>1, <1>3, <2>2 DEF CodeInv, PhaseInv
    <3>3. \A m \in 0 .. 4 : Pc' = Asm(5 + m) => m = 0
      BY <3>1, Tags
    <3> QED
      BY <1>1, <1>4, <1>7, <1>8, <1>9, <2>2, <3>1, <3>2, <3>3, Tags DEF PhaseInv
  <2> QED
    BY <2>1, <2>2
<1> QED
  BY <1>9, <1>10 DEF IInv, CodeInv

\* The registers are pushed.
LEMMA SaveStep ==
  ASSUME IInv, NEW n \in 0 .. 3, Execute(5 + n)
  PROVE  IInv'
<1>1. PICK i \in 5 .. 8 : i = 5 + n
  OBVIOUS
<1>2. /\ pc = Asm(i) /\ UNCHANGED <<before, current, kept, stack_ptr>>
      /\ PushWords(<<regs[RestoreOrder[4 - n]]>>, regs) /\ pc' = Asm(i + 1)
  <2>1. i \in 1 .. 15 /\ Execute(i)
    BY <1>1
  <2> QED
    BY <1>1, <2>1, ExecuteIs
<1>3. ~ InIsr
  BY <1>2, Places DEF CodePlaces
<1>4. Pc = pc /\ Regs = regs /\ Mem = mem /\ CodeInv
  BY <1>3, Running
<1>5. PICK o \in Owner, top \in 15 .. Words + 1 :
              /\ o = Here /\ top = Depth /\ regs["esp"] = Addr(o, top)
              /\ Top = top /\ Stack = mem[o]
              /\ IsMem(mem) /\ IsRegs(regs)
              /\ \A k \in 1 .. Words : k < top => mem[o][k] = Junk
  BY <1>3, Running
<1>6. Saving(n) /\ regs["ecx"] = stack_ptr[current] /\ regs["eax"] = <<"field", o>>
  BY <1>1, <1>2, <1>4, <1>5 DEF CodeInv, PhaseInv
<1> DEFINE ws == <<regs[RestoreOrder[4 - n]]>>
<1>7. Len(ws) = 1 /\ ws[1] = regs[RestoreOrder[4 - n]] /\ PushWords(ws, regs)
  BY <1>2
<1> HIDE DEF ws
<1>8. top \in Int /\ Len(ws) \in Nat
  BY <1>7, StackAssumption
<1>9. /\ IsMem(mem') /\ IsRegs(regs')
      /\ \A p \in Owner \ {o} : mem'[p] = mem[p]
      /\ \A k \in 1 .. Words :
           mem'[o][k] = IF k < top /\ top - k <= Len(ws) THEN ws[top - k] ELSE mem[o][k]
      /\ regs'["esp"] = Addr(o, top - Len(ws))
      /\ \A x \in Register \ {"esp"} : regs'[x] = regs[x]
  <2>1. IsMem(mem) /\ IsRegs(regs) /\ regs["esp"] = Addr(o, top) /\ PushWords(ws, regs)
    BY <1>5, <1>7
  <2> QED
    BY <1>8, <2>1, PushEffect
<1>10. top - 1 \in 1 .. Words /\ top - (top - 1) = 1 /\ top - 1 < top
  BY StackAssumption
<1>11. /\ \A k \in 1 .. Words : k < top - 1 => mem'[o][k] = Junk
       /\ \A k \in 1 .. Words : k >= top => mem'[o][k] = mem[o][k]
       /\ mem'[o][top - 1] = regs[RestoreOrder[4 - n]]
  BY <1>5, <1>7, <1>9, <1>10, StackAssumption
<1>12. /\ StackTypes' /\ IsrInv' /\ ThreadsInv' /\ DeadInv' /\ Saving(n + 1)'
       /\ Here' = Here /\ Pc' = pc' /\ Regs' = regs'
  <2> DEFINE n2 == n + 1
             d == top - 1
  <2>1. /\ n \in 0 .. 4 /\ n2 \in {n, n + 1} /\ n2 <= 4 /\ d \in Int
        /\ d = Depth + n - n2
    BY <1>5, StackAssumption
  <2>2. pc' \in {Asm(k) : k \in 4 .. 9}
    BY <1>2
  <2>3. /\ \A k \in 1 .. Words : k < d => mem'[Here][k] = Junk
        /\ \A k \in 1 .. Words : k >= Depth => mem'[Here][k] = mem[Here][k]
        /\ mem'[Here][d] = regs[RestoreOrder[4 - n]]
    BY <1>5, <1>11
  <2>4. /\ regs'["esp"] = Addr(Here, d) /\ \A r \in CalleeSaved : regs'[r] = regs[r]
        /\ \A p \in Owner \ {Here} : mem'[p] = mem[p]
    BY <1>5, <1>7, <1>9, Orders
  <2> HIDE DEF n2, d
  <2>5. /\ StackTypes' /\ IsrInv' /\ ThreadsInv' /\ DeadInv' /\ Saving(n2)'
        /\ Here' = Here /\ Pc' = pc' /\ Regs' = regs'
    <3>1. /\ Saving(n) /\ IsMem(mem') /\ IsRegs(regs')
          /\ UNCHANGED <<stack_ptr, current, kept>>
      BY <1>2, <1>6, <1>9
    <3>2. n2 > n => mem'[Here][d] = regs[RestoreOrder[4 - n]]
      BY <2>3
    <3> QED
      BY <1>3, <2>1, <2>2, <2>3, <2>4, <3>1, <3>2, SavingStep
  <2> QED
    BY <2>5 DEF n2
<1>13. regs'["ecx"] = stack_ptr'[current'] /\ regs'["eax"] = <<"field", Here'>>
  BY <1>2, <1>5, <1>6, <1>9, <1>12, Orders
<1>14. PhaseInv'
  <2>1. Pc' = Asm(6 + n)
    <3>1. i + 1 = 6 + n
      BY <1>1
    <3> QED
      BY <1>2, <1>12, <3>1
  <2>2. \A m \in 0 .. 4 : Pc' = Asm(5 + m) => m = n + 1
    BY <2>1, Tags
  <2>3. \A m \in 0 .. 4 : Pc' = Asm(5 + m) => Saving(m)'
    BY <1>12, <2>2
  <2>4. /\ Pc' # Asm(1) /\ Pc' # Asm(2) /\ Pc' # Asm(3) /\ Pc' # Asm(4) /\ Pc' # Asm(10)
        /\ Pc' # InC /\ Pc' # ThreadMain /\ Pc' # Returned
        /\ \A m \in 0 .. 4 : Pc' # Asm(11 + m)
    BY <2>1, Tags
  <2> QED
    BY <1>12, <1>13, <2>3, <2>4 DEF PhaseInv
<1> QED
  BY <1>12, <1>14 DEF IInv, CodeInv

\* mov %esp, (%eax): the thread that is left has all its frame, and now its stack pointer.
LEMMA StorePointerStep ==
  ASSUME IInv, Execute(9)
  PROVE  IInv'
<1>1. /\ pc = Asm(9) /\ UNCHANGED <<before, current, kept>>
      /\ stack_ptr' = [stack_ptr EXCEPT ![regs["eax"][2]] = regs["esp"]]
      /\ pc' = Asm(10) /\ UNCHANGED <<mem, regs>>
  BY ExecuteIs
<1>2. ~ InIsr
  BY <1>1, Places DEF CodePlaces
<1>3. Pc = pc /\ Regs = regs /\ Mem = mem /\ CodeInv
  BY <1>2, Running
<1>4. PICK o \in Owner, top \in 15 .. Words + 1 :
              /\ o = Here /\ top = Depth /\ regs["esp"] = Addr(o, top)
              /\ Top = top /\ Stack = mem[o]
              /\ IsMem(mem) /\ IsRegs(regs)
              /\ \A k \in 1 .. Words : k < top => mem[o][k] = Junk
  BY <1>2, Running
<1>5. Saving(4) /\ regs["ecx"] = stack_ptr[current] /\ regs["eax"] = <<"field", o>>
  <2>1. pc = Asm(5 + 4)
    BY <1>1
  <2> QED
    BY <1>1, <1>3, <1>4, <2>1 DEF CodeInv, PhaseInv
<1>6. o \in Thread /\ o # current /\ current \in Thread
  BY <1>4, <1>5 DEF Saving
<1>7. /\ stack_ptr'[o] = Addr(o, top)
      /\ \A t \in Thread \ {o} : stack_ptr'[t] = stack_ptr[t]
      /\ DOMAIN stack_ptr' = Thread
  <2>1. regs["eax"][2] = o
    BY <1>5, Tags
  <2> QED
    BY <1>1, <1>3, <1>4, <1>6, <2>1 DEF CodeInv, StackTypes
<1>8. /\ StackTypes' /\ IsrInv'
      /\ Here' = o /\ Depth' = top /\ Pc' = pc' /\ Regs' = regs' /\ Mem' = mem'
  <2>1. pc' \in CodePlaces
    BY <1>1 DEF CodePlaces
  <2>2. Addr(o, top) \in Addresses(o)
    BY StackAssumption DEF Addresses
  <2>3. /\ current' \in Owner /\ DOMAIN kept' = Thread
        /\ \A t \in Thread : stack_ptr'[t] \in Addresses(t) \union {Junk}
    BY <1>1, <1>3, <1>7, <2>2 DEF CodeInv, StackTypes
  <2> QED
    BY <1>1, <1>3, <1>4, <1>7, <2>1, <2>3, Lands
<1>9. ThreadsInv'
  <2> SUFFICES ASSUME NEW t \in Thread
               PROVE  /\ stack_ptr'[t] = Junk => /\ t # o /\ t # current
                                                 /\ \A i \in 1 .. Words : mem[t][i] = Junk
                      /\ stack_ptr'[t] # Junk /\ t # o => Suspended(t)'
    BY <1>1, <1>8 DEF ThreadsInv
  <2>1. /\ stack_ptr[t] = Junk => /\ t # o /\ t # current
                                  /\ \A i \in 1 .. Words : mem[t][i] = Junk
        /\ stack_ptr[t] # Junk /\ t # o => Suspended(t)
    BY <1>3, <1>4 DEF CodeInv, ThreadsInv
  <2>2. CASE t = o
    BY <1>7, <2>2, Tags
  <2>3. CASE t # o
    <3>1. stack_ptr'[t] = stack_ptr[t]
      BY <1>7, <2>3
    <3> QED
      BY <1>1, <1>3, <1>8, <2>1, <2>3, <3>1 DEF Suspended
  <2> QED
    BY <2>2, <2>3
<1>10. DeadInv'
  BY <1>1, <1>4, <1>8 DEF DeadInv
<1>11. Saving(4)'
  <2>1. stack_ptr'[current'] = stack_ptr[current]
    BY <1>1, <1>6, <1>7
  <2> QED
    BY <1>1, <1>3, <1>4, <1>5, <1>8, <2>1 DEF Saving
<1>12. PhaseInv'
  <2>1. Pc' = Asm(10)
    BY <1>1, <1>8
  <2>2. /\ Pc' # Asm(1) /\ Pc' # Asm(2) /\ Pc' # Asm(3) /\ Pc' # Asm(4)
        /\ Pc' # InC /\ Pc' # ThreadMain /\ Pc' # Returned
        /\ \A m \in 0 .. 4 : Pc' # Asm(5 + m) /\ Pc' # Asm(11 + m)
    BY <2>1, Tags
  <2>3. /\ stack_ptr'[Here'] = Regs'["esp"] /\ Regs'["eax"] = <<"field", Here'>>
        /\ Regs'["ecx"] = stack_ptr'[current']
    BY <1>1, <1>4, <1>5, <1>6, <1>7, <1>8
  <2> QED
    BY <1>11, <2>2, <2>3 DEF PhaseInv
<1> QED
  BY <1>8, <1>9, <1>10, <1>12 DEF IInv, CodeInv

\* mov %ecx, %esp: over to the next thread.
LEMMA SwitchStep ==
  ASSUME IInv, Execute(10)
  PROVE  IInv'
<1>1. /\ pc = Asm(10) /\ regs' = [regs EXCEPT !["esp"] = regs["ecx"]] /\ pc' = Asm(11)
      /\ UNCHANGED <<mem, stack_ptr, current, kept>>
  BY ExecuteIs
<1>2. ~ InIsr
  BY <1>1, Places DEF CodePlaces
<1>3. Pc = pc /\ Regs = regs /\ Mem = mem /\ CodeInv
  BY <1>2, Running
<1>4. PICK o \in Owner, top \in 15 .. Words + 1 :
              /\ o = Here /\ top = Depth /\ regs["esp"] = Addr(o, top)
              /\ Top = top /\ Stack = mem[o]
              /\ IsMem(mem) /\ IsRegs(regs)
              /\ \A k \in 1 .. Words : k < top => mem[o][k] = Junk
  BY <1>2, Running
<1>5. Saving(4) /\ stack_ptr[o] = regs["esp"] /\ regs["ecx"] = stack_ptr[current]
  BY <1>1, <1>3, <1>4, Tags DEF CodeInv, PhaseInv
<1>6. current \in Thread /\ Here # current
  BY <1>5 DEF Saving
<1>7. Suspended(Here)
  <2>1. stack_ptr[o] = Addr(o, top) /\ stack_ptr[o][3] = top
    BY <1>4, <1>5, Tags
  <2>2. top + 4 - 4 = top /\ 4 - 4 = 0
    BY StackAssumption
  <2>3. FrameIn(mem[o], kept[o], o, top, 0)
    BY <1>3, <1>4, <1>5, <2>2 DEF Saving
  <2> QED
    BY <1>3, <1>4, <2>1, <2>3 DEF Suspended
<1>8. regs' = [regs EXCEPT !["esp"] = stack_ptr[current]]
  BY <1>1, <1>5
<1> QED
  BY <1>1, <1>2, <1>3, <1>6, <1>7, <1>8, SwitchTo

-----------------------------------------------------------------------------
(* thread_restore. *)

\* A word of the current thread's frame is popped, the last being where it goes on.
LEMMA PopEffect ==
  ASSUME IInv, ~ InIsr, NEW n \in 0 .. 4, Restoring(n), NEW r, IsRegs(r), DropWords(1, r),
         UNCHANGED <<stack_ptr, current, kept>>, pc' \in CodePlaces
  PROVE  /\ StackTypes' /\ IsrInv' /\ ThreadsInv' /\ DeadInv'
         /\ FrameIn(Mem'[current'], kept'[current'], current', Depth' - (n + 1), n + 1)
         /\ Here' = current' /\ Pc' = pc' /\ current' \in Thread
         /\ \A x \in Register \ {"esp"} : Regs'[x] = r[x]
<1>1. Pc = pc /\ Regs = regs /\ Mem = mem /\ CodeInv
  BY Running
<1>2. PICK o \in Owner, top \in 15 .. Words + 1 :
              /\ o = Here /\ top = Depth /\ regs["esp"] = Addr(o, top)
              /\ Top = top /\ Stack = mem[o]
              /\ IsMem(mem) /\ IsRegs(regs)
              /\ \A k \in 1 .. Words : k < top => mem[o][k] = Junk
  BY Running
<1>3. o = current /\ o \in Thread /\ FrameIn(mem[o], kept[o], o, top - n, n)
  BY <1>1, <1>2 DEF Restoring
<1>4. PICK j \in 23 .. Words - 7 : j = top - n
  BY <1>3, FrameBounds DEF FrameIn
<1>5. PICK d \in 15 .. Words + 1 : d = top + 1 /\ d = j + (n + 1) /\ d - (n + 1) = j
  BY <1>4, StackAssumption
<1>6. /\ IsMem(mem') /\ IsRegs(regs')
      /\ \A p \in Owner \ {o} : mem'[p] = mem[p]
      /\ \A k \in 1 .. Words : mem'[o][k] = IF k < top + 1 THEN Junk ELSE mem[o][k]
      /\ regs'["esp"] = Addr(o, top + 1)
      /\ \A x \in Register \ {"esp"} : regs'[x] = r[x]
  <2>1. top \in Int /\ 1 \in Int
    BY StackAssumption
  <2> QED
    BY <1>2, <2>1, DropEffect
<1>7. /\ StackTypes' /\ IsrInv'
      /\ Here' = o /\ Depth' = d /\ Pc' = pc' /\ Regs' = regs' /\ Mem' = mem'
  <2>1. /\ current' \in Owner /\ DOMAIN kept' = Thread /\ DOMAIN stack_ptr' = Thread
        /\ \A t \in Thread : stack_ptr'[t] \in Addresses(t) \union {Junk}
    BY <1>1 DEF CodeInv, StackTypes
  <2> QED
    BY <1>1, <1>5, <1>6, <2>1, Lands
<1>8. ThreadsInv'
  BY <1>1, <1>2, <1>6, <1>7, ThreadsRest
<1>9. DeadInv'
  BY <1>5, <1>6, <1>7 DEF DeadInv
<1>10. FrameIn(mem'[o], kept[o], o, j, n + 1)
  <2> DEFINE m == mem'[o]
  <2>1. PICK n2 \in 1 .. 5 : n2 = n + 1
    OBVIOUS
  <2>2. \A k \in 1 .. Words : k >= j + n2 => m[k] = mem[o][k]
    BY <1>4, <1>5, <1>6, <2>1, StackAssumption
  <2>3. n \in 0 .. 5 /\ n2 \in n .. 5 /\ FrameIn(mem[o], kept[o], o, j, n)
    BY <1>3, <1>4, <2>1
  <2> HIDE DEF m
  <2>4. FrameIn(m, kept[o], o, j, n2)
    BY <2>2, <2>3, FrameRests
  <2> QED
    BY <2>1, <2>4 DEF m
<1>11. FrameIn(Mem'[current'], kept'[current'], current', Depth' - (n + 1), n + 1)
  BY <1>3, <1>5, <1>7, <1>10
<1> QED
  BY <1>3, <1>6, <1>7, <1>8, <1>9, <1>11

\* The registers are popped.
LEMMA RestoreStep ==
  ASSUME IInv, NEW n \in 0 .. 3, Execute(11 + n)
  PROVE  IInv'
<1>1. PICK i \in 11 .. 14 : i = 11 + n
  OBVIOUS
<1> DEFINE r == [regs EXCEPT ![RestoreOrder[n + 1]] = Stack[Top]]
<1>2. /\ pc = Asm(i) /\ UNCHANGED <<before, current, kept, stack_ptr>>
      /\ DropWords(1, r) /\ pc' = Asm(i + 1)
  <2>1. i \in 1 .. 15 /\ Execute(i)
    BY <1>1
  <2> QED
    BY <1>1, <2>1, ExecuteIs
<1>3. ~ InIsr
  BY <1>2, Places DEF CodePlaces
<1>4. Pc = pc /\ Regs = regs /\ Mem = mem /\ CodeInv
  BY <1>3, Running
<1>5. PICK o \in Owner, top \in 15 .. Words + 1 :
              /\ o = Here /\ top = Depth /\ regs["esp"] = Addr(o, top)
              /\ Top = top /\ Stack = mem[o]
              /\ IsMem(mem) /\ IsRegs(regs)
              /\ \A k \in 1 .. Words : k < top => mem[o][k] = Junk
  BY <1>3, Running
<1>6. Restoring(n)
  BY <1>1, <1>2, <1>4 DEF CodeInv, PhaseInv
<1>7. /\ o = current /\ FrameIn(mem[o], kept[o], o, top - n, n)
      /\ \A k \in 1 .. 4 : k <= n => regs[RestoreOrder[k]] = kept[o].saved[RestoreOrder[k]]
  BY <1>4, <1>5, <1>6 DEF Restoring
<1>8. mem[o][top] = kept[o].saved[RestoreOrder[n + 1]]
  <2>1. n + 1 \in 1 .. 4 /\ n + 1 > n /\ (top - n) + (n + 1) - 1 = top
    BY StackAssumption
  <2>2. mem[o][(top - n) + (n + 1) - 1] = kept[o].saved[RestoreOrder[n + 1]]
    BY <1>7, <2>1 DEF FrameIn
  <2> QED
    BY <2>1, <2>2
<1>9. IsRegs(r)
  BY <1>5 DEF IsRegs
<1>10. \A k \in 1 .. 4 : k <= n + 1 => r[RestoreOrder[k]] = kept[o].saved[RestoreOrder[k]]
  <2> SUFFICES ASSUME NEW k \in 1 .. 4, k <= n + 1
               PROVE  r[RestoreOrder[k]] = kept[o].saved[RestoreOrder[k]]
    OBVIOUS
  <2>1. n + 1 \in 1 .. 4 /\ RestoreOrder[k] \in Register /\ RestoreOrder[n + 1] \in Register
    BY Orders
  <2>2. DOMAIN regs = Register
    BY <1>5 DEF IsRegs
  <2>3. CASE RestoreOrder[k] = RestoreOrder[n + 1]
    BY <1>5, <1>8, <2>1, <2>2, <2>3
  <2>4. CASE RestoreOrder[k] # RestoreOrder[n + 1]
    <3>1. k <= n
      <4>1. k # n + 1
        BY <2>4
      <4> QED
        BY <4>1
    <3> QED
      BY <1>7, <2>1, <2>2, <2>4, <3>1
  <2> QED
    BY <2>3, <2>4
<1> HIDE DEF r
<1>11. /\ StackTypes' /\ IsrInv' /\ ThreadsInv' /\ DeadInv'
       /\ FrameIn(Mem'[current'], kept'[current'], current', Depth' - (n + 1), n + 1)
       /\ Here' = current' /\ Pc' = pc' /\ current' \in Thread
       /\ \A x \in Register \ {"esp"} : Regs'[x] = r[x]
  <2>1. n \in 0 .. 4 /\ pc' \in CodePlaces
    BY <1>2 DEF CodePlaces
  <2> QED
    BY <1>2, <1>3, <1>6, <1>9, <2>1, PopEffect
<1>12. Restoring(n + 1)'
  <2>1. \A k \in 1 .. 4 : k <= n + 1 =>
          Regs'[RestoreOrder[k]] = kept'[current'].saved[RestoreOrder[k]]
    BY <1>2, <1>7, <1>10, <1>11, Orders
  <2> QED
    BY <1>11, <2>1 DEF Restoring
<1>13. PhaseInv'
  <2>1. Pc' = Asm(12 + n)
    <3>1. i + 1 = 12 + n
      BY <1>1
    <3> QED
      BY <1>2, <1>11, <3>1
  <2>2. \A m \in 0 .. 4 : Pc' = Asm(11 + m) => m = n + 1
    BY <2>1, Tags
  <2>3. \A m \in 0 .. 4 : Pc' = Asm(11 + m) => Restoring(m)'
    BY <1>12, <2>2
  <2>4. /\ Pc' # Asm(1) /\ Pc' # Asm(2) /\ Pc' # Asm(3) /\ Pc' # Asm(4)
        /\ Pc' # InC /\ Pc' # ThreadMain /\ Pc' # Returned
        /\ \A m \in 4 .. 10 : Pc' # Asm(m)
        /\ \A m \in 0 .. 4 : Pc' # Asm(5 + m)
    BY <2>1, Tags
  <2> QED
    BY <2>3, <2>4 DEF PhaseInv
<1> QED
  BY <1>11, <1>13 DEF IInv, CodeInv

\* ret: into thread_main, or back into thread_context_switch.
LEMMA RetStep ==
  ASSUME IInv, Execute(15)
  PROVE  IInv'
<1>1. /\ pc = Asm(15) /\ UNCHANGED <<before, current, kept, stack_ptr>>
      /\ pc' = Stack[Top] /\ DropWords(1, regs)
  BY ExecuteIs
<1>2. ~ InIsr
  BY <1>1, Places DEF CodePlaces
<1>3. Pc = pc /\ Regs = regs /\ Mem = mem /\ CodeInv
  BY <1>2, Running
<1>4. PICK o \in Owner, top \in 15 .. Words + 1 :
              /\ o = Here /\ top = Depth /\ regs["esp"] = Addr(o, top)
              /\ Top = top /\ Stack = mem[o]
              /\ IsMem(mem) /\ IsRegs(regs)
              /\ \A k \in 1 .. Words : k < top => mem[o][k] = Junk
  BY <1>2, Running
<1>5. Restoring(4)
  <2>1. pc = Asm(11 + 4)
    BY <1>1
  <2> QED
    BY <1>3, <2>1 DEF CodeInv, PhaseInv
<1>6. /\ o = current /\ FrameIn(mem[o], kept[o], o, top - 4, 4)
      /\ \A k \in 1 .. 4 : k <= 4 => regs[RestoreOrder[k]] = kept[o].saved[RestoreOrder[k]]
  BY <1>3, <1>4, <1>5 DEF Restoring
<1>7. pc' = kept[o].from /\ kept[o].from \in {ThreadMain, Returned}
  <2>1. (top - 4) + 4 = top
    BY StackAssumption
  <2> QED
    BY <1>1, <1>4, <1>6, <2>1 DEF FrameIn, GoesOn
<1>8. /\ StackTypes' /\ IsrInv' /\ ThreadsInv' /\ DeadInv'
      /\ FrameIn(Mem'[current'], kept'[current'], current', Depth' - (4 + 1), 4 + 1)
      /\ Here' = current' /\ Pc' = pc' /\ current' \in Thread
      /\ \A x \in Register \ {"esp"} : Regs'[x] = regs[x]
  <2> DEFINE n == 4
  <2>1. n \in 0 .. 4 /\ pc' \in CodePlaces /\ Restoring(n)
    BY <1>5, <1>7 DEF CodePlaces
  <2> HIDE DEF n
  <2>2. /\ StackTypes' /\ IsrInv' /\ ThreadsInv' /\ DeadInv'
        /\ FrameIn(Mem'[current'], kept'[current'], current', Depth' - (n + 1), n + 1)
        /\ Here' = current' /\ Pc' = pc' /\ current' \in Thread
        /\ \A x \in Register \ {"esp"} : Regs'[x] = regs[x]
    BY <1>1, <1>2, <1>4, <2>1, PopEffect
  <2> QED
    BY <2>2 DEF n
<1>9. Restoring(5)'
  <2>1. \A k \in 1 .. 4 : Regs'[RestoreOrder[k]] = kept'[current'].saved[RestoreOrder[k]]
    BY <1>1, <1>6, <1>8, Orders
  <2>2. 4 + 1 = 5
    OBVIOUS
  <2> QED
    BY <1>8, <2>1, <2>2 DEF Restoring
<1>10. PhaseInv'
  <2>1. Pc' \in {ThreadMain, Returned} /\ Pc' = kept'[current'].from
    BY <1>1, <1>6, <1>7, <1>8
  <2>2. Pc' # InC /\ \A m : Pc' # Asm(m)
    BY <2>1, Tags
  <2> QED
    BY <1>9, <2>1, <2>2 DEF PhaseInv
<1> QED
  BY <1>8, <1>10 DEF IInv, CodeInv

-----------------------------------------------------------------------------
(* C code. *)

\* Where C code runs, on the stack of the current thread or of the boot.
LEMMA InCode ==
  ASSUME Pc' = InC, Here' = current',
         Depth' = IF current' = Boot THEN Words + 1 ELSE Words - 2
  PROVE  PhaseInv'
BY Tags DEF PhaseInv

\* Where C code runs, and what it finds there.
LEMMA RunningInC ==
  ASSUME IInv, pc = InC
  PROVE  /\ ~ InIsr /\ Pc = pc /\ Regs = regs /\ Mem = mem /\ CodeInv
         /\ \E o \in Owner, top \in 15 .. Words + 1 :
              /\ o = Here /\ top = Depth /\ regs["esp"] = Addr(o, top)
              /\ o = current /\ top = IF current = Boot THEN Words + 1 ELSE Words - 2
              /\ Top = top /\ Stack = mem[o]
              /\ IsMem(mem) /\ IsRegs(regs)
              /\ \A i \in 1 .. Words : i < top => mem[o][i] = Junk
<1>1. ~ InIsr
  BY Places DEF CodePlaces
<1>2. Pc = pc /\ Regs = regs /\ Mem = mem /\ CodeInv
  BY <1>1, Running
<1>3. Here = current /\ Depth = IF current = Boot THEN Words + 1 ELSE Words - 2
  BY <1>2 DEF CodeInv, PhaseInv
<1> QED
  BY <1>1, <1>2, <1>3, Running

\* The running thread computes.
LEMMA ComputeStep ==
  ASSUME IInv, Compute
  PROVE  IInv'
<1>1. /\ pc = InC /\ UNCHANGED <<mem, pc, stack_ptr, current, kept>>
      /\ \E v \in {0, 1} :
           regs' = [r \in Register |->
                      IF r = "esp" THEN regs["esp"] ELSE <<"value", current, r, v>>]
  BY DEF Compute
<1>2. ~ InIsr /\ Pc = pc /\ Regs = regs /\ Mem = mem /\ CodeInv
  BY <1>1, RunningInC
<1>3. PICK o \in Owner, top \in 15 .. Words + 1 :
              /\ o = Here /\ top = Depth /\ regs["esp"] = Addr(o, top)
              /\ o = current /\ top = IF current = Boot THEN Words + 1 ELSE Words - 2
              /\ Top = top /\ Stack = mem[o]
              /\ IsMem(mem) /\ IsRegs(regs)
              /\ \A i \in 1 .. Words : i < top => mem[o][i] = Junk
  BY <1>1, RunningInC
<1>4. IsRegs(regs') /\ regs'["esp"] = Addr(o, top)
  BY <1>1, <1>3, Orders DEF IsRegs
<1>5. /\ StackTypes' /\ IsrInv'
      /\ Here' = o /\ Depth' = top /\ Pc' = pc' /\ Regs' = regs' /\ Mem' = mem'
  <2>1. /\ current' \in Owner /\ DOMAIN kept' = Thread /\ DOMAIN stack_ptr' = Thread
        /\ \A t \in Thread : stack_ptr'[t] \in Addresses(t) \union {Junk}
        /\ pc' \in CodePlaces
    BY <1>1, <1>2 DEF CodeInv, StackTypes
  <2> QED
    BY <1>1, <1>2, <1>3, <1>4, <2>1, Lands
<1>6. ThreadsInv'
  BY <1>1, <1>2, <1>3, <1>5, ThreadsRest
<1>7. DeadInv'
  BY <1>1, <1>3, <1>5 DEF DeadInv
<1>8. PhaseInv'
  BY <1>1, <1>3, <1>5, InCode
<1> QED
  BY <1>5, <1>6, <1>7, <1>8 DEF IInv, CodeInv

\* A thread is created: its stack, so far empty, leads to thread_main.
LEMMA ThreadSetupStackStep ==
  ASSUME IInv, NEW t \in Thread, ThreadSetupStack(t)
  PROVE  IInv'
<1>1. /\ pc = InC /\ stack_ptr[t] = Junk
      /\ mem' = [mem EXCEPT ![t] =
               [i \in 1 .. Words |->
                  IF Words + 1 - i <= 8 THEN InitialFrame(t)[Words + 1 - i] ELSE @[i]]]
      /\ stack_ptr' = [stack_ptr EXCEPT ![t] = Addr(t, Words + 1 - 8)]
      /\ kept' = [kept EXCEPT ![t] =
                [from |-> ThreadMain, esp |-> Addr(t, Words + 1 - 3), base |-> Junk,
                 saved |-> [r \in CalleeSaved |-> Zero]]]
      /\ UNCHANGED <<regs, pc, current, before>>
  BY DEF ThreadSetupStack, InitialStackPtr
<1>2. ~ InIsr /\ Pc = pc /\ Regs = regs /\ Mem = mem /\ CodeInv
  BY <1>1, RunningInC
<1>3. PICK o \in Owner, top \in 15 .. Words + 1 :
              /\ o = Here /\ top = Depth /\ regs["esp"] = Addr(o, top)
              /\ o = current /\ top = IF current = Boot THEN Words + 1 ELSE Words - 2
              /\ Top = top /\ Stack = mem[o]
              /\ IsMem(mem) /\ IsRegs(regs)
              /\ \A i \in 1 .. Words : i < top => mem[o][i] = Junk
  BY <1>1, RunningInC
<1>4. /\ t # o /\ t \in Owner /\ \A i \in 1 .. Words : mem[t][i] = Junk
  BY <1>1, <1>2, <1>3 DEF CodeInv, ThreadsInv, Owner
<1>5. Words \in Nat /\ Words >= 32
  BY StackAssumption
<1>6. PICK j \in 25 .. Words : j = Words - 7 /\ j = Words + 1 - 8 /\ j + 5 = Words + 1 - 3
  BY <1>5
<1>7. /\ stack_ptr'[t] = Addr(t, j) /\ DOMAIN stack_ptr' = Thread
      /\ \A u \in Thread \ {t} : stack_ptr'[u] = stack_ptr[u]
  BY <1>1, <1>2, <1>6 DEF CodeInv, StackTypes
<1>8. /\ kept'[t].from = ThreadMain /\ kept'[t].esp = Addr(t, j + 5)
      /\ \A r \in CalleeSaved : kept'[t].saved[r] = Zero
      /\ DOMAIN kept' = Thread /\ \A u \in Thread \ {t} : kept'[u] = kept[u]
  BY <1>1, <1>2, <1>6 DEF CodeInv, StackTypes
<1>9. /\ \A p \in Owner \ {t} : mem'[p] = mem[p]
      /\ mem'[t] = [i \in 1 .. Words |->
           IF Words + 1 - i <= 8 THEN InitialFrame(t)[Words + 1 - i] ELSE mem[t][i]]
      /\ DOMAIN mem' = Owner /\ mem' = [p \in Owner |-> mem'[p]]
  BY <1>1, <1>3, <1>4 DEF IsMem
<1>10. IsMem(mem')
  <2>1. ASSUME NEW p \in Owner PROVE mem'[p] = [i \in 1 .. Words |-> mem'[p][i]]
    <3>1. CASE p = t
      BY <1>9, <3>1
    <3>2. CASE p # t
      <4>1. mem[p] = [i \in 1 .. Words |-> mem[p][i]]
        BY <1>3 DEF IsMem
      <4> QED
        BY <1>9, <3>2, <4>1
    <3> QED
      BY <3>1, <3>2
  <2> QED
    BY <1>9, <2>1 DEF IsMem
<1>11. /\ mem'[t][Words] = <<"arg", t>> /\ mem'[t][Words - 1] = <<"fn", t>>
       /\ mem'[t][Words - 2] = Zero /\ mem'[t][Words - 3] = ThreadMain
       /\ \A q \in 5 .. 8 : mem'[t][Words + 1 - q] = Zero
       /\ \A i \in 1 .. Words : i < j => mem'[t][i] = Junk
  <2>1. ASSUME NEW q \in 1 .. 8
        PROVE  mem'[t][Words + 1 - q] = InitialFrame(t)[q]
    <3>1. Words + 1 - q \in 1 .. Words /\ Words + 1 - (Words + 1 - q) = q
      BY <1>5
    <3> QED
      BY <1>9, <3>1
  <2>2. /\ InitialFrame(t)[1] = <<"arg", t>> /\ InitialFrame(t)[2] = <<"fn", t>>
        /\ InitialFrame(t)[3] = Zero /\ InitialFrame(t)[4] = ThreadMain
        /\ InitialFrame(t)[5] = Zero /\ InitialFrame(t)[6] = Zero
        /\ InitialFrame(t)[7] = Zero /\ InitialFrame(t)[8] = Zero
    BY DEF InitialFrame
  <2>3. /\ Words + 1 - 1 = Words /\ Words + 1 - 2 = Words - 1 /\ Words + 1 - 3 = Words - 2
        /\ Words + 1 - 4 = Words - 3
    BY <1>5
  <2>4. /\ mem'[t][Words + 1 - 1] = <<"arg", t>> /\ mem'[t][Words + 1 - 2] = <<"fn", t>>
        /\ mem'[t][Words + 1 - 3] = Zero /\ mem'[t][Words + 1 - 4] = ThreadMain
    BY <2>1, <2>2
  <2>5. \A q \in 5 .. 8 : mem'[t][Words + 1 - q] = Zero
    <3>1. \A q \in 5 .. 8 : q \in 1 .. 8 /\ (q = 5 \/ q = 6 \/ q = 7 \/ q = 8)
      OBVIOUS
    <3> QED
      BY <2>1, <2>2, <3>1
  <2>6. \A i \in 1 .. Words : i < j => mem'[t][i] = Junk
    <3>1. \A i \in 1 .. Words : i < j => ~ (Words + 1 - i <= 8)
      BY <1>5, <1>6
    <3> QED
      BY <1>4, <1>9, <3>1
  <2> QED
    BY <2>3, <2>4, <2>5, <2>6
<1>12. FrameIn(mem'[t], kept'[t], t, j, 0)
  <2>1. GoesOn(mem'[t], kept'[t], t, j)
    BY <1>6, <1>8, <1>11 DEF GoesOn
  <2>2. ASSUME NEW k \in 1 .. 4
        PROVE  mem'[t][j + k - 1] = kept'[t].saved[RestoreOrder[k]]
    <3>1. PICK q \in 5 .. 8 : q = 9 - k
      OBVIOUS
    <3>2. j + k - 1 = Words + 1 - q
      BY <1>5, <1>6, <3>1
    <3> QED
      BY <1>8, <1>11, <3>2, Orders
  <2>3. j + 4 = Words - 3
    BY <1>5, <1>6
  <2> QED
    BY <1>8, <1>11, <2>1, <2>2, <2>3 DEF FrameIn
<1>13. /\ StackTypes' /\ IsrInv'
       /\ Here' = o /\ Depth' = top /\ Pc' = pc' /\ Regs' = regs' /\ Mem' = mem'
  <2>1. Addr(t, j) \in Addresses(t)
    BY <1>5, <1>6 DEF Addresses
  <2>2. /\ current' \in Owner /\ pc' \in CodePlaces /\ IsRegs(regs')
        /\ regs'["esp"] = Addr(o, top)
    BY <1>1, <1>2, <1>3 DEF CodeInv, StackTypes
  <2>3. \A u \in Thread : stack_ptr'[u] \in Addresses(u) \union {Junk}
    BY <1>2, <1>7, <2>1 DEF CodeInv, StackTypes
  <2> QED
    BY <1>2, <1>7, <1>8, <1>10, <2>2, <2>3, Lands
<1>14. ThreadsInv'
  <2> SUFFICES ASSUME NEW u \in Thread
               PROVE  /\ stack_ptr'[u] = Junk => /\ u # o /\ u # current
                                                 /\ \A i \in 1 .. Words : mem'[u][i] = Junk
                      /\ stack_ptr'[u] # Junk /\ u # o => Suspended(u)'
    BY <1>1, <1>13 DEF ThreadsInv
  <2>1. CASE u = t
    <3>1. stack_ptr'[t] # Junk /\ stack_ptr'[t][3] = j
      BY <1>7, Tags
    <3>2. Suspended(t)'
      BY <1>7, <1>11, <1>12, <1>13, <3>1 DEF Suspended
    <3> QED
      BY <2>1, <3>1, <3>2
  <2>2. CASE u # t
    <3>1. stack_ptr'[u] = stack_ptr[u] /\ kept'[u] = kept[u] /\ mem'[u] = mem[u]
      BY <1>7, <1>8, <1>9, <2>2 DEF Owner
    <3>2. /\ stack_ptr[u] = Junk => /\ u # o /\ u # current
                                    /\ \A i \in 1 .. Words : mem[u][i] = Junk
          /\ stack_ptr[u] # Junk /\ u # o => Suspended(u)
      BY <1>2, <1>3 DEF CodeInv, ThreadsInv
    <3> QED
      BY <1>2, <1>13, <3>1, <3>2 DEF Suspended
  <2> QED
    BY <2>1, <2>2
<1>15. DeadInv'
  BY <1>3, <1>4, <1>9, <1>13 DEF DeadInv
<1>16. PhaseInv'
  BY <1>1, <1>3, <1>13, InCode
<1> QED
  BY <1>13, <1>14, <1>15, <1>16 DEF IInv, CodeInv

\* The first thread is loaded, from the stack of the boot.
LEMMA ThreadLoadFirstStep ==
  ASSUME IInv, NEW t \in Thread, ThreadLoadFirst(t)
  PROVE  IInv'
<1> DEFINE ws == <<stack_ptr[t], InC>>
<1>1. /\ pc = InC /\ current = Boot /\ stack_ptr[t] # Junk
      /\ PushWords(ws, regs) /\ pc' = Asm(1) /\ current' = t
      /\ UNCHANGED <<stack_ptr, kept, before>>
  BY DEF ThreadLoadFirst, LoadFirstEntry
<1>2. Len(ws) = 2 /\ ws[1] = stack_ptr[t]
  OBVIOUS
<1> HIDE DEF ws
<1>3. ~ InIsr /\ Pc = pc /\ Regs = regs /\ Mem = mem /\ CodeInv
  BY <1>1, RunningInC
<1>4. PICK o \in Owner, top \in 15 .. Words + 1 :
              /\ o = Here /\ top = Depth /\ regs["esp"] = Addr(o, top)
              /\ o = current /\ top = IF current = Boot THEN Words + 1 ELSE Words - 2
              /\ Top = top /\ Stack = mem[o]
              /\ IsMem(mem) /\ IsRegs(regs)
              /\ \A i \in 1 .. Words : i < top => mem[o][i] = Junk
  BY <1>1, RunningInC
<1>5. o = Boot /\ top = Words + 1 /\ Words \in Nat /\ Words >= 32 /\ o # t /\ o \notin Thread
  BY <1>1, <1>4, StackAssumption
<1>6. PICK d \in 15 .. Words + 1 : d = Words - 1 /\ d = top - 2 /\ d < Words
  BY <1>5
<1>7. /\ IsMem(mem') /\ IsRegs(regs')
      /\ \A p \in Owner \ {o} : mem'[p] = mem[p]
      /\ \A i \in 1 .. Words :
           mem'[o][i] = IF i < top /\ top - i <= Len(ws) THEN ws[top - i] ELSE mem[o][i]
      /\ regs'["esp"] = Addr(o, top - Len(ws))
  <2>1. IsMem(mem) /\ IsRegs(regs) /\ regs["esp"] = Addr(o, top) /\ PushWords(ws, regs)
        /\ top \in Int /\ Len(ws) \in Nat
    BY <1>1, <1>2, <1>4, <1>5
  <2> QED
    BY <2>1, PushEffect
<1>8. /\ mem'[o][Words] = stack_ptr[t]
      /\ \A i \in 1 .. Words : i < d => mem'[o][i] = Junk
      /\ regs'["esp"] = Addr(o, d)
  <2>1. Words \in 1 .. Words /\ Words < top /\ top - Words = 1
    BY <1>5
  <2>2. mem'[o][Words] = ws[1]
    BY <1>2, <1>7, <2>1
  <2>3. \A i \in 1 .. Words : i < d => i < top /\ ~ (top - i <= 2)
    BY <1>5, <1>6
  <2> QED
    BY <1>2, <1>4, <1>6, <1>7, <2>2, <2>3
<1>9. /\ StackTypes' /\ IsrInv'
      /\ Here' = o /\ Depth' = d /\ Pc' = pc' /\ Regs' = regs' /\ Mem' = mem'
  <2>1. /\ current' \in Owner /\ DOMAIN kept' = Thread /\ DOMAIN stack_ptr' = Thread
        /\ \A u \in Thread : stack_ptr'[u] \in Addresses(u) \union {Junk}
    BY <1>1, <1>3 DEF CodeInv, StackTypes, Owner
  <2>2. pc' \in CodePlaces
    BY <1>1 DEF CodePlaces
  <2> QED
    BY <1>3, <1>7, <1>8, <2>1, <2>2, Lands
<1>10. ThreadsInv'
  <2> SUFFICES ASSUME NEW u \in Thread
               PROVE  /\ stack_ptr[u] = Junk => /\ u # o /\ u # t
                                                /\ \A i \in 1 .. Words : mem'[u][i] = Junk
                      /\ stack_ptr[u] # Junk /\ u # o => Suspended(u)'
    BY <1>1, <1>9 DEF ThreadsInv
  <2>1. mem'[u] = mem[u]
    BY <1>5, <1>7 DEF Owner
  <2>2. /\ stack_ptr[u] = Junk => \A i \in 1 .. Words : mem[u][i] = Junk
        /\ stack_ptr[u] # Junk /\ u # o => Suspended(u)
    BY <1>3, <1>4 DEF CodeInv, ThreadsInv
  <2> QED
    BY <1>1, <1>3, <1>5, <1>9, <2>1, <2>2 DEF Suspended
<1>11. DeadInv'
  BY <1>8, <1>9 DEF DeadInv
<1>12. PhaseInv'
  <2>1. Pc' = Asm(1) /\ current' \in Thread /\ Here' = Boot /\ Depth' = Words - 1
        /\ Mem'[Boot][Words] = stack_ptr'[current']
    BY <1>1, <1>5, <1>6, <1>8, <1>9
  <2> QED
    BY <2>1, Tags DEF PhaseInv
<1> QED
  BY <1>9, <1>10, <1>11, <1>12 DEF IInv, CodeInv

\* The words a thread leaves on its stack when it calls thread_context_switch_asm.
LEMMA CallWords ==
  ASSUME NEW c, NEW k \in Nat, NEW x, NEW y, NEW z,
         NEW ws, ws = [i \in 1 .. k |-> <<"local", c, i>>] \o <<x, y, z>>
  PROVE  Len(ws) = k + 3 /\ ws[k + 1] = x /\ ws[k + 2] = y /\ ws[k + 3] = z
<1> DEFINE a == [i \in 1 .. k |-> <<"local", c, i>>]
           b == <<x, y, z>>
           S == {<<"local", c, i>> : i \in 1 .. k} \union {x, y, z}
<1>1. a \in Seq(S) /\ Len(a) = k
  OBVIOUS
<1>2. b \in Seq(S) /\ Len(b) = 3 /\ b[1] = x /\ b[2] = y /\ b[3] = z
  OBVIOUS
<1>3. ws = a \o b
  OBVIOUS
<1> HIDE DEF a, b, S
<1>4. /\ Len(a \o b) = Len(a) + Len(b)
      /\ \A i \in 1 .. Len(a) + Len(b) :
           (a \o b)[i] = IF i <= Len(a) THEN a[i] ELSE b[i - Len(a)]
  BY <1>1, <1>2, ConcatProperties
<1>5. \A i \in 1 .. k + 3 : ws[i] = IF i <= k THEN a[i] ELSE b[i - k]
  BY <1>1, <1>2, <1>3, <1>4
<1>6. \A n \in 1 .. 3 : ws[k + n] = b[n]
  <2> SUFFICES ASSUME NEW n \in 1 .. 3 PROVE ws[k + n] = b[n]
    OBVIOUS
  <2>1. k + n \in 1 .. k + 3 /\ ~ (k + n <= k) /\ (k + n) - k = n
    OBVIOUS
  <2> QED
    BY <1>5, <2>1
<1>7. Len(ws) = k + 3
  BY <1>1, <1>2, <1>3, <1>4
<1> QED
  BY <1>2, <1>6, <1>7

\* A thread calls thread_context_switch_asm.
LEMMA ThreadContextSwitchStep ==
  ASSUME IInv, NEW t \in Thread, NEW k \in 0 .. MaxLocals, ThreadContextSwitch(t, k)
  PROVE  IInv'
<1> DEFINE ws == [i \in 1 .. k |-> <<"local", current, i>>]
                   \o <<stack_ptr[t], <<"field", current>>, Returned>>
<1>1. /\ pc = InC /\ current \in Thread \ {t} /\ stack_ptr[t] # Junk
      /\ PushWords(ws, regs) /\ pc' = Asm(3) /\ current' = t
      /\ kept' = [kept EXCEPT ![current] =
                [from |-> Returned, esp |-> EspAt(Top - k - 2), base |-> regs["esp"],
                 saved |-> [r \in CalleeSaved |-> regs[r]]]]
      /\ UNCHANGED <<stack_ptr, before>>
  BY CodeList DEF ThreadContextSwitch
<1>2. PICK m \in Nat : m = k /\ m <= MaxLocals /\ MaxLocals \in Nat /\ Words \in Nat
                       /\ Words >= 32 + MaxLocals
  BY StackAssumption
<1>3. /\ Len(ws) = m + 3 /\ ws[m + 1] = stack_ptr[t] /\ ws[m + 2] = <<"field", current>>
      /\ ws[m + 3] = Returned
  BY <1>2, CallWords
<1> HIDE DEF ws
<1>4. ~ InIsr /\ Pc = pc /\ Regs = regs /\ Mem = mem /\ CodeInv
  BY <1>1, RunningInC
<1>5. PICK o \in Owner, top \in 15 .. Words + 1 :
              /\ o = Here /\ top = Depth /\ regs["esp"] = Addr(o, top)
              /\ o = current /\ top = IF current = Boot THEN Words + 1 ELSE Words - 2
              /\ Top = top /\ Stack = mem[o]
              /\ IsMem(mem) /\ IsRegs(regs)
              /\ \A i \in 1 .. Words : i < top => mem[o][i] = Junk
  BY <1>1, RunningInC
<1>6. o \in Thread /\ o # t /\ top = Words - 2
  BY <1>1, <1>5, StackAssumption
<1>7. PICK d \in 15 .. Words + 1 :
        d = top - (m + 3) /\ d = Words - 5 - m /\ top - m - 2 = d + 1 /\ d - 4 + 5 = d + 1
        /\ d - 4 \in Words - 9 - MaxLocals .. Words - 9 /\ d - 4 + 4 = d
  BY <1>2, <1>6
<1>8. /\ IsMem(mem') /\ IsRegs(regs')
      /\ \A p \in Owner \ {o} : mem'[p] = mem[p]
      /\ \A i \in 1 .. Words :
           mem'[o][i] = IF i < top /\ top - i <= m + 3 THEN ws[top - i] ELSE mem[o][i]
      /\ regs'["esp"] = Addr(o, d)
      /\ \A x \in Register \ {"esp"} : regs'[x] = regs[x]
  <2>1. IsMem(mem) /\ IsRegs(regs) /\ regs["esp"] = Addr(o, top) /\ PushWords(ws, regs)
        /\ top \in Int /\ Len(ws) \in Nat
    BY <1>1, <1>2, <1>3, <1>5
  <2>2. /\ IsMem(mem') /\ IsRegs(regs')
        /\ \A p \in Owner \ {o} : mem'[p] = mem[p]
        /\ \A i \in 1 .. Words :
             mem'[o][i] = IF i < top /\ top - i <= Len(ws) THEN ws[top - i] ELSE mem[o][i]
        /\ regs'["esp"] = Addr(o, top - Len(ws))
        /\ \A x \in Register \ {"esp"} : regs'[x] = regs[x]
    BY <2>1, PushEffect
  <2> QED
    BY <1>3, <1>7, <2>2
<1>9. /\ mem'[o][d] = Returned /\ mem'[o][d + 1] = <<"field", o>>
      /\ mem'[o][d + 2] = stack_ptr[t]
      /\ \A i \in 1 .. Words : i < d => mem'[o][i] = Junk
  <2>1. ASSUME NEW n \in 1 .. 3
        PROVE  mem'[o][d + 3 - n] = ws[m + n]
    <3>1. d + 3 - n \in 1 .. Words /\ d + 3 - n < top /\ top - (d + 3 - n) = m + n
          /\ m + n <= m + 3
      BY <1>2, <1>6, <1>7
    <3> QED
      BY <1>8, <3>1
  <2>2. mem'[o][d + 3 - 3] = ws[m + 3] /\ mem'[o][d + 3 - 2] = ws[m + 2]
        /\ mem'[o][d + 3 - 1] = ws[m + 1]
    BY <2>1
  <2>3. d + 3 - 3 = d /\ d + 3 - 2 = d + 1 /\ d + 3 - 1 = d + 2
    BY <1>2, <1>7
  <2>4. \A i \in 1 .. Words : i < d => i < top /\ ~ (top - i <= m + 3)
    BY <1>2, <1>6, <1>7
  <2> QED
    BY <1>3, <1>5, <1>8, <2>2, <2>3, <2>4
<1>10. /\ kept'[o].from = Returned /\ kept'[o].esp = Addr(o, d + 1)
       /\ kept'[o].base = Addr(o, Words - 2)
       /\ \A r \in CalleeSaved : kept'[o].saved[r] = regs[r]
       /\ DOMAIN kept' = Thread /\ \A u \in Thread \ {o} : kept'[u] = kept[u]
  <2>1. EspAt(Top - k - 2) = Addr(o, d + 1)
    BY <1>2, <1>5, <1>7, Tags DEF EspAt
  <2>2. DOMAIN kept = Thread /\ regs["esp"] = Addr(o, Words - 2)
    BY <1>4, <1>5, <1>6 DEF CodeInv, StackTypes
  <2> QED
    BY <1>1, <1>5, <1>6, <2>1, <2>2
<1>11. FrameIn(mem'[o], kept'[o], o, d - 4, 4)
  <2>1. GoesOn(mem'[o], kept'[o], o, d - 4)
    BY <1>7, <1>10 DEF GoesOn
  <2>2. \A n \in 1 .. 4 : ~ (n > 4)
    OBVIOUS
  <2>3. mem'[o][d - 4 + 4] = kept'[o].from
    BY <1>7, <1>9, <1>10
  <2> QED
    BY <2>1, <2>2, <2>3 DEF FrameIn
<1>12. /\ StackTypes' /\ IsrInv'
       /\ Here' = o /\ Depth' = d /\ Pc' = pc' /\ Regs' = regs' /\ Mem' = mem'
  <2>1. /\ current' \in Owner /\ DOMAIN stack_ptr' = Thread
        /\ \A u \in Thread : stack_ptr'[u] \in Addresses(u) \union {Junk}
    BY <1>1, <1>4 DEF CodeInv, StackTypes, Owner
  <2>2. pc' \in CodePlaces
    BY <1>1 DEF CodePlaces
  <2> QED
    BY <1>4, <1>8, <1>10, <2>1, <2>2, Lands
<1>13. ThreadsInv'
  <2> SUFFICES ASSUME NEW u \in Thread
               PROVE  /\ stack_ptr[u] = Junk => /\ u # o /\ u # t
                                                /\ \A i \in 1 .. Words : mem'[u][i] = Junk
                      /\ stack_ptr[u] # Junk /\ u # o => Suspended(u)'
    BY <1>1, <1>12 DEF ThreadsInv
  <2>1. /\ stack_ptr[u] = Junk => u # o /\ \A i \in 1 .. Words : mem[u][i] = Junk
        /\ stack_ptr[u] # Junk /\ u # o => Suspended(u)
    BY <1>4, <1>5 DEF CodeInv, ThreadsInv
  <2>2. u # o => mem'[u] = mem[u] /\ kept'[u] = kept[u]
    BY <1>8, <1>10 DEF Owner
  <2> QED
    BY <1>1, <1>4, <1>12, <2>1, <2>2 DEF Suspended
<1>14. DeadInv'
  BY <1>9, <1>12 DEF DeadInv
<1>15. Saving(0)'
  <2>1. d + 0 - 4 = d - 4 /\ 4 - 0 = 4 /\ d + 0 + 1 = d + 1 /\ d + 0 + 2 = d + 2
    BY <1>2, <1>7
  <2>2. FrameIn(Mem'[Here'], kept'[Here'], Here', Depth' + 0 - 4, 4 - 0)
    BY <1>11, <1>12, <2>1
  <2>3. \A r \in CalleeSaved : Regs'[r] = kept'[Here'].saved[r]
    BY <1>8, <1>10, <1>12, Orders
  <2>4. Mem'[Here'][Depth' + 0 + 1] = <<"field", Here'>>
        /\ Mem'[Here'][Depth' + 0 + 2] = stack_ptr'[current']
    BY <1>1, <1>9, <1>12, <2>1
  <2>5. Here' \in Thread \ {current'} /\ current' \in Thread /\ kept'[Here'].from = Returned
    BY <1>1, <1>6, <1>10, <1>12
  <2> QED
    BY <2>2, <2>3, <2>4, <2>5 DEF Saving
<1>16. PhaseInv'
  <2>1. Pc' = Asm(3)
    BY <1>1, <1>12
  <2> QED
    BY <1>15, <2>1, Tags DEF PhaseInv
<1> QED
  BY <1>12, <1>13, <1>14, <1>16 DEF IInv, CodeInv

\* thread_main begins: the new thread's stack is what thread_setup_stack left above its frame.
LEMMA ThreadMainStartsStep ==
  ASSUME IInv, ThreadMainStarts
  PROVE  IInv'
<1>1. pc = ThreadMain /\ pc' = InC /\ UNCHANGED <<mem, regs, stack_ptr, current, kept>>
  BY DEF ThreadMainStarts
<1>2. ~ InIsr
  BY <1>1, Places DEF CodePlaces
<1>3. Pc = pc /\ Regs = regs /\ Mem = mem /\ CodeInv
  BY <1>2, Running
<1>4. PICK o \in Owner, top \in 15 .. Words + 1 :
              /\ o = Here /\ top = Depth /\ regs["esp"] = Addr(o, top)
              /\ Top = top /\ Stack = mem[o]
              /\ IsMem(mem) /\ IsRegs(regs)
              /\ \A k \in 1 .. Words : k < top => mem[o][k] = Junk
  BY <1>2, Running
<1>5. Restoring(5) /\ kept[current].from = ThreadMain
  BY <1>1, <1>3 DEF CodeInv, PhaseInv
<1>6. o = current /\ current \in Thread /\ GoesOn(mem[o], kept[o], o, top - 5)
  BY <1>3, <1>4, <1>5 DEF Restoring, FrameIn
<1>7. top = Words - 2 /\ current # Boot
  BY <1>4, <1>5, <1>6, Tags, StackAssumption DEF GoesOn
<1>8. /\ StackTypes' /\ IsrInv'
      /\ Here' = o /\ Depth' = top /\ Pc' = pc' /\ Regs' = regs' /\ Mem' = mem'
  <2>1. /\ current' \in Owner /\ DOMAIN kept' = Thread /\ DOMAIN stack_ptr' = Thread
        /\ \A t \in Thread : stack_ptr'[t] \in Addresses(t) \union {Junk}
    BY <1>1, <1>3 DEF CodeInv, StackTypes
  <2>2. pc' \in CodePlaces
    BY <1>1 DEF CodePlaces
  <2> QED
    BY <1>1, <1>3, <1>4, <2>1, <2>2, Lands
<1>9. ThreadsInv'
  BY <1>1, <1>3, <1>4, <1>8, ThreadsRest
<1>10. DeadInv'
  BY <1>1, <1>4, <1>8 DEF DeadInv
<1>11. PhaseInv'
  BY <1>1, <1>6, <1>7, <1>8, InCode
<1> QED
  BY <1>8, <1>9, <1>10, <1>11 DEF IInv, CodeInv

\* thread_context_switch returns to its callers.
LEMMA SwitchReturnsStep ==
  ASSUME IInv, SwitchReturns
  PROVE  IInv'
<1>1. /\ pc = Returned /\ pc' = InC /\ UNCHANGED <<stack_ptr, current, kept>>
      /\ DropWords(kept[current].base[3] - Top, regs)
  BY DEF SwitchReturns
<1>2. ~ InIsr
  BY <1>1, Places DEF CodePlaces
<1>3. Pc = pc /\ Regs = regs /\ Mem = mem /\ CodeInv
  BY <1>2, Running
<1>4. PICK o \in Owner, top \in 15 .. Words + 1 :
              /\ o = Here /\ top = Depth /\ regs["esp"] = Addr(o, top)
              /\ Top = top /\ Stack = mem[o]
              /\ IsMem(mem) /\ IsRegs(regs)
              /\ \A k \in 1 .. Words : k < top => mem[o][k] = Junk
  BY <1>2, Running
<1>5. Restoring(5) /\ kept[current].from = Returned
  BY <1>1, <1>3 DEF CodeInv, PhaseInv
<1>6. o = current /\ current \in Thread /\ GoesOn(mem[o], kept[o], o, top - 5)
  BY <1>3, <1>4, <1>5 DEF Restoring, FrameIn
<1>7. kept[current].base[3] = Words - 2 /\ current # Boot
  BY <1>5, <1>6, Tags, StackAssumption DEF GoesOn
<1>8. PICK d \in 15 .. Words + 1 : d = Words - 2 /\ d = top + (Words - 2 - top)
  BY StackAssumption
<1>9. /\ IsMem(mem') /\ IsRegs(regs')
      /\ \A p \in Owner \ {o} : mem'[p] = mem[p]
      /\ \A i \in 1 .. Words : mem'[o][i] = IF i < d THEN Junk ELSE mem[o][i]
      /\ regs'["esp"] = Addr(o, d)
  <2>1. PICK k \in Int : k = Words - 2 - top /\ top \in Int /\ top + k = d
    BY <1>8, StackAssumption
  <2>2. IsMem(mem) /\ IsRegs(regs) /\ regs["esp"] = Addr(o, top) /\ DropWords(k, regs)
    BY <1>1, <1>4, <1>7, <2>1
  <2>3. /\ IsMem(mem') /\ IsRegs(regs')
        /\ \A p \in Owner \ {o} : mem'[p] = mem[p]
        /\ \A i \in 1 .. Words : mem'[o][i] = IF i < top + k THEN Junk ELSE mem[o][i]
        /\ regs'["esp"] = Addr(o, top + k)
    BY <2>1, <2>2, DropEffect
  <2> QED
    BY <2>1, <2>3
<1>10. /\ StackTypes' /\ IsrInv'
       /\ Here' = o /\ Depth' = d /\ Pc' = pc' /\ Regs' = regs' /\ Mem' = mem'
  <2>1. /\ current' \in Owner /\ DOMAIN kept' = Thread /\ DOMAIN stack_ptr' = Thread
        /\ \A t \in Thread : stack_ptr'[t] \in Addresses(t) \union {Junk}
    BY <1>1, <1>3 DEF CodeInv, StackTypes
  <2>2. pc' \in CodePlaces
    BY <1>1 DEF CodePlaces
  <2> QED
    BY <1>3, <1>9, <2>1, <2>2, Lands
<1>11. ThreadsInv'
  BY <1>1, <1>3, <1>4, <1>9, <1>10, ThreadsRest
<1>12. DeadInv'
  BY <1>9, <1>10 DEF DeadInv
<1>13. PhaseInv'
  BY <1>1, <1>6, <1>7, <1>8, <1>10, InCode
<1> QED
  BY <1>10, <1>11, <1>12, <1>13 DEF IInv, CodeInv

-----------------------------------------------------------------------------
(* All steps. *)

\* start_kernel runs on the stack of the boot, and no thread exists.
LEMMA InitIInv ==
  ASSUME Init
  PROVE  IInv
<1>1. /\ mem = [o \in Owner |-> [i \in 1 .. Words |-> Junk]]
      /\ regs = [r \in Register |-> IF r = "esp" THEN Addr(Boot, Words + 1) ELSE Junk]
      /\ pc = InC
      /\ stack_ptr = [t \in Thread |-> Junk]
      /\ current = Boot
      /\ kept = [t \in Thread |-> Junk]
  BY DEF Init
<1>2. ~ InIsr
  BY <1>1, Places DEF CodePlaces
<1>3. Pc = pc /\ Regs = regs /\ Mem = mem
  BY <1>2, Outside
<1>4. regs["esp"] = Addr(Boot, Words + 1)
  BY <1>1, Orders
<1>5. Here = Boot /\ Depth = Words + 1
  BY <1>3, <1>4, Tags DEF Here, Depth
<1>6. Boot \in Owner /\ Boot \notin Thread /\ Words + 1 \in 15 .. Words + 1
  BY StackAssumption DEF Owner
<1>7. StackTypes
  <2>1. IsMem(mem) /\ IsRegs(regs)
    BY <1>1 DEF IsMem, IsRegs
  <2>2. DOMAIN stack_ptr = Thread /\ DOMAIN kept = Thread
        /\ \A t \in Thread : stack_ptr[t] \in Addresses(t) \union {Junk}
    BY <1>1
  <2>3. pc \in CodePlaces
    BY <1>1 DEF CodePlaces
  <2> QED
    BY <1>1, <1>3, <1>4, <1>5, <1>6, <2>1, <2>2, <2>3 DEF StackTypes
<1>8. ThreadsInv
  BY <1>1, <1>3, <1>5, <1>6 DEF ThreadsInv, Owner
<1>9. DeadInv
  BY <1>1, <1>3, <1>5, <1>6 DEF DeadInv
<1>10. PhaseInv
  BY <1>1, <1>3, <1>5, Tags DEF PhaseInv
<1> QED
  BY <1>2, <1>7, <1>8, <1>9, <1>10 DEF IInv, CodeInv, IsrInv

\* Any instruction of thread_asm.S.
LEMMA ExecuteStep ==
  ASSUME IInv, NEW i \in 1 .. 15, Execute(i)
  PROVE  IInv'
<1>1. \/ i \in 1 .. 2 \/ i \in 3 .. 4 \/ i \in 5 .. 8 \/ i = 9 \/ i = 10
      \/ i \in 11 .. 14 \/ i = 15
  OBVIOUS
<1>2. CASE i \in 1 .. 2
  BY <1>2, LoadFirstStep
<1>3. CASE i \in 3 .. 4
  BY <1>3, ArgumentsStep
<1>4. CASE i \in 5 .. 8
  <2>1. PICK n \in 0 .. 3 : i = 5 + n
    <3>1. i - 5 \in 0 .. 3 /\ i = 5 + (i - 5)
      BY <1>4
    <3> QED
      BY <3>1
  <2>2. Execute(5 + n)
    BY <2>1
  <2> QED
    BY <2>2, SaveStep
<1>5. CASE i = 9
  BY <1>5, StorePointerStep
<1>6. CASE i = 10
  BY <1>6, SwitchStep
<1>7. CASE i \in 11 .. 14
  <2>1. PICK n \in 0 .. 3 : i = 11 + n
    <3>1. i - 11 \in 0 .. 3 /\ i = 11 + (i - 11)
      BY <1>7
    <3> QED
      BY <3>1
  <2>2. Execute(11 + n)
    BY <2>1
  <2> QED
    BY <2>2, RestoreStep
<1>8. CASE i = 15
  BY <1>8, RetStep
<1> QED
  BY <1>1, <1>2, <1>3, <1>4, <1>5, <1>6, <1>7, <1>8

\* Any instruction of isr_common.
LEMMA ExecuteIsrStep ==
  ASSUME IInv, NEW i \in 16 .. 24, ExecuteIsr(i)
  PROVE  IInv'
<1>1. CASE i = 24
  BY <1>1, IretStep
<1>2. CASE i # 24
  <2>1. i \in 16 .. 23
    BY <1>2
  <2> QED
    BY <2>1, IsrStep
<1> QED
  BY <1>1, <1>2

\* Next by the actions' names.
LEMMA NextIs ==
  ASSUME Next
  PROVE  \/ \E t \in Thread : ThreadSetupStack(t) \/ ThreadLoadFirst(t)
         \/ \E t \in Thread, k \in 0 .. MaxLocals : ThreadContextSwitch(t, k)
         \/ Compute \/ ThreadMainStarts \/ SwitchReturns
         \/ \E i \in 1 .. 15 : Execute(i)
         \/ \E i \in 16 .. 24 : ExecuteIsr(i)
         \/ Interrupt
<1>1. IsrStart - 1 = 15 /\ IsrStart = 16 /\ Len(Code) = 24
  BY CodeList
<1> QED
  BY <1>1 DEF Next

\* A step that changes nothing.
LEMMA StutterStep ==
  ASSUME IInv, UNCHANGED vars
  PROVE  IInv'
<1>1. UNCHANGED <<mem, regs, pc, stack_ptr, current, kept, before>>
  BY DEF vars
<1>2. InIsr' = InIsr
  BY <1>1 DEF InIsr
<1>3. Pc' = Pc /\ Regs' = Regs /\ Mem' = Mem
  BY <1>1, <1>2 DEF Pc, Regs, Mem
<1>4. Here' = Here /\ Depth' = Depth
  BY <1>3 DEF Here, Depth
<1>5. IsrInv'
  BY <1>1, <1>2, <1>4 DEF IInv, IsrInv
<1>6. CodeInv'
  BY <1>1, <1>3, CodeRests DEF IInv
<1> QED
  BY <1>5, <1>6 DEF IInv

\* The invariant is inductive.
LEMMA NextIInv ==
  ASSUME IInv, [Next]_vars
  PROVE  IInv'
<1>1. ASSUME NEW t \in Thread, ThreadSetupStack(t) PROVE IInv'
  BY <1>1, ThreadSetupStackStep
<1>2. ASSUME NEW t \in Thread, ThreadLoadFirst(t) PROVE IInv'
  BY <1>2, ThreadLoadFirstStep
<1>3. ASSUME NEW t \in Thread, NEW k \in 0 .. MaxLocals, ThreadContextSwitch(t, k)
      PROVE  IInv'
  BY <1>3, ThreadContextSwitchStep
<1>4. ASSUME NEW i \in 1 .. 15, Execute(i) PROVE IInv'
  BY <1>4, ExecuteStep
<1>5. ASSUME NEW i \in 16 .. 24, ExecuteIsr(i) PROVE IInv'
  BY <1>5, ExecuteIsrStep
<1>6. CASE Next
  BY <1>1, <1>2, <1>3, <1>4, <1>5, <1>6, NextIs, ComputeStep, ThreadMainStartsStep,
     SwitchReturnsStep, InterruptStep
<1>7. CASE UNCHANGED vars
  BY <1>7, StutterStep
<1> QED
  BY <1>6, <1>7

\* The inductive invariant holds of every behaviour.
THEOREM InductiveInvariant == Spec => []IInv
<1>1. Init => IInv
  BY InitIInv
<1>2. IInv /\ [Next]_vars => IInv'
  BY NextIInv
<1> QED
  BY <1>1, <1>2, PTL DEF Spec

-----------------------------------------------------------------------------
(* What the invariant says of the processor's own registers and memory. *)

\* Also from an interrupt to iret the stack pointer is on the stack of the interrupted code,
\* and no other stack is touched.
LEMMA Machine ==
  ASSUME IInv
  PROVE  /\ IsMem(mem) /\ IsRegs(regs)
         /\ pc \in CodePlaces \union {Asm(i) : i \in 16 .. 24}
         /\ \E top \in 1 .. Words + 1 : regs["esp"] = Addr(Here, top)
         /\ \A t \in Owner \ {Here} : mem[t] = Mem[t]
<1>1. CASE ~ InIsr
  <2>1. PICK o \in Owner, top \in 15 .. Words + 1 :
          o = Here /\ regs["esp"] = Addr(o, top) /\ IsMem(mem) /\ IsRegs(regs)
    BY <1>1, Running
  <2>2. top \in 1 .. Words + 1
    BY StackAssumption
  <2>3. Pc = pc /\ Mem = mem /\ pc \in CodePlaces
    BY <1>1, Outside DEF IInv, CodeInv, StackTypes
  <2> QED
    BY <2>1, <2>2, <2>3
<1>2. CASE InIsr
  <2>1. /\ IsMem(mem) /\ IsRegs(regs) /\ pc \in {Asm(i) : i \in 16 .. 24}
        /\ regs["esp"] = Addr(Here, Depth - IsrWords(pc[2]))
    BY <1>2 DEF IInv, IsrInv
  <2>2. PICK i \in 16 .. 24 : pc[2] = i
    BY <2>1, Tags
  <2>3. PICK depth \in 15 .. Words + 1 : depth = Depth
    BY DEF IInv, CodeInv, StackTypes
  <2>4. IsrWords(i) \in 3 .. 14
    <3>1. i = 16 \/ i = 17 \/ i = 18 \/ i = 19 \/ i = 20 \/ i = 21 \/ i = 22 \/ i = 23 \/ i = 24
      OBVIOUS
    <3> QED
      BY <3>1, WordsPushed
  <2>5. Depth - IsrWords(pc[2]) \in 1 .. Words + 1
    <3>1. PICK n \in 3 .. 14 : n = IsrWords(i)
      BY <2>4
    <3>2. depth - n \in 1 .. Words + 1
      BY StackAssumption
    <3> QED
      BY <2>2, <2>3, <3>1, <3>2
  <2>6. \A t \in Owner \ {Here} : mem[t] = Mem[t]
    <3>1. Mem = [mem EXCEPT ![Here] = before.stack]
      <4>1. regs["esp"][2] = Here
        BY <2>1, Tags
      <4> QED
        BY <1>2, <4>1 DEF Mem
    <3> QED
      BY <2>1, <3>1 DEF IsMem
  <2> QED
    BY <2>1, <2>5, <2>6
<1> QED
  BY <1>1, <1>2

\* The invariant implies the types of the variables.
LEMMA InvTypeOK ==
  ASSUME IInv
  PROVE  TypeOK
<1>1. PICK top \in 1 .. Words + 1 : regs["esp"] = Addr(Here, top)
  BY Machine
<1>2. Here \in Owner /\ current \in Owner
      /\ \A t \in Thread : stack_ptr[t] \in Addresses(t) \union {Junk}
  BY DEF IInv, CodeInv, StackTypes
<1>3. \A o \in Owner : DOMAIN mem[o] = 1 .. Words
  <2>1. IsMem(mem)
    BY Machine
  <2>2. \A o \in Owner : mem[o] = [i \in 1 .. Words |-> mem[o][i]]
    BY <2>1 DEF IsMem
  <2> QED
    BY <2>2
<1>4. DOMAIN regs = Register
  BY Machine DEF IsRegs
<1>5. \E o \in Owner : regs["esp"] \in Addresses(o)
  BY <1>1, <1>2 DEF Addresses
<1>6. pc \in {InC, ThreadMain, Returned} \union {Asm(i) : i \in 1 .. Len(Code)}
  <2>1. Len(Code) = 24
    BY CodeList
  <2>2. pc \in CodePlaces \union {Asm(i) : i \in 16 .. 24}
    BY Machine
  <2> QED
    BY <2>1, <2>2 DEF CodePlaces
<1> QED
  BY <1>2, <1>3, <1>4, <1>5, <1>6 DEF TypeOK

\* What the invariant says of a suspended thread is its frame.
LEMMA InvSavedFramesIntact ==
  ASSUME IInv
  PROVE  SavedFramesIntact
<1> SUFFICES ASSUME NEW t \in Thread, stack_ptr[t] # Junk, t # current, ~ Owns(t)
             PROVE  Frame(t)
  BY DEF SavedFramesIntact
<1>1. t # Here
  BY Machine, Tags DEF Owns
<1>2. Suspended(t) /\ mem[t] = Mem[t]
  BY <1>1, Machine DEF IInv, CodeInv, ThreadsInv, Owner
<1>3. PICK j : j = stack_ptr[t][3] /\ FrameIn(mem[t], kept[t], t, j, 0)
  BY <1>2 DEF Suspended
<1>4. j \in 23 .. Words - 7
  BY <1>3, FrameBounds DEF FrameIn
<1>5. /\ \A k \in 1 .. 4 : mem[t][j + k - 1] = kept[t].saved[RestoreOrder[k]]
      /\ mem[t][j + 4] = kept[t].from /\ kept[t].esp = Addr(t, j + 5)
  BY <1>3 DEF FrameIn, GoesOn
<1>6. /\ mem[t][j + 1 - 1] = kept[t].saved["esi"] /\ mem[t][j + 2 - 1] = kept[t].saved["edi"]
      /\ mem[t][j + 3 - 1] = kept[t].saved["ebx"] /\ mem[t][j + 4 - 1] = kept[t].saved["ebp"]
  <2>1. /\ RestoreOrder[1] = "esi" /\ RestoreOrder[2] = "edi"
        /\ RestoreOrder[3] = "ebx" /\ RestoreOrder[4] = "ebp"
    BY DEF RestoreOrder
  <2>2. 1 \in 1 .. 4 /\ 2 \in 1 .. 4 /\ 3 \in 1 .. 4 /\ 4 \in 1 .. 4
    OBVIOUS
  <2> QED
    BY <1>5, <2>1, <2>2
<1>7. j + 1 - 1 = j /\ j + 2 - 1 = j + 1 /\ j + 3 - 1 = j + 2 /\ j + 4 - 1 = j + 3
  BY <1>4
<1> QED
  BY <1>3, <1>5, <1>6, <1>7 DEF Frame

\* After the last pop and ret the registers are those of the call.
LEMMA InvResumesAsItLeft ==
  ASSUME IInv
  PROVE  ResumesAsItLeft
<1> SUFFICES ASSUME pc \in {Returned, ThreadMain}
             PROVE  /\ pc = kept[current].from /\ regs["esp"] = kept[current].esp
                    /\ \A r \in CalleeSaved : regs[r] = kept[current].saved[r]
  BY DEF ResumesAsItLeft
<1>1. ~ InIsr
  BY Places DEF CodePlaces
<1>2. Pc = pc /\ Regs = regs /\ Mem = mem /\ CodeInv
  BY <1>1, Running
<1>3. Restoring(5) /\ pc = kept[current].from
  BY <1>2 DEF CodeInv, PhaseInv
<1>4. PICK o \in Owner, top \in 15 .. Words + 1 :
        o = Here /\ top = Depth /\ regs["esp"] = Addr(o, top)
  BY <1>1, Running
<1>5. regs["esp"] = kept[current].esp
  <2>1. (top - 5) + 5 = top
    BY StackAssumption
  <2>2. kept[current].esp = Addr(o, (top - 5) + 5)
    BY <1>3, <1>4 DEF Restoring, FrameIn, GoesOn
  <2> QED
    BY <1>4, <2>1, <2>2
<1>6. ASSUME NEW r \in CalleeSaved
      PROVE  regs[r] = kept[current].saved[r]
  <2>1. PICK k \in 1 .. 4 : r = RestoreOrder[k]
    BY Orders
  <2>2. k <= 5
    OBVIOUS
  <2> QED
    BY <1>2, <1>3, <2>1, <2>2 DEF Restoring
<1> QED
  BY <1>3, <1>5, <1>6

\* The three topmost words of a stack.
LEMMA TopWords ==
  ASSUME NEW s, s = [i \in 1 .. Words |-> s[i]]
  PROVE  SubSeq(s, Words - 2, Words) = <<s[Words - 2], s[Words - 1], s[Words]>>
<1> DEFINE S == {s[i] : i \in 1 .. Words}
           sub == SubSeq(s, Words - 2, Words)
<1>1. Words \in Nat /\ Words >= 32
  BY StackAssumption
<1>2. s \in Seq(S) /\ Len(s) = Words
  BY <1>1
<1> HIDE DEF S
<1>3. PICK m \in 1 .. Words + 1, n \in 0 .. Words : m = Words - 2 /\ n = Words /\ m - 1 <= n
  BY <1>1
<1>4. /\ SubSeq(s, m, n) \in Seq(S) /\ Len(SubSeq(s, m, n)) = (n - m) + 1
      /\ \A i \in 1 .. (n - m) + 1 : SubSeq(s, m, n)[i] = s[m + i - 1]
  BY <1>1, <1>2, <1>3, SubSeqProperties
<1>5. sub = SubSeq(s, m, n) /\ (n - m) + 1 = 3
  BY <1>1, <1>3
<1> HIDE DEF sub
<1>6. sub[1] = s[Words - 2] /\ sub[2] = s[Words - 1] /\ sub[3] = s[Words]
  <2>1. m + 1 - 1 = Words - 2 /\ m + 2 - 1 = Words - 1 /\ m + 3 - 1 = Words
    BY <1>1, <1>3
  <2>2. sub[1] = s[m + 1 - 1] /\ sub[2] = s[m + 2 - 1] /\ sub[3] = s[m + 3 - 1]
    BY <1>4, <1>5
  <2> QED
    BY <2>1, <2>2
<1>7. sub = <<sub[1], sub[2], sub[3]>>
  <2>1. sub \in Seq(S) /\ Len(sub) = 3
    BY <1>4, <1>5
  <2> QED
    BY <2>1
<1> QED
  BY <1>6, <1>7 DEF sub

\* A new thread finds its arguments on top of its stack.
LEMMA InvEntersWithItsArguments ==
  ASSUME IInv
  PROVE  EntersWithItsArguments
<1> SUFFICES ASSUME pc = ThreadMain
             PROVE  /\ Owns(current)
                    /\ SubSeq(Stack, Top, Words) =
                         <<Zero, <<"fn", current>>, <<"arg", current>>>>
  BY DEF EntersWithItsArguments
<1>1. ~ InIsr
  BY Places DEF CodePlaces
<1>2. Pc = pc /\ Regs = regs /\ Mem = mem /\ CodeInv
  BY <1>1, Running
<1>3. PICK o \in Owner, top \in 15 .. Words + 1 :
        o = Here /\ top = Depth /\ regs["esp"] = Addr(o, top) /\ Top = top /\ Stack = mem[o]
        /\ IsMem(mem)
  BY <1>1, Running
<1>4. Restoring(5) /\ kept[current].from = ThreadMain
  BY <1>2 DEF CodeInv, PhaseInv
<1>5. o = current /\ GoesOn(mem[o], kept[o], o, top - 5)
  BY <1>2, <1>3, <1>4 DEF Restoring, FrameIn
<1>6. /\ top - 5 = Words - 7 /\ mem[o][Words - 2] = Zero
      /\ mem[o][Words - 1] = <<"fn", o>> /\ mem[o][Words] = <<"arg", o>>
  BY <1>4, <1>5, Tags DEF GoesOn
<1>7. top = Words - 2
  BY <1>6, StackAssumption
<1>8. mem[o] = [i \in 1 .. Words |-> mem[o][i]]
  BY <1>3 DEF IsMem
<1>9. SubSeq(Stack, Top, Words) = <<Zero, <<"fn", current>>, <<"arg", current>>>>
  BY <1>3, <1>5, <1>6, <1>7, <1>8, TopWords
<1> QED
  BY <1>3, <1>5, <1>9, Tags DEF Owns

-----------------------------------------------------------------------------
(* The theorems. *)

\* Stack pointers never leave their stacks, for any number of threads, stacks of any size and
\* interrupts between any two instructions; and the frame of a thread the processor has left
\* keeps its registers and its place until thread_restore pops them.
THEOREM StacksAreSound == Spec => []StacksSound
<1>1. IInv => StacksSound
  BY InvTypeOK, InvSavedFramesIntact DEF StacksSound
<1> QED
  BY <1>1, InductiveInvariant, PTL

\* Whatever happened since a thread called thread_context_switch_asm, thread_restore returns
\* to its call with the registers of the call; and it enters a new thread's thread_main with
\* fn and arg where a call would have put them.
THEOREM ThreadsResume == Spec => []ThreadsGoOn
<1>1. IInv => ThreadsGoOn
  BY InvResumesAsItLeft, InvEntersWithItsArguments DEF ThreadsGoOn
<1> QED
  BY <1>1, InductiveInvariant, PTL

\* Only iret leaves isr_common.
LEMMA LeavesByIret ==
  ASSUME IInv, [Next]_vars, InIsr, pc' \notin {Asm(i) : i \in 16 .. 24}
  PROVE  ExecuteIsr(24)
<1>1. pc \in {Asm(i) : i \in 16 .. 24}
  BY DEF IInv, IsrInv
<1>2. pc \notin CodePlaces
  BY Places
<1>3. ~ UNCHANGED vars
  BY <1>1 DEF vars
<1>4. /\ pc # InC /\ pc # ThreadMain /\ pc # Returned
      /\ \A i \in 1 .. 15 : pc # Asm(i)
  BY <1>2 DEF CodePlaces
<1>5. ~ (\E t \in Thread : ThreadSetupStack(t) \/ ThreadLoadFirst(t))
  BY <1>4 DEF ThreadSetupStack, ThreadLoadFirst
<1>6. ~ (\E t \in Thread, k \in 0 .. MaxLocals : ThreadContextSwitch(t, k))
  BY <1>4 DEF ThreadContextSwitch
<1>7. ~ Compute /\ ~ ThreadMainStarts /\ ~ SwitchReturns /\ ~ Interrupt
  BY <1>4 DEF Compute, ThreadMainStarts, SwitchReturns, Interrupt
<1>8. ~ (\E i \in 1 .. 15 : Execute(i))
  BY <1>4, ExecuteIs
<1>9. PICK i \in 16 .. 24 : ExecuteIsr(i)
  BY <1>3, <1>5, <1>6, <1>7, <1>8, NextIs
<1>10. i = 24
  <2>1. SUFFICES ASSUME i # 24 PROVE FALSE
    OBVIOUS
  <2>2. pc' = Asm(i + 1)
    BY <1>9, <2>1, ExecuteIsrIs
  <2>3. i + 1 \in 16 .. 24
    BY <2>1
  <2> QED
    BY <2>2, <2>3
<1> QED
  BY <1>9, <1>10

\* isr_common and the processor's iret give the interrupted code back its registers, its place
\* and its stack, between whichever two instructions the interrupt came.
THEOREM InterruptsGoUnnoticed == Spec => InterruptGoesUnnoticed
<1>1. ASSUME IInv, [Next]_vars
      PROVE  InIsr /\ pc' \notin {Asm(i) : i \in IsrStart .. Len(Code)} =>
               /\ pc' = before.pc /\ regs' = before.regs
               /\ Stack' = before.stack
  <2>1. IsrStart = 16 /\ Len(Code) = 24
    BY CodeList
  <2> SUFFICES ASSUME InIsr, pc' \notin {Asm(i) : i \in 16 .. 24}
               PROVE  pc' = before.pc /\ regs' = before.regs /\ Stack' = before.stack
    BY <2>1
  <2>2. ExecuteIsr(24)
    BY <1>1, LeavesByIret
  <2> QED
    BY <1>1, <2>2, IretStep
<1> QED
  BY <1>1, InductiveInvariant, PTL DEF Spec, InterruptGoesUnnoticed
=============================================================================

--------------------------- MODULE Arm64TrapProofs --------------------------
(***************************************************************************)
(* Proofs about Arm64Trap, for every register contents and any bound on    *)
(* the nesting of contexts.  The handlers leave the interrupt mask alone   *)
(* (HandlerLocks is FALSE), as do_irq_el1_spx does.                        *)
(***************************************************************************)
EXTENDS Arm64Trap, SequenceTheorems, TLAPS

-----------------------------------------------------------------------------
(* What Append and Front do to a history of contexts *)

\* Append adds an element and keeps the others.
LEMMA AppendFacts ==
  ASSUME NEW S, NEW s \in Seq(S), NEW e \in S
  PROVE  /\ Append(s, e) \in Seq(S)
         /\ Len(Append(s, e)) = Len(s) + 1
         /\ DOMAIN Append(s, e) = 1 .. Len(s) + 1
         /\ \A i \in 1 .. Len(s) : Append(s, e)[i] = s[i]
         /\ Append(s, e)[Len(s) + 1] = e
OBVIOUS

\* Front drops the last element and keeps the others.
LEMMA FrontFacts ==
  ASSUME NEW S, NEW s \in Seq(S), Len(s) > 0
  PROVE  /\ Front(s) \in Seq(S)
         /\ Len(Front(s)) = Len(s) - 1
         /\ DOMAIN Front(s) = 1 .. Len(s) - 1
         /\ \A i \in 1 .. Len(s) - 1 : Front(s)[i] = s[i]
<1> DEFINE n == Len(s) - 1
<1>1. n \in Nat /\ Len(s) = n + 1 /\ DOMAIN s = 1 .. n + 1
  OBVIOUS
<1> HIDE DEF n
<1>2. \A i \in 1 .. n : s[i] \in S
  BY <1>1
<1>3. /\ SubSeq(s, 1, n) \in Seq(S)
      /\ Len(SubSeq(s, 1, n)) = IF 1 <= n THEN n - 1 + 1 ELSE 0
      /\ \A i \in 1 .. n - 1 + 1 : SubSeq(s, 1, n)[i] = s[1 + i - 1]
  BY <1>1, <1>2, SubSeqProperties
<1>4. /\ Len(SubSeq(s, 1, n)) = n
      /\ DOMAIN SubSeq(s, 1, n) = 1 .. n
      /\ \A i \in 1 .. n : SubSeq(s, 1, n)[i] = s[i]
  BY <1>1, <1>3
<1>5. Front(s) = SubSeq(s, 1, n)
  BY DEF Front, n
<1>6. Len(s) - 1 = n
  BY DEF n
<1> QED
  BY <1>3, <1>4, <1>5, <1>6

\* The elements of a sequence over S are in S.
LEMMA ElementFact ==
  ASSUME NEW S, NEW s \in Seq(S)
  PROVE  DOMAIN s = 1 .. Len(s) /\ Len(s) \in Nat /\ \A i \in DOMAIN s : s[i] \in S
OBVIOUS

\* A sequence that has no element is the empty one.
LEMMA EmptyFact ==
  ASSUME NEW S, NEW s \in Seq(S), Len(s) = 0
  PROVE  s = << >>
OBVIOUS

-----------------------------------------------------------------------------
(* The invariant, action by action *)

\* The initial state: main runs, nothing is interrupted.
LEMMA InitTrapInv == Init => TrapInv
<1> SUFFICES ASSUME Init PROVE TrapInv
  OBVIOUS
<1>1. TypeOK
  BY TrapAssumption DEF Init, TypeOK, Places, Masks, Words
<1>2. StackBalanced /\ Nesting /\ ContextKept
  BY DEF Init, StackBalanced, Nesting, ContextKept, Body, IrqPlaces, SyncPlaces
<1>3. /\ stack \in Seq([Frame -> Words])
      /\ open \in Seq(0 .. MaxSections)
      /\ saved \in Seq(Contexts)
  BY TrapAssumption DEF Init
<1> QED
  BY <1>1, <1>2, <1>3 DEF TrapInv, Init

\* The two entries of the vector table and what each runs.
LEMMA BodyFacts ==
  /\ DOMAIN Body = {"irq_entry", "sync_entry"}
  /\ Body["irq_entry"] = "irq"
  /\ Body["sync_entry"] = "sync"
BY DEF Body

\* How many contexts are interrupted and how many frames there are, by place.
LEMMA Depths ==
  ASSUME TrapInv
  PROVE  /\ Len(saved) \in Nat /\ Len(stack) \in Nat /\ Len(open) = Len(saved) + 1
         /\ DOMAIN saved = 1 .. Len(saved) /\ DOMAIN open = 1 .. Len(open)
         /\ DOMAIN stack = 1 .. Len(stack)
         /\ pc = "main" => Len(saved) = 0 /\ Len(stack) = 0
         /\ pc \in {"irq_entry", "eret"} => Len(saved) = 1 /\ Len(stack) = 0
         /\ pc \in {"irq", "exit_sys", "exit_regs"} => Len(saved) = 1 /\ Len(stack) = 1
         /\ pc = "sync_entry" => Len(stack) = Len(saved) - 1
         /\ pc \in {"sync", "halt"} => Len(stack) = Len(saved)
BY BodyFacts DEF TrapInv, TypeOK, StackBalanced, Nesting, IrqPlaces, SyncPlaces

\* Steps of main leave everything but the registers, the mask and the count
\* of sections alone.
LEMMA MainStep ==
  ASSUME TrapInv, pc = "main", pc' = pc,
         regs' \in [Regs -> Words], I' \in Masks,
         open' \in Seq(0 .. MaxSections), Len(open') = Len(open),
         UNCHANGED <<elr, spsr, stack, saved>>
  PROVE  TrapInv'
<1>1. TypeOK'
  <2>1. (\A i \in DOMAIN open' : open'[i] \in 0 .. MaxSections) /\ Len(open') = Len(saved') + 1
    BY Depths, ElementFact
  <2> QED
    BY <2>1 DEF TrapInv, TypeOK
<1>2. StackBalanced' /\ Nesting' /\ ContextKept'
  BY DEF TrapInv, StackBalanced, Nesting, ContextKept, IrqPlaces, SyncPlaces
<1> QED
  BY <1>1, <1>2 DEF TrapInv

\* Opening or closing a section changes the count of the running context only.
LEMMA OpenStep ==
  ASSUME TrapInv, NEW n \in 0 .. MaxSections
  PROVE  /\ [open EXCEPT ![Len(open)] = n] \in Seq(0 .. MaxSections)
         /\ Len([open EXCEPT ![Len(open)] = n]) = Len(open)
         /\ Len(open) \in DOMAIN open
         /\ Sections \in 0 .. MaxSections
<1>1. open \in Seq(0 .. MaxSections) /\ Len(open) \in Nat /\ Len(open) > 0
  BY Depths DEF TrapInv
<1>2. DOMAIN open = 1 .. Len(open) /\ Len(open) \in DOMAIN open
  BY <1>1
<1>3. Sections \in 0 .. MaxSections
  BY <1>1, <1>2, ElementFact DEF Sections
<1>4. [open EXCEPT ![Len(open)] = n] \in Seq(0 .. MaxSections)
  BY <1>1, <1>2
<1>5. Len([open EXCEPT ![Len(open)] = n]) = Len(open)
  BY <1>1, <1>2
<1> QED
  BY <1>2, <1>3, <1>4, <1>5

\* Taking an exception, from main or, for a panic, from the handler.
LEMMA VectorStep ==
  ASSUME TrapInv, NEW kind, NEW place, Vector(kind, place),
         \/ kind = "irq" /\ place = "irq_entry" /\ pc = "main" /\ I = "open"
         \/ kind = "sync" /\ place = "sync_entry" /\ pc \in {"main", "irq"}
  PROVE  TrapInv'
<1> DEFINE c == [by |-> kind, pc |-> pc, regs |-> regs, I |-> I]
<1>1. c \in Contexts
  BY DEF TrapInv, TypeOK, Contexts
<1>2. saved' = Append(saved, c) /\ open' = Append(open, 0)
  BY DEF Vector
<1>3. /\ saved' \in Seq(Contexts)
      /\ Len(saved') = Len(saved) + 1
      /\ DOMAIN saved' = 1 .. Len(saved) + 1
      /\ \A i \in 1 .. Len(saved) : saved'[i] = saved[i]
      /\ saved'[Len(saved) + 1] = c
  BY <1>1, <1>2, AppendFacts DEF TrapInv
<1>4. 0 \in 0 .. MaxSections
  BY TrapAssumption
<1>5. open' \in Seq(0 .. MaxSections) /\ Len(open') = Len(open) + 1
  BY <1>2, <1>4, AppendFacts DEF TrapInv
<1>6. /\ pc' = place /\ I' = "masked" /\ elr' = pc /\ spsr' = I
      /\ regs' = regs /\ stack' = stack
  BY DEF Vector
<1>7. c.by = kind /\ c.pc = pc /\ c.regs = regs /\ c.I = I
  OBVIOUS
<1> HIDE DEF c
<1>8. TypeOK'
  <2>1. pc' \in Places /\ regs' \in [Regs -> Words] /\ I' \in Masks /\ elr' \in Words /\ spsr' \in Masks
    BY <1>6 DEF TrapInv, TypeOK, Places, Words, Masks
  <2>2. \A i \in DOMAIN stack' : stack'[i] \in [Frame -> Words]
    BY <1>6 DEF TrapInv, TypeOK
  <2>3. (\A i \in DOMAIN open' : open'[i] \in 0 .. MaxSections) /\ Len(open') = Len(saved') + 1
    BY <1>3, <1>5, Depths, ElementFact
  <2> QED
    BY <2>1, <2>2, <2>3 DEF TypeOK
<1>9. StackBalanced'
  <2>0. Len(stack) = Len(saved) /\ Len(saved) \in Nat
    <3>1. CASE pc = "main"
      BY <3>1, Depths
    <3>2. CASE pc = "irq"
      BY <3>2, Depths
    <3> QED
      BY <3>1, <3>2
  <2>1. Len(stack') = Len(saved') - 1
    <3>1. Len(saved') = Len(saved) + 1 /\ stack' = stack
      BY <1>3, <1>6
    <3> QED
      BY <2>0, <3>1
  <2>2. pc' \in DOMAIN Body
    BY <1>6, BodyFacts
  <2> QED
    BY <2>1, <2>2 DEF StackBalanced
<1>10. Nesting'
  BY <1>3, <1>6, <1>7, Depths DEF TrapInv, Nesting, IrqPlaces, SyncPlaces
<1>11. ContextKept'
  <2>1. pc' = "irq_entry" => saved'[1] = c
    BY <1>3, <1>6, Depths
  <2>2. pc' = "irq_entry" => InSysRegs(saved[1])' /\ regs' = saved'[1].regs
    BY <1>6, <1>7, <2>1 DEF InSysRegs
  <2>3. pc' \notin {"irq", "exit_sys", "exit_regs", "eret"}
    BY <1>6
  <2> QED
    BY <2>2, <2>3 DEF ContextKept
<1>12. \A i \in DOMAIN saved' : saved'[i].by = "irq" => saved'[i].pc = "main" /\ saved'[i].I = "open"
  BY <1>3, <1>7, Depths DEF TrapInv
<1> QED
  BY <1>3, <1>5, <1>6, <1>8, <1>9, <1>10, <1>11, <1>12 DEF TrapInv
\* kernel_entry pushes a frame that holds the interrupted context.
LEMMA EntryStep ==
  ASSUME TrapInv, kernel_entry
  PROVE  TrapInv'
<1> DEFINE f == [r \in Frame |-> CASE r = "elr" -> elr [] r = "spsr" -> spsr [] OTHER -> regs[r]]
<1>1. /\ pc \in {"irq_entry", "sync_entry"} /\ pc' = Body[pc]
      /\ stack' = Append(stack, f)
      /\ regs' = [regs EXCEPT !["x21"] = elr, !["x22"] = spsr, !["x0"] = "sp", !["x30"] = pc]
      /\ I' = I /\ elr' = elr /\ spsr' = spsr /\ open' = open /\ saved' = saved
  BY BodyFacts DEF kernel_entry
<1>2. regs \in [Regs -> Words] /\ elr \in Words /\ spsr \in Words /\ pc \in Words /\ "sp" \in Words
  BY DEF TrapInv, TypeOK, Words
<1>3. /\ f \in [Frame -> Words]
      /\ f["elr"] = elr /\ f["spsr"] = spsr
      /\ \A r \in Regs : f[r] = regs[r]
  BY <1>2 DEF Frame, Regs
<1> HIDE DEF f
<1>4. /\ stack' \in Seq([Frame -> Words])
      /\ Len(stack') = Len(stack) + 1
      /\ stack'[Len(stack) + 1] = f
  BY <1>1, <1>3, AppendFacts DEF TrapInv
<1>5. regs' \in [Regs -> Words]
  BY <1>1, <1>2
<1>6. (pc = "irq_entry" /\ pc' = "irq") \/ (pc = "sync_entry" /\ pc' = "sync")
  BY <1>1, BodyFacts
<1>7. TypeOK'
  <2>1. \A i \in DOMAIN stack' : stack'[i] \in [Frame -> Words]
    BY <1>4, ElementFact
  <2>2. pc' \in Places
    BY <1>6 DEF Places
  <2> QED
    BY <1>1, <1>5, <2>1, <2>2 DEF TrapInv, TypeOK
<1>8. StackBalanced'
  <2>1. Len(stack) = Len(saved) - 1 /\ Len(saved) \in Nat
    <3>1. CASE pc = "irq_entry"
      <4>1. Len(saved) = 1 /\ Len(stack) = 0
        BY <3>1, Depths
      <4> QED
        BY <4>1
    <3>2. CASE pc = "sync_entry"
      BY <3>2, Depths
    <3> QED
      BY <1>6, <3>1, <3>2
  <2>2. Len(stack') = Len(saved')
    BY <1>1, <1>4, <2>1
  <2>3. pc' \notin DOMAIN Body \cup {"eret"}
    BY <1>6, BodyFacts
  <2>4. Len(saved') \in Nat
    BY <1>1, <2>1
  <2> QED
    BY <2>2, <2>3, <2>4 DEF StackBalanced
<1>9. Nesting'
  BY <1>1, <1>6 DEF TrapInv, Nesting, IrqPlaces, SyncPlaces
<1>10. ContextKept'
  <2>1. ASSUME pc' = "irq"
        PROVE  InFrame(stack[1], saved[1])'
    <3>1. pc = "irq_entry" /\ Len(stack) = 0
      BY <1>6, <2>1, Depths
    <3>2. stack'[1] = f /\ saved'[1] = saved[1]
      BY <1>1, <1>4, <3>1
    <3>3. elr = saved[1].pc /\ spsr = saved[1].I /\ regs = saved[1].regs
      BY <3>1 DEF TrapInv, ContextKept, InSysRegs
    <3> QED
      BY <1>3, <3>2, <3>3 DEF InFrame
  <2> QED
    BY <1>6, <2>1 DEF ContextKept
<1> QED
  BY <1>1, <1>4, <1>7, <1>8, <1>9, <1>10 DEF TrapInv

\* The handler returns: it has changed registers only.
LEMMA HandlerStep ==
  ASSUME TrapInv, do_irq_el1_spx
  PROVE  TrapInv'
<1>1. /\ pc = "irq" /\ pc' = "exit_sys"
      /\ I' = I /\ elr' = elr /\ spsr' = spsr /\ stack' = stack /\ open' = open /\ saved' = saved
  BY DEF do_irq_el1_spx
<1>2. regs' \in [Regs -> Words]
  <2>1. PICK v \in Data : regs' = [r \in Regs |-> IF r \in CallerSaved THEN v ELSE regs[r]]
    BY DEF do_irq_el1_spx
  <2>2. v \in Words /\ regs \in [Regs -> Words]
    BY DEF TrapInv, TypeOK, Words
  <2> QED
    BY <2>1, <2>2
<1>3. TypeOK'
  BY <1>1, <1>2 DEF TrapInv, TypeOK, Places
<1>4. StackBalanced' /\ Nesting'
  BY <1>1, BodyFacts DEF TrapInv, StackBalanced, Nesting, IrqPlaces, SyncPlaces
<1>5. ContextKept'
  BY <1>1 DEF TrapInv, ContextKept, InFrame
<1> QED
  BY <1>1, <1>3, <1>4, <1>5 DEF TrapInv

\* kernel_fatal_error: masked and halted.
LEMMA SyncStep ==
  ASSUME TrapInv, do_sync_el1_spx
  PROVE  TrapInv'
<1>1. /\ pc = "sync" /\ pc' = "halt" /\ I' = "masked"
      /\ regs' = regs /\ elr' = elr /\ spsr' = spsr /\ stack' = stack /\ open' = open /\ saved' = saved
  BY DEF do_sync_el1_spx
<1>2. TypeOK'
  BY <1>1 DEF TrapInv, TypeOK, Places, Masks
<1>3. StackBalanced' /\ Nesting'
  BY <1>1, BodyFacts DEF TrapInv, StackBalanced, Nesting, IrqPlaces, SyncPlaces
<1>4. ContextKept'
  BY <1>1 DEF ContextKept
<1> QED
  BY <1>1, <1>2, <1>3, <1>4 DEF TrapInv

\* On the way out the top frame is the one of the interrupted context.
LEMMA TopFrame ==
  ASSUME TrapInv, pc \in {"exit_sys", "exit_regs"}
  PROVE  /\ Top = stack[1] /\ InFrame(Top, saved[1])
         /\ Top \in [Frame -> Words]
         /\ saved[1] \in Contexts
         /\ saved[1].pc = "main" /\ saved[1].I = "open"
<1>1. Len(stack) = 1 /\ Len(saved) = 1
  BY Depths
<1>2. Top = stack[1]
  BY <1>1 DEF Top
<1>3. InFrame(stack[1], saved[1])
  BY DEF TrapInv, ContextKept
<1>4. 1 \in DOMAIN saved /\ 1 \in DOMAIN stack
  BY <1>1, Depths
<1>5. saved[1] \in Contexts /\ stack[1] \in [Frame -> Words]
  BY <1>4, ElementFact DEF TrapInv
<1>6. saved[1].by = "irq"
  BY DEF TrapInv, Nesting, IrqPlaces
<1> QED
  BY <1>2, <1>3, <1>4, <1>5, <1>6 DEF TrapInv

\* kernel_exit loads ELR_EL1 and SPSR_EL1 of the interrupted context.
LEMMA ExitSysStep ==
  ASSUME TrapInv, ExitSys
  PROVE  TrapInv'
<1>1. /\ pc = "exit_sys" /\ pc' = "exit_regs"
      /\ elr' = Top["elr"] /\ spsr' = Top["spsr"]
      /\ regs' = [regs EXCEPT !["x21"] = Top["elr"], !["x22"] = Top["spsr"], !["x30"] = Top["x30"]]
      /\ I' = I /\ stack' = stack /\ open' = open /\ saved' = saved
  BY DEF ExitSys
<1>2. /\ Top = stack[1] /\ Top \in [Frame -> Words]
      /\ Top["elr"] = saved[1].pc /\ Top["spsr"] = saved[1].I
      /\ Top["x30"] = saved[1].regs["x30"]
      /\ saved[1].pc = "main" /\ saved[1].I = "open"
  BY <1>1, TopFrame DEF InFrame, Regs
<1>3. Top["elr"] \in Words /\ Top["spsr"] \in Words /\ Top["x30"] \in Words
  BY <1>2 DEF Frame, Regs
<1>4. regs' \in [Regs -> Words] /\ regs'["x30"] = Top["x30"]
  BY <1>1, <1>3 DEF TrapInv, TypeOK, Regs
<1>5. TypeOK'
  BY <1>1, <1>2, <1>3, <1>4 DEF TrapInv, TypeOK, Places, Masks
<1>6. StackBalanced' /\ Nesting'
  BY <1>1, BodyFacts DEF TrapInv, StackBalanced, Nesting, IrqPlaces, SyncPlaces
<1>7. ContextKept'
  <2>1. InFrame(stack[1], saved[1])'
    BY <1>1 DEF TrapInv, ContextKept, InFrame
  <2>2. InSysRegs(saved[1])' /\ regs'["x30"] = saved'[1].regs["x30"]
    BY <1>1, <1>2, <1>4 DEF InSysRegs
  <2> QED
    BY <1>1, <2>1, <2>2 DEF ContextKept
<1> QED
  BY <1>1, <1>5, <1>6, <1>7 DEF TrapInv

\* kernel_exit loads the other registers and pops the frame.
LEMMA ExitRegsStep ==
  ASSUME TrapInv, ExitRegs
  PROVE  TrapInv'
<1>1. /\ pc = "exit_regs" /\ pc' = "eret"
      /\ regs' = [r \in Regs |-> IF r = "x30" THEN regs[r] ELSE Top[r]]
      /\ stack' = Front(stack)
      /\ I' = I /\ elr' = elr /\ spsr' = spsr /\ open' = open /\ saved' = saved
  BY DEF ExitRegs
<1>2. /\ \A r \in Regs : Top[r] = saved[1].regs[r]
      /\ saved[1].regs \in [Regs -> Words]
  BY <1>1, TopFrame DEF InFrame, Contexts
<1>3. InSysRegs(saved[1]) /\ regs["x30"] = saved[1].regs["x30"]
  BY <1>1 DEF TrapInv, ContextKept
<1>4. regs' = saved[1].regs
  <2>1. \A r \in Regs : regs'[r] = saved[1].regs[r]
    BY <1>1, <1>2, <1>3
  <2>2. regs' = [r \in Regs |-> regs'[r]]
    BY <1>1
  <2> QED
    BY <1>2, <2>1, <2>2
<1>5. Len(stack) = 1 /\ Len(saved) = 1
  BY <1>1, Depths
<1>6. stack' \in Seq([Frame -> Words]) /\ Len(stack') = 0
  <2>1. stack \in Seq([Frame -> Words]) /\ Len(stack) > 0
    BY <1>5 DEF TrapInv
  <2>2. Front(stack) \in Seq([Frame -> Words]) /\ Len(Front(stack)) = Len(stack) - 1
    BY <2>1, FrontFacts
  <2> QED
    BY <1>1, <1>5, <2>2
<1>7. TypeOK'
  <2>1. \A i \in DOMAIN stack' : stack'[i] \in [Frame -> Words]
    BY <1>6, ElementFact
  <2> QED
    BY <1>1, <1>2, <1>4, <2>1 DEF TrapInv, TypeOK, Places
<1>8. StackBalanced'
  BY <1>1, <1>5, <1>6 DEF StackBalanced
<1>9. Nesting'
  BY <1>1 DEF TrapInv, Nesting, IrqPlaces, SyncPlaces
<1>10. ContextKept'
  BY <1>1, <1>3, <1>4 DEF ContextKept, InSysRegs
<1> QED
  BY <1>1, <1>6, <1>7, <1>8, <1>9, <1>10 DEF TrapInv

\* eret: main again, in the context that was interrupted.
LEMMA EretContext ==
  ASSUME TrapInv, Eret
  PROVE  /\ Len(saved) = 1
         /\ pc' = saved[1].pc /\ regs' = saved[1].regs /\ I' = saved[1].I
         /\ pc' = "main" /\ I' = "open"
<1>1. pc = "eret" /\ pc' = elr /\ I' = spsr /\ regs' = regs
  BY DEF Eret
<1>2. elr = saved[1].pc /\ spsr = saved[1].I /\ regs = saved[1].regs
  BY <1>1 DEF TrapInv, ContextKept, InSysRegs
<1>3. Len(saved) = 1 /\ saved[1].by = "irq" /\ 1 \in DOMAIN saved
  BY <1>1, Depths DEF TrapInv, Nesting, IrqPlaces
<1> QED
  BY <1>1, <1>2, <1>3 DEF TrapInv

\* The return from the exception: the interrupted context goes on with its mask.
LEMMA EretStep ==
  ASSUME TrapInv, Eret
  PROVE  TrapInv'
<1>1. /\ pc = "eret" /\ open' = Front(open) /\ saved' = Front(saved)
      /\ regs' = regs /\ elr' = elr /\ spsr' = spsr /\ stack' = stack
  BY DEF Eret
<1>2. Len(saved) = 1 /\ pc' = "main" /\ I' = "open"
  BY EretContext
<1>3. Len(stack) = 0 /\ Len(open) = 2
  BY <1>1, <1>2, Depths
<1>4. saved' \in Seq(Contexts) /\ Len(saved') = 0
  <2>1. saved \in Seq(Contexts) /\ Len(saved) > 0
    BY <1>2 DEF TrapInv
  <2>2. Front(saved) \in Seq(Contexts) /\ Len(Front(saved)) = Len(saved) - 1
    BY <2>1, FrontFacts
  <2> QED
    BY <1>1, <1>2, <2>2
<1>5. open' \in Seq(0 .. MaxSections) /\ Len(open') = 1
  <2>1. open \in Seq(0 .. MaxSections) /\ Len(open) > 0
    BY <1>3 DEF TrapInv
  <2>2. Front(open) \in Seq(0 .. MaxSections) /\ Len(Front(open)) = Len(open) - 1
    BY <2>1, FrontFacts
  <2> QED
    BY <1>1, <1>3, <2>2
<1>6. saved' = << >>
  BY <1>4, EmptyFact
<1>7. TypeOK'
  <2>1. \A i \in DOMAIN open' : open'[i] \in 0 .. MaxSections
    BY <1>5, ElementFact
  <2> QED
    BY <1>1, <1>2, <1>4, <1>5, <2>1 DEF TrapInv, TypeOK, Places, Masks
<1>8. StackBalanced'
  <2>1. Len(stack') = Len(saved') /\ Len(saved') \in Nat
    BY <1>1, <1>3, <1>4
  <2>2. pc' \notin DOMAIN Body \cup {"eret"}
    BY <1>2, BodyFacts
  <2> QED
    BY <2>1, <2>2 DEF StackBalanced
<1>9. Nesting' /\ ContextKept'
  BY <1>2, <1>6 DEF Nesting, ContextKept, IrqPlaces, SyncPlaces
<1> QED
  BY <1>1, <1>4, <1>5, <1>6, <1>7, <1>8, <1>9 DEF TrapInv

-----------------------------------------------------------------------------
(* The theorems *)

\* Every step keeps the invariant, when handlers leave the mask alone.
LEMMA NextTrapInv ==
  ASSUME ~HandlerLocks, TrapInv, [Next]_vars
  PROVE  TrapInv'
<1>1. CASE Work
  <2>1. PICK r \in Regs, v \in Data : regs' = [regs EXCEPT ![r] = v]
    BY <1>1 DEF Work
  <2>2. regs' \in [Regs -> Words]
    BY <2>1 DEF TrapInv, TypeOK, Words
  <2> QED
    BY <1>1, <2>2, MainStep DEF Work, TrapInv, TypeOK
<1>2. CASE arch_irq_lock
  <2>1. pc = "main" /\ Sections < MaxSections /\ Sections \in 0 .. MaxSections
    BY <1>2, OpenStep, TrapAssumption DEF arch_irq_lock, Running
  <2>2. Sections + 1 \in 0 .. MaxSections
    BY <2>1, TrapAssumption
  <2>3. open' = [open EXCEPT ![Len(open)] = Sections + 1]
    BY <1>2 DEF arch_irq_lock, Sections
  <2>4. open' \in Seq(0 .. MaxSections) /\ Len(open') = Len(open)
    BY <2>2, <2>3, OpenStep
  <2> QED
    BY <1>2, <2>1, <2>4, MainStep DEF arch_irq_lock, TrapInv, TypeOK, Masks
<1>3. CASE arch_irq_unlock
  <2>1. pc = "main" /\ Sections > 0 /\ Sections \in 0 .. MaxSections
    BY <1>3, OpenStep, TrapAssumption DEF arch_irq_unlock, Running
  <2>2. Sections - 1 \in 0 .. MaxSections
    BY <2>1, TrapAssumption
  <2>3. open' = [open EXCEPT ![Len(open)] = Sections - 1]
    BY <1>3 DEF arch_irq_unlock, Sections
  <2>4. open' \in Seq(0 .. MaxSections) /\ Len(open') = Len(open)
    BY <2>2, <2>3, OpenStep
  <2> QED
    BY <1>3, <2>1, <2>4, MainStep DEF arch_irq_unlock, TrapInv, TypeOK, Masks
<1>4. CASE k_panic
  BY <1>4, VectorStep DEF k_panic
<1>5. CASE Interrupt
  <2>1. pc = "main"
    BY <1>5 DEF Interrupt, TrapInv, Nesting
  <2> QED
    BY <1>5, <2>1, VectorStep DEF Interrupt
<1>6. CASE TrapStep
  BY <1>6, EntryStep, HandlerStep, SyncStep, ExitSysStep, ExitRegsStep, EretStep DEF TrapStep
<1>7. CASE arch_halt \/ UNCHANGED vars
  BY <1>7 DEF arch_halt, vars, TrapInv, TypeOK, StackBalanced, Nesting, ContextKept, InSysRegs, InFrame
<1> QED
  BY <1>1, <1>2, <1>3, <1>4, <1>5, <1>6, <1>7 DEF Next

(***************************************************************************)
(* The inductive invariant holds in every state, for any contents of the   *)
(* registers, any bound on the sections and on the nesting of exceptions:  *)
(* at most one interrupt and one panic are open at a time, and the context *)
(* of the code they stopped is kept where kernel_exit looks for it.        *)
(***************************************************************************)
THEOREM TrapInvariant ==
  ASSUME ~HandlerLocks
  PROVE  Spec => []TrapInv
<1>1. Init => TrapInv
  BY InitTrapInv
<1>2. TrapInv /\ [Next]_vars => TrapInv'
  BY NextTrapInv
<1> QED
  BY <1>1, <1>2, PTL DEF Spec

\* Every variable keeps its type: eret never jumps to something that is not
\* a place of the code, and no section count leaves its range.
THEOREM TrapTypeCorrect ==
  ASSUME ~HandlerLocks
  PROVE  Spec => []TypeOK
<1>1. TrapInv => TypeOK
  BY DEF TrapInv
<1> QED
  BY <1>1, TrapInvariant, PTL

\* The vectors push and pop one frame for each exception: the stack does not
\* grow with the number of interrupts taken.
THEOREM StackStaysBalanced ==
  ASSUME ~HandlerLocks
  PROVE  Spec => []StackBalanced
<1>1. TrapInv => StackBalanced
  BY DEF TrapInv
<1> QED
  BY <1>1, TrapInvariant, PTL

\* An interrupt is invisible to the code it stops: eret gives back its place,
\* its registers and its mask.
THEOREM InterruptsAreTransparent ==
  ASSUME ~HandlerLocks
  PROVE  Spec => Transparent
<1>1. TrapInv /\ [Next]_vars
        => [Eret => LET was == saved[Len(saved)]
                    IN  pc' = was.pc /\ regs' = was.regs /\ I' = was.I]_vars
  <2> SUFFICES ASSUME TrapInv, Eret
               PROVE  LET was == saved[Len(saved)]
                      IN  pc' = was.pc /\ regs' = was.regs /\ I' = was.I
    OBVIOUS
  <2>1. Len(saved) = 1 /\ pc' = saved[1].pc /\ regs' = saved[1].regs /\ I' = saved[1].I
    BY EretContext
  <2> QED
    BY <2>1
<1> QED
  BY <1>1, TrapInvariant, PTL DEF Spec, Transparent

\* What a step does to the open sections of main.
LEMMA SectionStep ==
  ASSUME ~HandlerLocks, MaxSections <= 1, TrapInv, SectionMasks, SectionsAtomic, [Next]_vars
  PROVE  SectionMasks' /\ SectionsAtomic'
<1> USE TrapAssumption
<1>1. TrapInv'
  BY NextTrapInv
<1>2. CASE Work \/ arch_halt \/ UNCHANGED vars
  BY <1>2 DEF Work, arch_halt, vars, SectionMasks, SectionsAtomic
<1>3. CASE arch_irq_lock
  <2>1. pc = "main" /\ I' = "masked" /\ pc' = "main" /\ saved' = saved
    BY <1>3 DEF arch_irq_lock, Running
  <2>2. saved = << >>
    BY <2>1 DEF TrapInv, Nesting
  <2> QED
    BY <2>1, <2>2 DEF SectionMasks, SectionsAtomic
<1>4. CASE arch_irq_unlock
  <2>1. pc = "main" /\ pc' = "main" /\ saved' = saved /\ saved = << >>
    BY <1>4 DEF arch_irq_unlock, Running, TrapInv, Nesting
  <2>2. Len(open) = 1 /\ open[1] \in 0 .. MaxSections /\ 1 \in DOMAIN open
    BY <2>1, Depths DEF TrapInv, TypeOK
  <2>3. open[1] = 1
    BY <1>4, <2>2 DEF arch_irq_unlock, Sections
  <2>4. open'[1] = 0
    BY <1>4, <2>2, <2>3 DEF arch_irq_unlock
  <2> QED
    BY <2>1, <2>4 DEF SectionMasks, SectionsAtomic
<1>5. ASSUME NEW kind \in {"irq", "sync"}, NEW place \in {"irq_entry", "sync_entry"},
             Vector(kind, place), kind = "irq" => pc = "main" /\ I = "open"
      PROVE  SectionMasks' /\ SectionsAtomic'
  <2> DEFINE c == [by |-> kind, pc |-> pc, regs |-> regs, I |-> I]
  <2>1. saved' = Append(saved, c) /\ open' = Append(open, 0) /\ pc' = place
    BY <1>5 DEF Vector
  <2>2. c \in Contexts /\ c.by = kind
    BY DEF TrapInv, TypeOK, Contexts
  <2> HIDE DEF c
  <2>3. /\ DOMAIN saved' = 1 .. Len(saved) + 1
        /\ \A i \in 1 .. Len(saved) : saved'[i] = saved[i]
        /\ saved'[Len(saved) + 1] = c
    BY <2>1, <2>2, AppendFacts DEF TrapInv
  <2>4. \A i \in 1 .. Len(open) : open'[i] = open[i]
    BY <2>1, AppendFacts DEF TrapInv
  <2>5. Len(saved) \in Nat /\ Len(open) = Len(saved) + 1 /\ DOMAIN saved = 1 .. Len(saved)
    BY Depths
  <2>6. ASSUME NEW i \in DOMAIN saved', saved'[i].by = "irq"
        PROVE  open'[i] = 0
    <3>1. CASE i \in 1 .. Len(saved)
      BY <2>3, <2>4, <2>5, <2>6, <3>1 DEF SectionsAtomic
    <3>2. CASE i = Len(saved) + 1
      <4>1. kind = "irq"
        BY <2>2, <2>3, <2>6, <3>2
      <4>2. pc = "main" /\ I = "open" /\ Len(saved) = 0
        BY <1>5, <4>1, Depths
      <4>3. open[1] \in Nat /\ ~(open[1] > 0)
        <5>1. 1 \in DOMAIN open
          BY <2>5, <4>2, Depths
        <5> QED
          BY <4>2, <5>1 DEF SectionMasks, TrapInv, TypeOK
      <4> QED
        BY <2>4, <2>5, <3>2, <4>2, <4>3
    <3> QED
      BY <2>3, <2>5, <3>1, <3>2
  <2> QED
    BY <2>1, <2>6 DEF SectionMasks, SectionsAtomic
<1>6. CASE k_panic \/ Interrupt
  <2>1. CASE k_panic
    BY <1>5, <2>1 DEF k_panic
  <2>2. CASE Interrupt
    <3>1. pc = "main" /\ I = "open"
      BY <2>2 DEF Interrupt, TrapInv, Nesting
    <3> QED
      BY <1>5, <2>2, <3>1 DEF Interrupt
  <2> QED
    BY <1>6, <2>1, <2>2
<1>7. CASE kernel_entry \/ do_irq_el1_spx \/ do_sync_el1_spx \/ ExitSys \/ ExitRegs
  <2>1. saved' = saved /\ open' = open /\ pc' # "main"
    BY <1>7, BodyFacts DEF kernel_entry, do_irq_el1_spx, do_sync_el1_spx, ExitSys, ExitRegs
  <2> QED
    BY <2>1 DEF SectionMasks, SectionsAtomic
<1>8. CASE Eret
  <2>1. pc' = "main" /\ Len(saved) = 1 /\ open' = Front(open)
    BY <1>8, EretContext DEF Eret
  <2>2. saved' = << >>
    BY <1>1, <2>1 DEF TrapInv, Nesting
  <2>3. saved[1].by = "irq" /\ 1 \in DOMAIN saved
    BY <1>8, <2>1, Depths DEF Eret, TrapInv, Nesting, IrqPlaces
  <2>4. open[1] = 0
    BY <2>3 DEF SectionsAtomic
  <2>5. open \in Seq(0 .. MaxSections) /\ Len(open) = 2
    BY <2>1, Depths DEF TrapInv
  <2>6. Front(open)[1] = open[1]
    <3>1. Len(open) > 0 /\ 1 \in 1 .. Len(open) - 1
      BY <2>5
    <3> QED
      BY <2>5, <3>1, FrontFacts
  <2> QED
    BY <2>1, <2>2, <2>4, <2>6 DEF SectionMasks, SectionsAtomic
<1> QED
  BY <1>2, <1>3, <1>4, <1>6, <1>7, <1>8 DEF Next, TrapStep

(***************************************************************************)
(* As long as sections do not nest, no interrupt is taken between an       *)
(* irq_lock and its irq_unlock.  (With nested sections this fails: the     *)
(* inner irq_unlock opens the mask, as the run TrapNestedLock shows.)      *)
(***************************************************************************)
THEOREM SectionsStayAtomic ==
  ASSUME ~HandlerLocks, MaxSections <= 1
  PROVE  Spec => []SectionsAtomic
<1>1. Init => SectionMasks /\ SectionsAtomic
  BY DEF Init, SectionMasks, SectionsAtomic
<1>2. TrapInv /\ SectionMasks /\ SectionsAtomic /\ [Next]_vars => (SectionMasks /\ SectionsAtomic)'
  BY SectionStep
<1> QED
  BY <1>1, <1>2, TrapInvariant, PTL DEF Spec
=============================================================================

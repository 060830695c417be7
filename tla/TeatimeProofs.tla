---------------------------- MODULE TeatimeProofs ----------------------------
(***************************************************************************)
(* Proofs about teatime.py: for every command line, any amount of output,  *)
(* pipe and number of signals, what teatime shows, logs and reports is     *)
(* what the child wrote and how it ended.                                  *)
(***************************************************************************)
EXTENDS Teatime, SequenceTheorems, TLAPS

-----------------------------------------------------------------------------
(* The invariant.                                                           *)

Item == Nat \union {Group, EndGroup, Summary}

(* Every variable is in its domain.                                         *)
TypeOK ==
  /\ opts \in Options /\ left \in Nat /\ emitted \in Nat
  /\ writers \subseteq {"child", "orphan"}
  /\ rc \in {Running, 0, 1, Killed, -15}
  /\ pipe \in Seq(Nat) /\ line \in Nat
  /\ pc \in {"start", "read", "write", "log", "wait", "finish", "done"}
  /\ console \in Seq(Item) /\ buffer \in Seq(Item) /\ log \in Seq(Item)
  /\ interrupts \in Nat /\ exit \in Int

(* teatime does not leave the copy loop but by an interrupt or at the end.  *)
InLoop == pc \in {"start", "read", "write", "log"}
Leaving ==
  /\ InLoop => interrupts = 0
  /\ pc \in {"finish", "done"} /\ opts.subprocess =>
       (exit = 130 /\ interrupts > 0) \/ (rc # Running /\ exit = rc % 256)

(* The first r lines are shown, between what opens and closes the output... *)
ShownFirst(r) ==
  /\ Shown = (IF pc = "start" THEN << >> ELSE Opening) \o Lines(r)
               \o (IF Done THEN Closing ELSE << >>)
  /\ pc = "start" => r = 0 /\ log = << >>

(* ... they are in the log, the last one perhaps not...                     *)
LoggedFirst(r) ==
  /\ pc = "log" => opts.log /\ line = r
  /\ opts.log => \/ pc # "log" /\ log = Lines(r)
                 \/ r > 0 /\ log = Lines(r - 1) /\ (pc = "log" \/ interrupts > 0)

(* ... and the others follow in the pipe, until somebody interrupts.        *)
OthersFollow(r) ==
  interrupts = 0 =>
    /\ r + Len(pipe) + (IF pc = "write" THEN 1 ELSE 0) = emitted
    /\ pc = "write" => line = r + 1
    /\ \A i \in 1 .. Len(pipe) : pipe[i] = emitted - Len(pipe) + i
    /\ ~ InLoop => pipe = << >> /\ writers = {}

(* What was held back is on the console after a failure only.               *)
Dumped(r) ==
  ~ opts.interactive =>
    /\ \/ console = << >>
       \/ rc \notin {0, Running} /\ ~ InLoop /\ pc # "wait" /\ console = Opening \o Lines(r)
    /\ interrupts = 0 /\ opts.subprocess /\ pc \in {"finish", "done"} /\ rc # 0 =>
         console = Opening \o Lines(r)

Copied(r) == ShownFirst(r) /\ LoggedFirst(r) /\ OthersFollow(r) /\ Dumped(r)

(* The inductive invariant.                                                 *)
IndInv == TypeOK /\ Leaving /\ \E r \in 0 .. emitted : Copied(r)

-----------------------------------------------------------------------------
(* Lines.                                                                   *)

LEMMA LinesFacts ==
  /\ Lines(0) = << >>
  /\ \A n \in Nat : /\ Lines(n) \in Seq(Item) /\ Len(Lines(n)) = n
                    /\ Lines(n) \o <<n + 1>> = Lines(n + 1)
                    /\ Append(Lines(n), n + 1) = Lines(n + 1)
  <1>1. ASSUME NEW n \in Nat PROVE Lines(n) \in Seq(Item) /\ Len(Lines(n)) = n
    BY DEF Lines, Item
  <1>2. Lines(0) = << >>
    BY <1>1
  <1>3. ASSUME NEW n \in Nat PROVE Append(Lines(n), n + 1) = Lines(n + 1)
    <2>1. n + 1 \in Item /\ n + 1 \in Nat
      BY DEF Item
    <2>2. /\ Append(Lines(n), n + 1) \in Seq(Item)
          /\ Len(Append(Lines(n), n + 1)) = n + 1
          /\ \A i \in 1 .. n : Append(Lines(n), n + 1)[i] = Lines(n)[i]
          /\ Append(Lines(n), n + 1)[n + 1] = n + 1
      BY <1>1, <2>1, AppendProperties
    <2>3. \A i \in 1 .. n + 1 : Append(Lines(n), n + 1)[i] = Lines(n + 1)[i]
      BY <2>2 DEF Lines
    <2> QED  BY <1>1, <2>1, <2>2, <2>3, SeqEqual
  <1>4. ASSUME NEW n \in Nat PROVE Lines(n) \o <<n + 1>> = Lines(n + 1)
    <2>1. n + 1 \in Item
      BY DEF Item
    <2> QED  BY <1>1, <1>3, <2>1, AppendIsConcat
  <1> QED  BY <1>1, <1>2, <1>3, <1>4

(* What is around the output, and what is written next.                     *)
LEMMA ItemFacts ==
  /\ Opening \in Seq(Item) /\ Closing \in Seq(Item) /\ << >> \in Seq(Item)
  /\ \A s, t \in Seq(Item) : s \o t \in Seq(Item)
  /\ \A s \in Seq(Item) : s \o << >> = s /\ << >> \o s = s
  /\ \A n \in Nat : <<n>> \in Seq(Item)
  <1>1. << >> \in Seq(Item) /\ \A x \in Item : <<x>> \in Seq(Item)
    OBVIOUS
  <1>2. Opening \in Seq(Item)
    BY <1>1 DEF Opening, Item
  <1>3. Closing \in Seq(Item)
    BY <1>1 DEF Closing, Item
  <1>4. \A n \in Nat : <<n>> \in Seq(Item)
    BY <1>1 DEF Item
  <1> QED  BY <1>1, <1>2, <1>3, <1>4, ConcatProperties, ConcatEmptySeq

LEMMA NextLine ==
  ASSUME NEW s \in Seq(Item), NEW n \in Nat
  PROVE  (s \o Lines(n)) \o <<n + 1>> = s \o Lines(n + 1)
  <1>1. Lines(n) \in Seq(Item) /\ <<n + 1>> \in Seq(Item)
    <2>1. n + 1 \in Item
      BY DEF Item
    <2>2. Lines(n) \in Seq(Item)
      BY LinesFacts
    <2>3. <<n + 1>> \in Seq(Item)
      BY <2>1
    <2> QED  BY <2>2, <2>3
  <1>2. (s \o Lines(n)) \o <<n + 1>> = s \o (Lines(n) \o <<n + 1>>)
    BY <1>1, ConcatAssociative
  <1> QED  BY <1>2, LinesFacts

(* What has been shown so far, with and without the end.                    *)
LEMMA Written ==
  ASSUME NEW n \in Nat
  PROVE  /\ Opening \o Lines(n) \in Seq(Item)
         /\ (Opening \o Lines(n)) \o << >> = Opening \o Lines(n)
  <1>1. Lines(n) \in Seq(Item)
    BY LinesFacts
  <1>2. Opening \in Seq(Item)
    BY ItemFacts
  <1>3. Opening \o Lines(n) \in Seq(Item)
    BY <1>1, <1>2, ConcatProperties
  <1> QED  BY <1>3, ConcatEmptySeq

(* One of the two sinks is written to.                                      *)
LEMMA OutStep ==
  ASSUME TypeOK, NEW items \in Seq(Item), Out(items), opts' = opts
  PROVE  /\ console' \in Seq(Item) /\ buffer' \in Seq(Item)
         /\ Shown' = Shown \o items
         /\ ~ opts.interactive => console' = console
  <1>1. console \in Seq(Item) /\ buffer \in Seq(Item)
    BY DEF TypeOK
  <1>2. console \o items \in Seq(Item) /\ buffer \o items \in Seq(Item)
    BY <1>1, ConcatProperties
  <1> QED  BY <1>1, <1>2 DEF Out, Shown

-----------------------------------------------------------------------------
(* The steps.                                                               *)

LEMMA IndInit == Init => IndInv
  <1> SUFFICES ASSUME Init PROVE IndInv
    OBVIOUS
  <1>1. TypeOK
    BY BoundAssumption DEF Init, TypeOK, Running, Killed, Item
  <1>2. Leaving
    BY DEF Init, Leaving, InLoop
  <1>3. Copied(0)
    <2>1. ShownFirst(0)
      BY LinesFacts, ItemFacts DEF Init, ShownFirst, Shown, Done
    <2>2. LoggedFirst(0)
      BY LinesFacts DEF Init, LoggedFirst
    <2>3. OthersFollow(0)
      BY DEF Init, OthersFollow, InLoop
    <2>4. Dumped(0)
      BY DEF Init, Dumped
    <2> QED  BY <2>1, <2>2, <2>3, <2>4 DEF Copied
  <1> QED  BY <1>1, <1>2, <1>3 DEF IndInv, Init

(* The child and the signals do nothing to what teatime has written.        *)
LEMMA ChildStep ==
  ASSUME IndInv, Emit \/ Exit \/ Kill \/ \E w \in {"child", "orphan"} : Close(w)
  PROVE  IndInv'
  <1>1. PICK r \in 0 .. emitted : Copied(r)
    BY DEF IndInv
  <1>2. UNCHANGED <<opts, line, pc, console, buffer, log, interrupts, exit>>
    BY DEF Emit, Exit, Kill, Close, shown
  <1>3. ShownFirst(r)'
    BY <1>1, <1>2 DEF Copied, ShownFirst, Shown, Done, Opening, Closing
  <1>4. LoggedFirst(r)'
    BY <1>1, <1>2 DEF Copied, LoggedFirst
  <1>5. CASE Emit
    <2>1. /\ left > 0 /\ left' = left - 1 /\ emitted' = emitted + 1 /\ rc' = rc
          /\ writers # {} /\ writers' = writers
          /\ pipe' = Append(pipe, emitted + 1)
      BY <1>5 DEF Emit
    <2>2. emitted \in Nat /\ pipe \in Seq(Nat) /\ r \in Nat
      BY DEF IndInv, TypeOK
    <2>3. /\ pipe' \in Seq(Nat) /\ Len(pipe') = Len(pipe) + 1
          /\ \A i \in 1 .. Len(pipe) : pipe'[i] = pipe[i]
          /\ pipe'[Len(pipe) + 1] = emitted + 1
      BY <2>1, <2>2, AppendProperties
    <2>4. TypeOK' /\ Leaving'
      BY <1>2, <2>1, <2>3 DEF IndInv, TypeOK, Leaving, InLoop
    <2>5. OthersFollow(r)'
      <3>1. ASSUME interrupts = 0
            PROVE  /\ InLoop
                   /\ r + Len(pipe) + (IF pc = "write" THEN 1 ELSE 0) = emitted
                   /\ pc = "write" => line = r + 1
                   /\ \A i \in 1 .. Len(pipe) : pipe[i] = emitted - Len(pipe) + i
        BY <1>1, <2>1, <3>1 DEF Copied, OthersFollow
      <3>2. Len(pipe) \in Nat
        BY <2>2
      <3>3. ASSUME interrupts = 0, NEW i \in 1 .. Len(pipe')
            PROVE  pipe'[i] = emitted' - Len(pipe') + i
        <4>1. CASE i \in 1 .. Len(pipe)
          <5>1. pipe'[i] = emitted - Len(pipe) + i
            BY <2>3, <3>1, <3>3, <4>1
          <5> QED  BY <2>1, <2>2, <2>3, <3>2, <5>1
        <4>2. CASE i = Len(pipe) + 1
          BY <2>1, <2>2, <2>3, <3>2, <4>2
        <4> QED  BY <2>3, <3>2, <3>3, <4>1, <4>2
      <3>4. ASSUME interrupts = 0
            PROVE  r + Len(pipe') + (IF pc = "write" THEN 1 ELSE 0) = emitted'
        <4>1. r + Len(pipe) + (IF pc = "write" THEN 1 ELSE 0) = emitted
          BY <3>1, <3>4
        <4>2. Len(pipe') = Len(pipe) + 1 /\ emitted' = emitted + 1
          BY <2>1, <2>3
        <4> QED  BY <2>2, <3>2, <4>1, <4>2
      <3>5. ASSUME interrupts = 0
            PROVE  (pc = "write" => line = r + 1) /\ InLoop
        BY <3>1, <3>5
      <3> HIDE DEF InLoop
      <3>6. (interrupts = 0)' <=> interrupts = 0
        BY <1>2
      <3>7. InLoop' <=> InLoop
        BY <1>2 DEF InLoop
      <3> QED  BY <1>2, <3>3, <3>4, <3>5, <3>6, <3>7 DEF OthersFollow
    <2>6. Dumped(r)'
      BY <1>1, <1>2, <2>1 DEF Copied, Dumped, InLoop, Opening
    <2> QED  BY <1>3, <1>4, <2>1, <2>2, <2>4, <2>5, <2>6 DEF IndInv, Copied
  <1>6. CASE Exit \/ Kill \/ \E w \in {"child", "orphan"} : Close(w)
    <2>1. /\ rc' = rc \/ (rc = Running /\ rc' \in {0, 1, Killed})
          /\ writers' \subseteq writers /\ UNCHANGED <<left, emitted, pipe>>
      BY <1>6 DEF Exit, Kill, Close
    <2>2. TypeOK' /\ Leaving'
      BY <1>2, <2>1 DEF IndInv, TypeOK, Leaving, InLoop
    <2>3. OthersFollow(r)'
      BY <1>1, <1>2, <2>1 DEF Copied, OthersFollow, InLoop
    <2>4. Dumped(r)'
      BY <1>1, <1>2, <2>1 DEF Copied, Dumped, IndInv, Leaving, InLoop, Opening
    <2> QED  BY <1>3, <1>4, <2>1, <2>2, <2>3, <2>4 DEF IndInv, Copied
  <1> QED  BY <1>5, <1>6

LEMMA StartStep ==
  ASSUME IndInv, Start
  PROVE  IndInv'
  <1>1. PICK r \in 0 .. emitted : Copied(r)
    BY DEF IndInv
  <1>2. /\ pc = "start" /\ pc' = "read" /\ Out(Opening)
        /\ UNCHANGED <<opts, left, rc, writers, emitted, pipe, line, log, interrupts, exit>>
    BY DEF Start, childVars
  <1>3. r = 0 /\ log = << >> /\ Shown = << >>
    BY <1>1, <1>2, LinesFacts, ItemFacts DEF Copied, ShownFirst, Done
  <1>4. Shown' = Opening /\ console' \in Seq(Item) /\ buffer' \in Seq(Item)
        /\ (~ opts.interactive => console' = console)
    <2>1. Opening \in Seq(Item) /\ << >> \o Opening = Opening
      BY ItemFacts
    <2>2. /\ console' \in Seq(Item) /\ buffer' \in Seq(Item)
          /\ Shown' = Shown \o Opening
          /\ ~ opts.interactive => console' = console
      BY <1>2, <2>1, OutStep DEF IndInv
    <2> QED  BY <1>3, <2>1, <2>2
  <1>5. TypeOK' /\ Leaving'
    BY <1>2, <1>4 DEF IndInv, TypeOK, Leaving, InLoop
  <1>6. ShownFirst(r)'
    <2>1. (Opening \o Lines(0)) \o << >> = Opening
      BY LinesFacts, ItemFacts
    <2>2. Opening' = Opening
      BY <1>2 DEF Opening
    <2> QED  BY <1>2, <1>3, <1>4, <2>1, <2>2 DEF ShownFirst, Done
  <1>7. LoggedFirst(r)'
    BY <1>2, <1>3, LinesFacts DEF LoggedFirst
  <1>8. OthersFollow(r)'
    BY <1>1, <1>2 DEF Copied, OthersFollow, InLoop
  <1>9. Dumped(r)'
    BY <1>1, <1>2, <1>4 DEF Copied, Dumped, InLoop, Opening
  <1> QED  BY <1>1, <1>2, <1>5, <1>6, <1>7, <1>8, <1>9 DEF IndInv, Copied

LEMMA ReadStep ==
  ASSUME IndInv, ReadLine
  PROVE  IndInv'
  <1>1. PICK r \in 0 .. emitted : Copied(r)
    BY DEF IndInv
  <1>2. /\ pc = "read" /\ pipe # << >> /\ pc' = "write"
        /\ line' = Head(pipe) /\ pipe' = Tail(pipe)
        /\ UNCHANGED <<opts, left, rc, writers, emitted, console, buffer, log, interrupts, exit>>
    BY DEF ReadLine, childVars, shown
  <1>3. /\ pipe \in Seq(Nat) /\ Len(pipe) \in Nat \ {0} /\ line' \in Nat /\ line' = pipe[1]
        /\ pipe' \in Seq(Nat) /\ Len(pipe') = Len(pipe) - 1
        /\ \A i \in 1 .. Len(pipe') : pipe'[i] = pipe[i + 1]
    BY <1>2, HeadTailProperties, EmptySeq DEF IndInv, TypeOK
  <1>4. TypeOK' /\ Leaving'
    BY <1>2, <1>3 DEF IndInv, TypeOK, Leaving, InLoop
  <1>5. ShownFirst(r)' /\ LoggedFirst(r)'
    BY <1>1, <1>2 DEF Copied, ShownFirst, LoggedFirst, Shown, Done, Opening, Closing
  <1>6. OthersFollow(r)'
    <2>1. /\ r + Len(pipe) = emitted /\ \A i \in 1 .. Len(pipe) : pipe[i] = emitted - Len(pipe) + i
          /\ r \in Nat /\ emitted \in Nat
      BY <1>1, <1>2 DEF Copied, OthersFollow, IndInv, TypeOK, Leaving, InLoop
    <2>2. line' = r + 1
      BY <1>3, <2>1
    <2>3. ASSUME NEW i \in 1 .. Len(pipe') PROVE pipe'[i] = emitted - Len(pipe') + i
      <3>1. i + 1 \in 1 .. Len(pipe) /\ pipe'[i] = pipe[i + 1]
        BY <1>3
      <3> QED  BY <1>3, <2>1, <3>1
    <2>4. r + Len(pipe') + 1 = emitted
      BY <1>3, <2>1
    <2> QED  BY <1>2, <2>2, <2>3, <2>4 DEF OthersFollow, InLoop
  <1>7. Dumped(r)'
    BY <1>1, <1>2 DEF Copied, Dumped, InLoop, Opening
  <1> QED  BY <1>1, <1>2, <1>4, <1>5, <1>6, <1>7 DEF IndInv, Copied

(* The loop is left at the end of the output, or by an interrupt.           *)
LEMMA LoopEnds ==
  ASSUME IndInv, ReadEnd \/ InterruptLoop
  PROVE  IndInv'
  <1>1. PICK r \in 0 .. emitted : Copied(r)
    BY DEF IndInv
  <1>2. /\ pc \in {"read", "write", "log"}
        /\ pc' = IF opts.subprocess THEN "wait" ELSE "finish"
        /\ UNCHANGED <<opts, emitted, pipe, line, console, buffer, log, exit>>
        /\ \/ interrupts' = interrupts /\ pc = "read" /\ pipe = << >>
              /\ writers = {} /\ writers' = writers /\ rc' = rc /\ left' = left
           \/ interrupts' = 1
    BY DEF ReadEnd, InterruptLoop, childVars, shown
  <1>3. /\ left' \in Nat /\ rc' \in {Running, 0, 1, Killed, -15}
        /\ writers' \subseteq {"child", "orphan"}
    <2>1. left \in Nat /\ rc \in {Running, 0, 1, Killed, -15} /\ writers \subseteq {"child", "orphan"}
      BY DEF IndInv, TypeOK
    <2>2. CASE UNCHANGED <<left, rc, writers>>
      BY <2>1, <2>2
    <2>3. CASE left' \in 0 .. (left + Cleanup) /\ rc' \in {Running, -15}
               /\ writers' \subseteq writers
      BY <2>1, <2>3, BoundAssumption
    <2>4. UNCHANGED <<left, rc, writers>>
          \/ (left' \in 0 .. (left + Cleanup) /\ rc' \in {Running, -15} /\ writers' \subseteq writers)
      BY DEF ReadEnd, InterruptLoop, childVars
    <2> QED  BY <2>2, <2>3, <2>4
  <1>4. TypeOK'
    BY <1>2, <1>3 DEF IndInv, TypeOK
  <1>5. Leaving'
    BY <1>2 DEF Leaving, InLoop
  <1>6. ShownFirst(r)'
    BY <1>1, <1>2 DEF Copied, ShownFirst, Shown, Done, Opening, Closing
  <1>7. LoggedFirst(r)'
    BY <1>1, <1>2 DEF Copied, LoggedFirst, IndInv, Leaving, InLoop
  <1>8. OthersFollow(r)'
    BY <1>1, <1>2 DEF Copied, OthersFollow, InLoop
  <1>9. Dumped(r)'
    BY <1>1, <1>2 DEF Copied, Dumped, InLoop, Opening
  <1> QED  BY <1>1, <1>2, <1>4, <1>5, <1>6, <1>7, <1>8, <1>9 DEF IndInv, Copied

LEMMA ConsoleStep ==
  ASSUME IndInv, WriteConsole
  PROVE  IndInv'
  <1>1. PICK r \in 0 .. emitted : Copied(r)
    BY DEF IndInv
  <1>2. /\ pc = "write" /\ pc' = IF opts.log THEN "log" ELSE "read"
        /\ Out(<<line>>)
        /\ UNCHANGED <<opts, left, rc, writers, emitted, pipe, line, log, interrupts, exit>>
    BY DEF WriteConsole, childVars
  <1>3. /\ interrupts = 0 /\ line = r + 1 /\ r + Len(pipe) + 1 = emitted
        /\ r \in Nat /\ Len(pipe) \in Nat /\ r + 1 \in 0 .. emitted
    BY <1>1, <1>2 DEF IndInv, TypeOK, Leaving, InLoop, Copied, OthersFollow
  <1>4. <<line>> \in Seq(Item)
    BY ItemFacts DEF IndInv, TypeOK
  <1>5. /\ console' \in Seq(Item) /\ buffer' \in Seq(Item)
        /\ Shown' = Shown \o <<line>>
        /\ ~ opts.interactive => console' = console
    BY <1>2, <1>4, OutStep DEF IndInv
  <1>6. TypeOK' /\ Leaving'
    BY <1>2, <1>5 DEF IndInv, TypeOK, Leaving, InLoop
  <1>7. ShownFirst(r + 1)'
    <2>1. Opening \in Seq(Item) /\ Opening' = Opening
      BY <1>2, ItemFacts DEF Opening
    <2>2. Opening \o Lines(r) \in Seq(Item) /\ Opening \o Lines(r + 1) \in Seq(Item)
      BY <1>3, Written
    <2>3. Shown = Opening \o Lines(r)
      BY <1>1, <1>2, <1>3, Written DEF Copied, ShownFirst, Done
    <2>4. Shown' = Opening \o Lines(r + 1)
      BY <1>3, <1>5, <2>1, <2>3, NextLine
    <2>5. (Opening \o Lines(r + 1)) \o << >> = Opening \o Lines(r + 1)
      BY <1>3, Written
    <2> QED  BY <1>2, <2>1, <2>4, <2>5 DEF ShownFirst, Done
  <1>8. LoggedFirst(r + 1)'
    <2>1. opts.log => log = Lines(r)
      BY <1>1, <1>2, <1>3 DEF Copied, LoggedFirst
    <2> QED  BY <1>2, <1>3, <2>1 DEF LoggedFirst
  <1>9. OthersFollow(r + 1)'
    <2>1. \A i \in 1 .. Len(pipe) : pipe[i] = emitted - Len(pipe) + i
      BY <1>1, <1>3 DEF Copied, OthersFollow
    <2> QED  BY <1>2, <1>3, <2>1 DEF OthersFollow, InLoop
  <1>10. Dumped(r + 1)'
    BY <1>1, <1>2, <1>5 DEF Copied, Dumped, InLoop, Opening
  <1> QED  BY <1>2, <1>3, <1>6, <1>7, <1>8, <1>9, <1>10 DEF IndInv, Copied

LEMMA LogStep ==
  ASSUME IndInv, WriteLog
  PROVE  IndInv'
  <1>1. PICK r \in 0 .. emitted : Copied(r)
    BY DEF IndInv
  <1>2. /\ pc = "log" /\ pc' = "read" /\ log' = Append(log, line)
        /\ UNCHANGED <<opts, left, rc, writers, emitted, pipe, line, console, buffer, interrupts, exit>>
    BY DEF WriteLog, childVars, shown
  <1>3. opts.log /\ line = r /\ r > 0 /\ log = Lines(r - 1) /\ r \in Nat
    BY <1>1, <1>2 DEF IndInv, TypeOK, Copied, LoggedFirst
  <1>4. log' = Lines(r) /\ log' \in Seq(Item)
    <2>1. r - 1 \in Nat /\ (r - 1) + 1 = r
      BY <1>3
    <2>2. Append(Lines(r - 1), r) = Lines(r)
      BY <2>1, LinesFacts
    <2> QED  BY <1>2, <1>3, <2>2, LinesFacts
  <1>5. TypeOK' /\ Leaving'
    BY <1>2, <1>4 DEF IndInv, TypeOK, Leaving, InLoop
  <1>6. ShownFirst(r)'
    BY <1>1, <1>2 DEF Copied, ShownFirst, Shown, Done, Opening, Closing
  <1>7. LoggedFirst(r)'
    BY <1>2, <1>4 DEF LoggedFirst
  <1>8. OthersFollow(r)'
    BY <1>1, <1>2 DEF Copied, OthersFollow, InLoop
  <1>9. Dumped(r)'
    BY <1>1, <1>2 DEF Copied, Dumped, InLoop, Opening
  <1> QED  BY <1>1, <1>2, <1>5, <1>6, <1>7, <1>8, <1>9 DEF IndInv, Copied

(* A wait that ends, or is interrupted.                                     *)
LEMMA WaitStep ==
  ASSUME IndInv, Wait \/ InterruptWait
  PROVE  IndInv'
  <1>1. PICK r \in 0 .. emitted : Copied(r)
    BY DEF IndInv
  <1>2. /\ pc = "wait" /\ pc' = "finish"
        /\ UNCHANGED <<opts, left, rc, writers, emitted, pipe, line, buffer, log>>
        /\ \/ /\ rc # Running /\ exit' = rc % 256 /\ interrupts' = interrupts
              /\ console' = IF rc # 0 /\ ~ opts.interactive THEN console \o buffer ELSE console
           \/ /\ exit' = 130 /\ console' = console /\ interrupts' = interrupts + 1
    BY DEF Wait, InterruptWait, childVars, shown
  <1>3. console' \in Seq(Item) /\ exit' \in Int /\ interrupts' \in Nat
    <2>1. console \in Seq(Item) /\ buffer \in Seq(Item) /\ interrupts \in Nat /\ rc \in Int
      BY DEF IndInv, TypeOK, Running, Killed
    <2>2. console \o buffer \in Seq(Item)
      BY <2>1, ConcatProperties
    <2>3. rc % 256 \in Int
      BY <2>1
    <2>4. console' \in Seq(Item)
      BY <1>2, <2>1, <2>2
    <2>5. exit' \in Int
      BY <1>2, <2>3
    <2>6. interrupts' \in Nat
      BY <1>2, <2>1
    <2> QED  BY <2>4, <2>5, <2>6
  <1>4. TypeOK' /\ Leaving'
    BY <1>2, <1>3 DEF IndInv, TypeOK, Leaving, InLoop
  <1>5. opts.interactive => console' = console
    BY <1>2
  <1>6. ShownFirst(r)'
    BY <1>1, <1>2, <1>5 DEF Copied, ShownFirst, Shown, Done, Opening, Closing
  <1>7. LoggedFirst(r)'
    BY <1>1, <1>2 DEF Copied, LoggedFirst, IndInv, TypeOK
  <1>8. OthersFollow(r)'
    BY <1>1, <1>2 DEF Copied, OthersFollow, InLoop, IndInv, TypeOK
  <1>9. Dumped(r)'
    <2>1. ~ opts.interactive => console = << >> /\ buffer = Opening \o Lines(r)
      <3>1. (Opening \o Lines(r)) \o << >> = Opening \o Lines(r)
        BY Written DEF IndInv, TypeOK
      <3> QED  BY <1>1, <1>2, <3>1 DEF Copied, Dumped, ShownFirst, Shown, Done
    <2>2. << >> \o buffer = buffer
      BY ItemFacts DEF IndInv, TypeOK
    <2>3. Opening' = Opening
      BY <1>2 DEF Opening
    <2>4. CASE opts.interactive
      BY <1>2, <2>4 DEF Dumped
    <2>5. CASE ~ opts.interactive /\ exit' = 130 /\ console' = console /\ interrupts' = interrupts + 1
      BY <1>2, <2>1, <2>5 DEF Dumped, IndInv, TypeOK
    <2>6. CASE /\ ~ opts.interactive /\ rc # Running
               /\ console' = IF rc # 0 THEN buffer ELSE console
      BY <1>2, <2>1, <2>3, <2>6 DEF Dumped, InLoop
    <2> QED  BY <1>2, <2>1, <2>2, <2>4, <2>5, <2>6
  <1> QED  BY <1>1, <1>2, <1>4, <1>6, <1>7, <1>8, <1>9 DEF IndInv, Copied

LEMMA FinishStep ==
  ASSUME IndInv, Finish
  PROVE  IndInv'
  <1>1. PICK r \in 0 .. emitted : Copied(r)
    BY DEF IndInv
  <1>2. /\ pc = "finish" /\ pc' = "done" /\ Out(Closing)
        /\ exit' = IF exit = Running THEN 0 ELSE exit
        /\ UNCHANGED <<opts, left, rc, writers, emitted, pipe, line, log, interrupts>>
    BY DEF Finish, childVars
  <1>3. Closing \in Seq(Item)
    BY ItemFacts
  <1>4. /\ console' \in Seq(Item) /\ buffer' \in Seq(Item)
        /\ Shown' = Shown \o Closing
        /\ ~ opts.interactive => console' = console
    BY <1>2, <1>3, OutStep DEF IndInv
  <1>5. TypeOK'
    BY <1>2, <1>4 DEF IndInv, TypeOK
  <1>6. Leaving'
    <2>1. opts.subprocess => (exit = 130 /\ interrupts > 0) \/ (rc # Running /\ exit = rc % 256)
      BY <1>2 DEF IndInv, Leaving
    <2>2. opts.subprocess => exit # Running
      BY <2>1 DEF IndInv, TypeOK, Running, Killed
    <2> QED  BY <1>2, <2>1, <2>2 DEF Leaving, InLoop
  <1>7. ShownFirst(r)'
    <2>1. Opening' = Opening /\ Closing' = Closing
      BY <1>2 DEF Opening, Closing
    <2>2. (Opening \o Lines(r)) \o << >> = Opening \o Lines(r)
      BY Written DEF IndInv, TypeOK
    <2>3. Shown = Opening \o Lines(r)
      BY <1>1, <1>2, <2>2 DEF Copied, ShownFirst, Done
    <2> QED  BY <1>2, <1>4, <2>1, <2>3 DEF ShownFirst, Done
  <1>8. LoggedFirst(r)'
    BY <1>1, <1>2 DEF Copied, LoggedFirst
  <1>9. OthersFollow(r)'
    BY <1>1, <1>2 DEF Copied, OthersFollow, InLoop
  <1>10. Dumped(r)'
    BY <1>1, <1>2, <1>4 DEF Copied, Dumped, InLoop, Opening
  <1> QED  BY <1>1, <1>2, <1>5, <1>6, <1>7, <1>8, <1>9, <1>10 DEF IndInv, Copied

LEMMA IndStep == IndInv /\ [Next]_vars => IndInv'
  <1>1. ASSUME IndInv, UNCHANGED vars PROVE IndInv'
    <2>1. PICK r \in 0 .. emitted : Copied(r)
      BY <1>1 DEF IndInv
    <2>2. TypeOK' /\ Leaving'
      BY <1>1 DEF vars, IndInv, TypeOK, Leaving, InLoop
    <2>3. ShownFirst(r)' /\ LoggedFirst(r)'
      BY <1>1, <2>1 DEF vars, Copied, ShownFirst, LoggedFirst, Shown, Done, Opening, Closing
    <2>4. OthersFollow(r)' /\ Dumped(r)'
      BY <1>1, <2>1 DEF vars, Copied, OthersFollow, Dumped, InLoop, Opening
    <2> QED  BY <1>1, <2>1, <2>2, <2>3, <2>4 DEF vars, IndInv, Copied
  <1> QED
    BY <1>1, ChildStep, StartStep, ReadStep, LoopEnds, ConsoleStep, LogStep, WaitStep,
       FinishStep DEF Next, Child, Tea

-----------------------------------------------------------------------------
(* The theorems.                                                            *)

(* The inductive invariant holds in every reachable state.                  *)
THEOREM Inductive == Spec => []IndInv
  BY IndInit, IndStep, PTL DEF Spec

(* The log of a run that nobody interrupted is the output, and that of any  *)
(* run is what was shown, at most the last line missing.                    *)
THEOREM LogIsOutput == Spec => []LogComplete
  <1>1. ASSUME IndInv PROVE LogComplete
    <2>1. PICK r \in 0 .. emitted : Copied(r)
      BY <1>1 DEF IndInv
    <2>2. r \in Nat /\ emitted \in Nat
      BY <1>1 DEF IndInv, TypeOK
    <2>3. ASSUME opts.log, Done, interrupts = 0 PROVE log = Lines(emitted)
      <3>1. r = emitted /\ log = Lines(r)
        <4>1. pipe = << >> /\ r + Len(pipe) = emitted
          BY <2>1, <2>3 DEF Copied, OthersFollow, InLoop, Done
        <4>2. log = Lines(r)
          BY <2>1, <2>3 DEF Copied, LoggedFirst, Done
        <4> QED  BY <2>2, <4>1, <4>2
      <3> QED  BY <3>1
    <2>4. ASSUME opts.log
          PROVE  \E n \in 0 .. emitted, k \in {0, 1},
                    opening \in {<< >>, Opening}, closing \in {<< >>, Closing} :
                   log = Lines(n) /\ Shown = opening \o Lines(n + k) \o closing
      <3>1. PICK opening \in {<< >>, Opening}, closing \in {<< >>, Closing} :
              Shown = opening \o Lines(r) \o closing
        BY <2>1 DEF Copied, ShownFirst
      <3>2. CASE log = Lines(r)
        <4>1. r + 0 = r
          BY <2>2
        <4> QED  BY <3>1, <3>2, <4>1
      <3>3. CASE r > 0 /\ log = Lines(r - 1)
        <4>1. r - 1 \in 0 .. emitted /\ (r - 1) + 1 = r
          BY <2>2, <3>3
        <4> QED  BY <3>1, <3>3, <4>1
      <3> QED  BY <2>1, <2>4, <3>2, <3>3 DEF Copied, LoggedFirst
    <2> QED  BY <2>3, <2>4 DEF LogComplete
  <1> QED  BY <1>1, Inductive, PTL

(* The whole output of a command that failed is on the console.             *)
THEOREM FailureOnConsole == Spec => []FailureShown
  <1>1. ASSUME IndInv PROVE FailureShown
    <2>1. PICK r \in 0 .. emitted : Copied(r)
      BY <1>1 DEF IndInv
    <2>2. SUFFICES ASSUME Done, opts.subprocess, interrupts = 0, rc # 0
                   PROVE  console = Opening \o Lines(emitted)
                                      \o (IF opts.interactive THEN Closing ELSE << >>)
      BY DEF FailureShown
    <2>3. r = emitted
      <3>1. pipe = << >> /\ r + Len(pipe) = emitted
        BY <2>1, <2>2 DEF Copied, OthersFollow, InLoop, Done
      <3> QED  BY <1>1, <3>1 DEF IndInv, TypeOK
    <2>4. CASE opts.interactive
      BY <2>1, <2>2, <2>3, <2>4 DEF Copied, ShownFirst, Shown, Done
    <2>5. CASE ~ opts.interactive
      <3>1. console = Opening \o Lines(emitted)
        BY <2>1, <2>2, <2>3, <2>5 DEF Copied, Dumped, Done
      <3>2. (Opening \o Lines(emitted)) \o << >> = Opening \o Lines(emitted)
        <4>1. Opening \o Lines(emitted) \in Seq(Item)
          BY <1>1, Written DEF IndInv, TypeOK
        <4> QED  BY <4>1, ConcatEmptySeq
      <3> QED  BY <2>5, <3>1, <3>2
    <2> QED  BY <2>4, <2>5
  <1> QED  BY <1>1, Inductive, PTL

(* ninja never takes for done what failed, was killed or still runs.        *)
THEOREM NoFalseSuccess == Spec => []SuccessIsReal
  <1>1. IndInv => SuccessIsReal
    <2> SUFFICES ASSUME IndInv, Done, opts.subprocess, exit = 0 PROVE rc = 0
      BY DEF SuccessIsReal
    <2>1. rc # Running /\ rc % 256 = 0
      BY DEF IndInv, Leaving, Done
    <2>2. rc \in {Running, 0, 1, -9, -15}
      BY DEF IndInv, TypeOK, Killed
    <2>3. 1 % 256 # 0 /\ (-9) % 256 # 0 /\ (-15) % 256 # 0
      OBVIOUS
    <2> QED  BY <2>1, <2>2, <2>3
  <1> QED  BY <1>1, Inductive, PTL

(* A group that is opened on the console is closed on it, even by Ctrl-C.   *)
THEOREM GroupsAreClosed == Spec => []GroupsClosed
  <1>1. ASSUME IndInv PROVE GroupsClosed
    <2>1. PICK r \in 0 .. emitted : Copied(r)
      BY <1>1 DEF IndInv
    <2>2. SUFFICES ASSUME Done, opts.label = "group", console # << >>, ~ HeldBack
                   PROVE  console[Len(console)] = EndGroup
      BY DEF GroupsClosed
    <2>3. opts.interactive
      BY <2>1, <2>2 DEF Copied, Dumped, HeldBack
    <2>4. console = (Opening \o Lines(r)) \o <<EndGroup>>
      BY <2>1, <2>2, <2>3 DEF Copied, ShownFirst, Shown, Done, Closing
    <2>5. Opening \o Lines(r) \in Seq(Item)
      BY <1>1, Written DEF IndInv, TypeOK
    <2>6. console = Append(Opening \o Lines(r), EndGroup)
      BY <2>4, <2>5, AppendIsConcat DEF Item
    <2> QED  BY <2>5, <2>6, AppendProperties DEF Item
  <1> QED  BY <1>1, Inductive, PTL
=============================================================================

------------------------------- MODULE Teatime -------------------------------
(***************************************************************************)
(* build_tools/teatime.py: runs a child (or sits at the end of a pipeline) *)
(* and copies its output to the console and to a log file.  Every phase of *)
(* every sub-project runs under it.  The child, the bounded pipe, teatime  *)
(* and the user's Ctrl-C are concurrent; so is an orphan, a process that   *)
(* the child started, that has the pipe open too and may outlive the child.*)
(*                                                                         *)
(* Data abstraction.  A line of output is its number.  The console and the *)
(* log are the sequences of what was written: lines, group markers and the *)
(* summary line; prefixes, time stamps and the EXEC, BEGIN and END lines   *)
(* of the log are left out.                                                *)
(***************************************************************************)
EXTENDS Integers, Sequences

CONSTANTS
  MaxLines,    (* Bound: lines the child writes if nobody interrupts it.   *)
  Cleanup,     (* Bound: lines it writes on top of that for a SIGTERM.     *)
  PipeCap,     (* Lines the pipe holds.                                    *)
  Group, EndGroup, Summary  (* What else is written: markers, the summary. *)

ASSUME BoundAssumption == MaxLines \in Nat /\ Cleanup \in Nat /\ PipeCap \in Nat \ {0}

VARIABLES
  opts,        (* The command line: see Init.                              *)
  left,        (* Lines that are still to be written.                      *)
  rc,          (* What Popen reports of it: an exit code, minus a signal,  *)
               (* or Running.                                              *)
  writers,     (* Who has the pipe open for writing.                       *)
  emitted,     (* Lines they wrote.                                        *)
  pipe,        (* Those of them that are not read.                         *)
  line,        (* The line teatime holds.                                  *)
  pc,          (* Where teatime is.                                        *)
  console,     (* What it wrote to stdout.                                 *)
  buffer,      (* What it wrote to the BytesIO of --no-interactive.        *)
  log,         (* What it wrote to the log file.                           *)
  interrupts,  (* Number of Ctrl-C so far.                                 *)
  exit         (* teatime's exit status, or Running.                       *)

Running == 1000
Killed  == -9

vars == <<opts, left, rc, writers, emitted, pipe, line, pc, console, buffer, log, interrupts,
          exit>>
childVars == <<left, rc, writers, emitted>>
shown == <<console, buffer>>

(* OutputSink.out is stdout, or the buffer.                                 *)
Out(items) ==
  IF opts.interactive
    THEN console' = console \o items /\ UNCHANGED buffer
    ELSE buffer' = buffer \o items /\ UNCHANGED console

(* What is written around the output.                                       *)
Opening == IF opts.label = "group" THEN <<Group>> ELSE << >>
Closing ==
  CASE opts.label = "group"  -> <<EndGroup>>
    [] opts.label = "prefix" -> <<Summary>>
    [] OTHER                 -> << >>

-----------------------------------------------------------------------------
(* The child: it writes its lines, blocks while the pipe is full, then      *)
(* exits; or a signal from elsewhere kills it.  It leaves lines unwritten   *)
(* only to an orphan.                                                       *)

Emit ==
  /\ writers # {} /\ left > 0 /\ Len(pipe) < PipeCap /\ pc # "done"
  /\ left' = left - 1
  /\ emitted' = emitted + 1
  /\ pipe' = Append(pipe, emitted + 1)
  /\ UNCHANGED <<opts, rc, writers, line, pc, shown, log, interrupts, exit>>

(* A writer closes its output; an orphan perhaps because it ends.           *)
Close(w) ==
  /\ w \in writers
  /\ left = 0 \/ writers # {w}
  /\ writers' = writers \ {w}
  /\ UNCHANGED <<opts, left, rc, emitted, pipe, line, pc, shown, log, interrupts, exit>>

Exit ==
  /\ rc = Running
  /\ left = 0 \/ writers # {"child"}
  /\ rc' \in {0, 1}
  /\ writers' = writers \ {"child"}
  /\ UNCHANGED <<opts, left, emitted, pipe, line, pc, shown, log, interrupts, exit>>

(* The OOM killer; or a write to the pipe once teatime is gone (SIGPIPE).   *)
Kill ==
  /\ rc = Running
  /\ rc' = Killed
  /\ writers' \in {writers \ {"child"}, {}}
  /\ UNCHANGED <<opts, left, emitted, pipe, line, pc, shown, log, interrupts, exit>>

-----------------------------------------------------------------------------
(* teatime.                                                                 *)

(* Mutant of Start: the child is waited for before its output is read.      *)
StartWaiting ==
  /\ pc = "start"
  /\ Out(Opening)
  /\ pc' = IF opts.subprocess THEN "wait" ELSE "read"
  /\ UNCHANGED <<opts, childVars, pipe, line, log, interrupts, exit>>

Start ==
  /\ pc = "start"
  /\ Out(Opening)
  /\ pc' = "read"
  /\ UNCHANGED <<opts, childVars, pipe, line, log, interrupts, exit>>

ReadLine ==
  /\ pc = "read" /\ pipe # << >>
  /\ line' = Head(pipe) /\ pipe' = Tail(pipe)
  /\ pc' = "write"
  /\ UNCHANGED <<opts, childVars, shown, log, interrupts, exit>>

(* Mutant of ReadEnd: the loop ends with the child, not with its output.    *)
ReadEndAtExit ==
  /\ pc = "read" /\ rc # Running
  /\ pc' = IF opts.subprocess THEN "wait" ELSE "finish"
  /\ UNCHANGED <<opts, childVars, pipe, line, shown, log, interrupts, exit>>

(* Nobody has the pipe open for writing any more, and all of it is read.    *)
ReadEnd ==
  /\ pc = "read" /\ pipe = << >> /\ writers = {}
  /\ pc' = IF opts.subprocess THEN "wait" ELSE "finish"
  /\ UNCHANGED <<opts, childVars, pipe, line, shown, log, interrupts, exit>>

WriteConsole ==
  /\ pc = "write"
  /\ Out(<<line>>)
  /\ pc' = IF opts.log THEN "log" ELSE "read"
  /\ UNCHANGED <<opts, childVars, pipe, line, log, interrupts, exit>>

WriteLog ==
  /\ pc = "log"
  /\ log' = Append(log, line)
  /\ pc' = "read"
  /\ UNCHANGED <<opts, childVars, pipe, line, shown, interrupts, exit>>

(* Mutant of Wait: death by a signal is no failure.                         *)
WaitPositive ==
  /\ pc = "wait" /\ rc # Running
  /\ exit' = IF rc > 0 THEN rc ELSE 0
  /\ console' = IF rc # 0 /\ ~ opts.interactive THEN console \o buffer ELSE console
  /\ pc' = "finish"
  /\ UNCHANGED <<opts, childVars, pipe, line, buffer, log, interrupts>>

(* child.wait(), the dump of what was held back, and sys.exit(rc), of which *)
(* the system keeps eight bits.                                             *)
Wait ==
  /\ pc = "wait" /\ rc # Running
  /\ exit' = rc % 256
  /\ console' = IF rc # 0 /\ ~ opts.interactive THEN console \o buffer ELSE console
  /\ pc' = "finish"
  /\ UNCHANGED <<opts, childVars, pipe, line, buffer, log, interrupts>>

(* sink.finish(), by way of `finally'.                                      *)
Finish ==
  /\ pc = "finish"
  /\ Out(Closing)
  /\ exit' = IF exit = Running THEN 0 ELSE exit
  /\ pc' = "done"
  /\ UNCHANGED <<opts, childVars, pipe, line, log, interrupts>>

(* Ctrl-C in the copy loop, even between the console and the log, ends it.  *)
(* The child gets SIGTERM: it may die of it, write some more and then exit, *)
(* or carry on as if nothing had happened.                                  *)
InterruptLoop ==
  /\ pc \in {"read", "write", "log"} /\ interrupts = 0
  /\ interrupts' = 1
  /\ IF opts.subprocess /\ rc = Running
       THEN /\ left' \in 0 .. (left + Cleanup) /\ rc' \in {Running, -15}
            /\ writers' = IF rc' = Running THEN writers ELSE writers \ {"child"}
       ELSE UNCHANGED <<left, rc, writers>>
  /\ pc' = IF opts.subprocess THEN "wait" ELSE "finish"
  /\ UNCHANGED <<opts, emitted, pipe, line, shown, log, exit>>

(* Mutant of InterruptWait: sink.finish() is not in a `finally'.            *)
InterruptWaitLeaving ==
  /\ pc = "wait" /\ interrupts < 2
  /\ interrupts' = interrupts + 1
  /\ exit' = 130
  /\ pc' = "done"
  /\ UNCHANGED <<opts, childVars, pipe, line, shown, log>>

(* Ctrl-C while teatime waits for the child is not caught: teatime leaves   *)
(* through `finally' by SIGINT, and waits for the child no longer.          *)
InterruptWait ==
  /\ pc = "wait" /\ interrupts < 2
  /\ interrupts' = interrupts + 1
  /\ exit' = 130
  /\ pc' = "finish"
  /\ UNCHANGED <<opts, childVars, pipe, line, shown, log>>

-----------------------------------------------------------------------------
Options == [subprocess : BOOLEAN, interactive : BOOLEAN, log : BOOLEAN,
            label : {"none", "prefix", "group"}]

Init ==
  /\ opts \in Options
  /\ left \in 0 .. MaxLines /\ rc = Running /\ emitted = 0
  /\ writers \in {{"child"}, {"child", "orphan"}}
  /\ pipe = << >> /\ line = 0 /\ pc = "start"
  /\ console = << >> /\ buffer = << >> /\ log = << >>
  /\ interrupts = 0 /\ exit = Running

Child == Emit \/ Exit \/ \E w \in {"child", "orphan"} : Close(w)
Tea   == Start \/ ReadLine \/ ReadEnd \/ WriteConsole \/ WriteLog \/ Wait \/ Finish
Next  == Child \/ Kill \/ Tea \/ InterruptLoop \/ InterruptWait

Spec == Init /\ [][Next]_vars

(* The scheduler runs teatime, the child and the orphan, which do not sleep *)
(* on an open pipe for ever; nobody has to press Ctrl-C.                    *)
FairSpec == Spec /\ WF_vars(Tea) /\ WF_vars(Child)

-----------------------------------------------------------------------------
(* Properties.                                                              *)

Done     == pc = "done"
Lines(n) == [i \in 1 .. n |-> i]
Shown    == IF opts.interactive THEN console ELSE buffer

(* The log of a run that nobody interrupted has every line the child wrote, *)
(* in order, those included that came just before or after it exited; of any*)
(* run it has the lines that were shown, at most the last one missing.      *)
LogComplete ==
  opts.log =>
    /\ Done /\ interrupts = 0 => log = Lines(emitted)
    /\ \E n \in 0 .. emitted, k \in {0, 1}, opening \in {<< >>, Opening}, closing \in {<< >>, Closing} :
         log = Lines(n) /\ Shown = opening \o Lines(n + k) \o closing

(* Held back or not, the output of a command that failed is all on the      *)
(* console when teatime ends, in order and once.                            *)
FailureShown ==
  Done /\ opts.subprocess /\ interrupts = 0 /\ rc # 0 =>
    console = Opening \o Lines(emitted) \o (IF opts.interactive THEN Closing ELSE << >>)

(* ninja never takes a phase for done whose command has failed, was killed  *)
(* or may still be running.                                                 *)
SuccessIsReal == Done /\ opts.subprocess /\ exit = 0 => rc = 0

(* teatime waits for a child that blocks on the pipe nobody reads any more. *)
Stuck == /\ pc = "wait" /\ rc = Running
         /\ "child" \in writers /\ left > 0 /\ Len(pipe) = PipeCap

(* teatime ends, with one exception: it was interrupted, terminated the     *)
(* child and waits for it, and the child blocks on the pipe.                *)
Ends == <>(Done \/ (interrupts > 0 /\ Stuck))

(* A group that is opened on the console is closed on it, also after Ctrl-C,*)
(* with one exception: of a failed command that was held back, the marker   *)
(* goes to the buffer, which was dumped before.                             *)
HeldBack == ~ opts.interactive /\ rc # 0
GroupsClosed ==
  Done /\ opts.label = "group" /\ console # << >> /\ ~ HeldBack =>
    console[Len(console)] = EndGroup
=============================================================================

--------------------------- MODULE ExecutionStack ---------------------------
(***************************************************************************)
(* The segmented Smalltalk stack (src/src/memory.c), the two-stack calling *)
(* machinery (src/src/native/x86/send.c) and its trampolines               *)
(* (src/src/native/x86_64/trampolines.nasm).                               *)
(*                                                                         *)
(* A segment is a page named by its number.  An address in it is a depth,  *)
(* the words between it and the header at the page's end: pushing makes    *)
(* the depth grow, and depth 0 is the header.  stack[s] holds the words    *)
(* from the header down; the word at the lowest address is the last.  The  *)
(* thread data carved out of a thread's first segment takes the first      *)
(* ThreadDataWords words there, so a pointer to it is named by its segment.*)
(*                                                                         *)
(* The threads take turns: one step is a whole call into the C runtime.    *)
(* Nothing in the code orders two threads' calls, so this is an assumption.*)
(***************************************************************************)
EXTENDS Naturals, Sequences, FiniteSets

CONSTANTS Threads,
          MaxSegments,      \* bound: pages of the stack pool
          SegmentWords,     \* words of a segment below its header
          ThreadDataWords,  \* words of SLVM_ThreadStackData, 16-byte aligned
          MaxArguments,     \* bound: arguments of a send
          MaxCalls          \* bound: nested activations of a thread

ASSUME StackAssumption ==
  /\ MaxSegments \in Nat /\ SegmentWords \in Nat
  /\ MaxArguments \in Nat /\ MaxCalls \in Nat \ {0}
  /\ ThreadDataWords \in Nat \ {0} /\ ThreadDataWords % 2 = 0

Segments == 1 .. MaxSegments
NoSegment == 0                   \* the null pointer to a segment or thread data
FreeList == 0                    \* executionStackFreeList; list s is in segment s

INSTANCE LinkedList WITH Nodes <- Segments, Lists <- Segments \union {FreeList},
                         NULL <- NoSegment

VARIABLES
  links,    \* the list heads and the nodes of the segment headers
  header,   \* segment headers: [threadData, framePointer, stackPointer]
  current,  \* currentThreadStackData of each thread
  size,     \* executionStackMemoryPool.base.size, in pages
  cpointer, \* the C stack pointers held by the thread data in a segment
  stack,    \* the words of each segment
  cstack,   \* the C stack of each thread: its frames, oldest first
  cpu,      \* registers: [mode, at, act, seg, fp, rax]
  running,  \* FALSE once the program's behaviour is undefined
  calls     \* history: the activations of each thread, outermost first

memory == <<links, header, current, size, cpointer>>
vars == <<memory, stack, cstack, cpu, running, calls>>

(***************************************************************************)
(* Words.  A word is tagged with what was stored in it.                    *)
(***************************************************************************)
Word(kind, a, b) == [kind |-> kind, a |-> a, b |-> b]
NullFrame    == <<NoSegment, 0>>
Frame(fp)    == Word("frame", fp[1], fp[2])
Return(act)  == Word("return", act, 0)      \* into the body of an activation
Resume(act)  == Word("resume", act, 0)      \* into its prologue, after the trap
PopTrap      == Word("popTrap", 0, 0)       \* _slvm_dynrun_pop_stack_segment_trap
ToC          == Word("toC", 0, 0)           \* _slvm_returnToC_trampoline
Garbage      == Word("garbage", 0, 0)
SendInfo     == <<Word("selector", 0, 0), Word("descriptor", 0, 0)>>
\* Arguments above the receiver, in the order they are pushed.
Message(act, n) == [i \in 1 .. n + 1 |-> Word("oop", act, n + 1 - i)]

Even(n)         == n + (n % 2)                \* 16-byte alignment, in words
Upto(words, d)  == SubSeq(words, 1, d)
\* The words once ws is written below depth d.
WriteAt(words, d, ws) ==
  [i \in 1 .. d |-> IF i <= Len(words) THEN words[i] ELSE Garbage] \o ws

(***************************************************************************)
(* memory.c, on a record of its state.                                     *)
(***************************************************************************)
Memory == [links |-> links, header |-> header, current |-> current,
           size |-> size, cpointer |-> cpointer, stack |-> stack]

SetMemory(m) ==
  /\ links' = m.links       /\ header' = m.header /\ current' = m.current
  /\ size' = m.size         /\ cpointer' = m.cpointer
  /\ stack' = m.stack

\* Bound: the code takes pages from the pool without end.
CanAllocate == links.first[FreeList] # NoSegment \/ size < MaxSegments

\* Mutant: the newest of the free segments.
NewestFree(m) ==
  IF m.links.last[FreeList] # NoSegment THEN m.links.last[FreeList] ELSE m.size + 1

\* slvm_ExecutionStack_allocateSegment: the segment it returns, and the state
\* it leaves; memset clears the header, the list node in it included.
AllocatedSegment(m) ==
  IF m.links.first[FreeList] # NoSegment THEN m.links.first[FreeList] ELSE m.size + 1

\* Mutant: the reused segment stays in the free list.
AllocateStillFree(m) ==
  LET s == AllocatedSegment(m)
      reused == m.links.first[FreeList] # NoSegment IN
  [m EXCEPT !.size = IF reused THEN @ ELSE @ + 1,
            !.header[s] = [threadData |-> NoSegment, framePointer |-> NullFrame,
                           stackPointer |-> 0],
            !.stack[s] = <<>>]

AllocateSegment(m) ==
  LET s == AllocatedSegment(m)
      reused == m.links.first[FreeList] # NoSegment
      unlinked == IF reused THEN RemoveNode(m.links, FreeList, s) ELSE m.links IN
  [m EXCEPT !.links = [unlinked EXCEPT !.next[s] = NoSegment,
                                       !.previous[s] = NoSegment],
            !.size = IF reused THEN @ ELSE @ + 1,
            !.header[s] = [threadData |-> NoSegment, framePointer |-> NullFrame,
                           stackPointer |-> 0],
            !.stack[s] = <<>>]

\* A pointer to the header of a segment, and the words that are before the
\* list node in it: a pointer to the node is that many words after the header.
Header(s)  == <<s, 0>>
NullHeader == Header(NoSegment)
NodeWords  == 6

\* slvm_ExecutionStack_getLastSegment: it returns the address of the last node
\* of the thread's list as if it were that of a header.
LastSegment(m, t) ==
  IF m.current[t] = NoSegment THEN NullHeader ELSE <<m.links.last[m.current[t]], NodeWords>>

\* slvm_ExecutionStack_getValidSegment: the thread's newest segment, or a
\* first one with the thread data at its top.
ValidSegment(m, t) ==
  IF LastSegment(m, t) # NullHeader THEN LastSegment(m, t) ELSE Header(AllocatedSegment(m))

GetValidSegment(m, t) ==
  IF LastSegment(m, t) # NullHeader THEN m
  ELSE LET s == AllocatedSegment(m)
           new == AllocateSegment(m)
           cleared == [new.links EXCEPT !.first[s] = NoSegment, !.last[s] = NoSegment]
       IN [new EXCEPT !.header[s].threadData = s,
                      !.header[s].stackPointer = ThreadDataWords,
                      !.stack[s] = [i \in 1 .. ThreadDataWords |-> Word("threadData", 0, 0)],
                      !.current[t] = s,
                      !.cpointer[s] = 0,
                      !.links = AddNode(cleared, s, s)]

\* Mutant: the new segment points to thread data of its own.
CreateWithOwnData(m, t) ==
  LET s == AllocatedSegment(m)
      new == AllocateSegment(m) IN
  [new EXCEPT !.header[s].threadData = s,
              !.links = AddNode(@, m.current[t], s)]

\* Mutant: the new segment is not put in the thread's list.
CreateUnlinked(m, t) ==
  LET s == AllocatedSegment(m) IN
  [AllocateSegment(m) EXCEPT !.header[s].threadData = m.current[t]]

\* slvm_ExecutionStack_createNewSegment.
CreateNewSegment(m, t) ==
  LET s == AllocatedSegment(m)
      new == AllocateSegment(m) IN
  [new EXCEPT !.header[s].threadData = m.current[t],
              !.links = AddNode(@, m.current[t], s)]

\* slvm_ExecutionStack_popSegment.  The words of a free segment are dead.
PopSegment(m, t, s) ==
  LET unlinked == RemoveNode(m.links, m.current[t], s)
      isLast == unlinked.first[m.current[t]] = NoSegment IN
  [m EXCEPT !.links = AddNode(unlinked, FreeList, s),
            !.current[t] = IF isLast THEN NoSegment ELSE @,
            !.stack[s] = <<>>]

(***************************************************************************)
(* Trampolines.  They find the segment header from the stack pointer, save *)
(* the Smalltalk stack and frame pointers in it, and continue on the C     *)
(* stack at the pointers of the thread data: the C frames above are dead.  *)
(***************************************************************************)
\* Mutant: only the stack pointer is saved.
SaveStackPointer(m, s, depth, fp) == [m EXCEPT !.header[s].stackPointer = depth]

SaveSmalltalk(m, s, depth, fp) ==
  [m EXCEPT !.header[s].stackPointer = depth, !.header[s].framePointer = fp]

\* The C pointers that switch_to_smalltalk stores, once its own frame is pushed.
\* Mutant: those of the function that calls it.
PointersOfCaller(t) == Len(cstack[t])

CPointers(t) == Len(cstack[t]) + 1

OnCStack(m, t, s) == Upto(cstack[t], m.cpointer[m.header[s].threadData])

\* A frame of the C stack.  A switch frame belongs to a call of
\* _slvm_dynrun_switch_to_smalltalk: it keeps the C pointers of the switch
\* before, and whether the segment is given back at the end.  Any other
\* frame is that of a C activation, with the address of the message it
\* answers when it was sent from Smalltalk.
CFrame(act, s, depth) ==
  [kind |-> "function", act |-> act, seg |-> s, depth |-> depth,
   saved |-> 0, base |-> FALSE]
\* Mutant: the segment is never given back.
SwitchKeepsSegment(act, s, saved, base) ==
  [kind |-> "switch", act |-> act, seg |-> s, depth |-> 0,
   saved |-> saved, base |-> FALSE]

SwitchFrame(act, s, saved, base) ==
  [kind |-> "switch", act |-> act, seg |-> s, depth |-> 0,
   saved |-> saved, base |-> base]

InC(act, rax) == [mode |-> "C", at |-> "body", act |-> act,
                  seg |-> NoSegment, fp |-> NullFrame, rax |-> rax]
InSmalltalk(at, act, s, fp, rax) ==
  [mode |-> "Smalltalk", at |-> at, act |-> act, seg |-> s, fp |-> fp, rax |-> rax]

\* _slvm_dynrun_returnToSender_trampoline, pop rbp and ret: with the stack
\* pointer at a depth, the frame pointer is there and the return address above.
FrameAt(words, d) == <<words[d].a, words[d].b>>

Land(word, s, fp, rax) ==
  InSmalltalk(CASE word.kind = "popTrap" -> "popTrap"
                [] word.kind = "toC"     -> "toC"
                [] word.kind = "return"  -> "body"
                [] word.kind = "resume"  -> "checked"
                [] OTHER                 -> "lost",
              word.a, s, fp, rax)

ReturnToSender(words, s, d, rax) == Land(words[d - 1], s, FrameAt(words, d), rax)

(***************************************************************************)
(* The history of a thread's calls.                                        *)
(***************************************************************************)
Activation(lang, n) ==
  [lang |-> lang, arguments |-> n, seg |-> NoSegment, fp |-> NullFrame,
   depth |-> 0, sent |-> FALSE]

Top(t)    == Len(calls[t])
Called(t, lang, n) ==
  Append([calls[t] EXCEPT ![Top(t)].sent = TRUE], Activation(lang, n))

Init ==
  /\ links = EmptyLinks
  /\ header = [s \in Segments |-> [threadData |-> NoSegment,
                 framePointer |-> NullFrame, stackPointer |-> 0]]
  /\ current = [t \in Threads |-> NoSegment]
  /\ size = 0
  /\ cpointer = [s \in Segments |-> 0]
  /\ stack = [s \in Segments |-> <<>>]
  /\ cstack = [t \in Threads |-> <<CFrame(1, NoSegment, 0)>>]
  /\ cpu = [t \in Threads |-> InC(1, 0)]
  /\ running = TRUE
  /\ calls = [t \in Threads |-> <<[Activation("C", 0) EXCEPT !.depth = 1]>>]

RunsC(t)          == cpu[t].mode = "C"
RunsSmalltalk(t)  == cpu[t].mode = "Smalltalk" /\ cpu[t].at = "body"
MayCall(t)        == Top(t) < MaxCalls

\* Words of a frame and of the trampoline's own, which compiled code keeps free.
Slack == 5
Fits(d) == d + Slack <= SegmentWords

(***************************************************************************)
(* Calls from C.                                                           *)
(***************************************************************************)
\* slvm_dynrun_csend of a message a C method or a primitive answers.
CSendToC(t) ==
  /\ RunsC(t) /\ MayCall(t)
  /\ calls' = [calls EXCEPT ![t] =
         Append([@ EXCEPT ![Top(t)].sent = TRUE],
                [Activation("C", 0) EXCEPT !.depth = Len(cstack[t]) + 1])]
  /\ cstack' = [cstack EXCEPT ![t] = Append(@, CFrame(Top(t) + 1, NoSegment, 0))]
  /\ cpu' = [cpu EXCEPT ![t] = InC(Top(t) + 1, 0)]
  /\ UNCHANGED <<memory, stack>>

\* ret of a C activation that C called.
CReturnToC(t) ==
  /\ RunsC(t) /\ Top(t) > 1
  /\ cstack[t][Len(cstack[t])].seg = NoSegment
  /\ cstack' = [cstack EXCEPT ![t] = Upto(@, Len(@) - 1)]
  /\ cpu' = [cpu EXCEPT ![t] = InC(cstack'[t][Len(cstack'[t])].act, Top(t))]
  /\ calls' = [calls EXCEPT ![t] = Upto(@, Len(@) - 1)]
  /\ UNCHANGED <<memory, stack>>

\* slvm_dynrun_csend of a message a Smalltalk method answers: the message is
\* copied to the segment, and switch_to_smalltalk jumps there.
CSendToSmalltalk(t, n) ==
  /\ RunsC(t) /\ MayCall(t)
  /\ LastSegment(Memory, t) = NullHeader /\ CanAllocate
  /\ LET s    == ValidSegment(Memory, t)[1]
         m    == GetValidSegment(Memory, t)
         top  == m.header[s].stackPointer
         data == m.header[s].threadData
         base == top = ThreadDataWords /\ data = s
         pad  == [i \in 1 .. Even(n + 1) - (n + 1) |-> Garbage]
         message == pad \o Message(Top(t), n) \o <<ToC>>
         depth == top + Len(message)
     IN
     /\ Fits(depth)
     /\ SetMemory([m EXCEPT !.stack[s] = WriteAt(@, top, message),
                            !.header[s].stackPointer = depth,
                            !.cpointer[data] = CPointers(t)])
     /\ cstack' = [cstack EXCEPT ![t] =
                     Append(@, SwitchFrame(Top(t), s, m.cpointer[data], base))]
     /\ cpu' = [cpu EXCEPT ![t] =
                  InSmalltalk("entry", Top(t) + 1, s, m.header[s].framePointer, 0)]
     /\ calls' = [calls EXCEPT ![t] = Called(t, "Smalltalk", n)]

\* The same of C code that runs inside a send from Smalltalk.  The fields that
\* are read and written through a pointer which is not that of a header are
\* words of the next page, whatever is there and even if it is not committed:
\* what the program does next is undefined.
CSendPastHeader(t) ==
  /\ RunsC(t) /\ MayCall(t)
  /\ ValidSegment(Memory, t) \notin {Header(s) : s \in Segments}
  /\ running' = FALSE
  /\ UNCHANGED <<memory, stack, cstack, cpu, calls>>

\* _slvm_returnToC_trampoline, the end of switch_to_smalltalk and of
\* slvm_dynrun_send_activateMethod.
ReturnToC(t) ==
  /\ cpu[t].mode = "Smalltalk" /\ cpu[t].at = "toC"
  /\ LET s     == cpu[t].seg
         saved == SaveSmalltalk(Memory, s, Len(stack[s]), cpu[t].fp)
         below == OnCStack(saved, t, s)
         f     == below[Len(below)]
         m     == [saved EXCEPT !.cpointer[header[s].threadData] = f.saved]
     IN
     /\ SetMemory(IF f.base THEN PopSegment(m, t, f.seg) ELSE m)
     /\ cstack' = [cstack EXCEPT ![t] = Upto(below, Len(below) - 1)]
     /\ cpu' = [cpu EXCEPT ![t] = InC(f.act, @.rax)]
  /\ UNCHANGED calls

(***************************************************************************)
(* Compiled Smalltalk code.  It is generated elsewhere: it is known here   *)
(* by what the runtime expects of it.  A method answers by popping its     *)
(* message, as slvm_dynrun_returnToSmalltalkSender does for a primitive.   *)
(***************************************************************************)
\* The prologue pushes the sender's frame pointer.
Prologue(t) ==
  /\ cpu[t].mode = "Smalltalk" /\ cpu[t].at \in {"entry", "checked"}
  /\ LET s == cpu[t].seg
         depth == Len(stack[s]) + 1 IN
     /\ Fits(depth)
     /\ stack' = [stack EXCEPT ![s] = Append(@, Frame(cpu[t].fp))]
     /\ cpu' = [cpu EXCEPT ![t].at = "body", ![t].fp = <<s, depth>>]
     /\ calls' = [calls EXCEPT ![t][Top(t)].seg = s, ![t][Top(t)].fp = <<s, depth>>,
                               ![t][Top(t)].depth = depth]
  /\ UNCHANGED <<memory, cstack>>

\* leave; ret n.
SmalltalkReturn(t) ==
  /\ RunsSmalltalk(t)
  /\ LET s == cpu[t].seg
         words == stack[s]
         d == cpu[t].fp[2]
     IN
     /\ stack' = [stack EXCEPT ![s] = Upto(@, d - 2 - (calls[t][Top(t)].arguments + 1))]
     /\ cpu' = [cpu EXCEPT ![t] = ReturnToSender(words, s, d, Top(t))]
  /\ calls' = [calls EXCEPT ![t] = Upto(@, Len(@) - 1)]
  /\ UNCHANGED <<memory, cstack>>

(***************************************************************************)
(* Calls from Smalltalk.  The compiled code pushes the message and calls   *)
(* the trampoline, which pushes the frame pointer, the selector and the    *)
(* argument descriptor.                                                    *)
(***************************************************************************)
SendWords(t, n) ==
  stack[cpu[t].seg] \o Message(Top(t), n)
    \o <<Return(cpu[t].act), Frame(cpu[t].fp)>> \o SendInfo

SendSaved(t, n) ==
  LET s == cpu[t].seg
      sent == [Memory EXCEPT !.stack[s] = SendWords(t, n)]
  IN  SaveSmalltalk(sent, s, Len(sent.stack[s]), <<s, Len(sent.stack[s]) - 2>>)

\* A Smalltalk method answers: returnToMethod_trampoline drops the
\* trampoline's words and jumps.
SendToSmalltalk(t, n) ==
  /\ RunsSmalltalk(t) /\ MayCall(t)
  /\ Fits(Len(stack[cpu[t].seg]) + n + 2)
  /\ LET s == cpu[t].seg
         m == SendSaved(t, n)
         d == Len(m.stack[s]) - 2
     IN
     /\ SetMemory([m EXCEPT !.stack[s] = Upto(@, d - 1)])
     /\ cstack' = [cstack EXCEPT ![t] = OnCStack(m, t, s)]
     /\ cpu' = [cpu EXCEPT ![t] =
                  InSmalltalk("entry", Top(t) + 1, s, FrameAt(m.stack[s], d), 0)]
  /\ calls' = [calls EXCEPT ![t] = Called(t, "Smalltalk", n)]

\* A primitive method answers: it runs on the C stack.
SendToPrimitive(t, n) ==
  /\ RunsSmalltalk(t) /\ MayCall(t)
  /\ Fits(Len(stack[cpu[t].seg]) + n + 2)
  /\ LET s == cpu[t].seg
         m == SendSaved(t, n)
         below == OnCStack(m, t, s)
     IN
     /\ SetMemory(m)
     /\ cstack' = [cstack EXCEPT ![t] =
                     Append(below, CFrame(Top(t) + 1, s, Len(m.stack[s])))]
     /\ calls' = [calls EXCEPT ![t] =
                     Append([@ EXCEPT ![Top(t)].sent = TRUE],
                            [Activation("C", n) EXCEPT !.depth = Len(below) + 1])]
  /\ cpu' = [cpu EXCEPT ![t] = InC(Top(t) + 1, 0)]

AnswersSmalltalk(t) ==
  RunsC(t) /\ cstack[t][Len(cstack[t])].seg # NoSegment

\* slvm_dynrun_returnToSmalltalkSender: the frame pointer and the return
\* address, at depths d and d + 1 counted upward, are moved to the two words
\* at the top of the message, with which they may overlap; the return address
\* is moved first.
\* Mutant: the frame pointer is moved first.
MoveFrameFirst(words, d, target) ==
  LET frameMoved == [words EXCEPT ![target] = words[d]]
  IN  [frameMoved EXCEPT ![target - 1] = frameMoved[d - 1]]

MoveReturnFrame(words, d, target) ==
  LET returnMoved == [words EXCEPT ![target - 1] = words[d - 1]]
  IN  [returnMoved EXCEPT ![target] = returnMoved[d]]

PrimitiveReturn(t) ==
  /\ AnswersSmalltalk(t)
  /\ LET f == cstack[t][Len(cstack[t])]
         n == calls[t][Top(t)].arguments
         d == f.depth - 2
         target == f.depth - 4 - n + 1
         words == MoveReturnFrame(stack[f.seg], d, target)
     IN
     /\ stack' = [stack EXCEPT ![f.seg] = Upto(words, target - 2)]
     /\ cpu' = [cpu EXCEPT ![t] = ReturnToSender(words, f.seg, target, Top(t))]
  /\ calls' = [calls EXCEPT ![t] = Upto(@, Len(@) - 1)]
  /\ UNCHANGED <<memory, cstack>>

\* slvm_primitiveReplaceContextWithCompiledMethodActivation, with which
\* BlockClosure>>value... runs the block in the primitive's place.  Of a primitive
\* that C called, the activation is another send from C, CSendToC or
\* CSendToSmalltalk, whose answer the primitive returns.
ReplaceContext(t) ==
  /\ AnswersSmalltalk(t)
  /\ LET f == cstack[t][Len(cstack[t])]
         d == f.depth - 2
     IN
     /\ stack' = [stack EXCEPT ![f.seg] = Upto(@, d - 1)]
     /\ cpu' = [cpu EXCEPT ![t] =
                  InSmalltalk("entry", Top(t), f.seg, FrameAt(stack[f.seg], d), 0)]
  /\ calls' = [calls EXCEPT ![t][Top(t)] =
                  [Activation("Smalltalk", @.arguments) EXCEPT !.sent = FALSE]]
  /\ UNCHANGED <<memory, cstack>>

\* slvm_dynrun_primitive_dispatch_trampoline and SLVM_RUNTIME_PRIMITIVE_RETURN:
\* a runtime primitive pops its arguments rounded up to 16 bytes.
RuntimePrimitive(t, popCount) ==
  /\ RunsSmalltalk(t)
  /\ Fits(Len(stack[cpu[t].seg]) + Even(popCount))
  /\ LET s == cpu[t].seg
         arguments == [i \in 1 .. Even(popCount) |-> Garbage]
         called == stack[s] \o arguments \o <<Return(cpu[t].act), Frame(cpu[t].fp)>>
         d == Len(called)
         target == d - 2 - Even(popCount) + 2
         words == MoveReturnFrame(called, d, target)
         m == SaveSmalltalk(Memory, s, d, <<s, d>>)
     IN
     /\ SetMemory([m EXCEPT !.stack[s] = Upto(words, target - 2)])
     /\ cstack' = [cstack EXCEPT ![t] = OnCStack(m, t, s)]
     /\ cpu' = [cpu EXCEPT ![t] = ReturnToSender(words, s, target, Top(t) + 1)]
  /\ calls' = [calls EXCEPT ![t][Top(t)].sent = TRUE]

(***************************************************************************)
(* Segment overflow and underflow.                                         *)
(***************************************************************************)
\* _slvm_dynrun_stack_limit_trap and slvm_dynrun_new_stack_segment: a method
\* whose frame does not fit continues in a new segment, with a copy of its
\* message, and returns through the trap that gives the segment back.
StackLimitTrap(t) ==
  /\ cpu[t].mode = "Smalltalk" /\ cpu[t].at = "entry" /\ CanAllocate
  /\ LET s     == cpu[t].seg
         words == Append(stack[s], Resume(cpu[t].act))
         depth == Len(words)
         total == calls[t][Top(t)].arguments + 3
         saved == SaveSmalltalk(Memory, s, depth, cpu[t].fp)
         new   == AllocatedSegment(saved)
         m     == CreateNewSegment(saved, t)
         copied == [SubSeq(words, depth - total + 1, depth)
                      EXCEPT ![total - 1] = PopTrap]
         moved  == Append(copied, Frame(m.header[new].framePointer))
         oldDepth == depth - (total - 2)
         old    == [words EXCEPT ![oldDepth] = Frame(m.header[s].framePointer),
                                 ![oldDepth - 1] = words[depth - 1]]
     IN
     /\ SetMemory([m EXCEPT !.header[new].stackPointer = Len(moved),
                            !.header[s].stackPointer = oldDepth,
                            !.stack[new] = Upto(moved, total - 1),
                            !.stack[s] = Upto(old, oldDepth)])
     /\ cstack' = [cstack EXCEPT ![t] = OnCStack(saved, t, s)]
     /\ cpu' = [cpu EXCEPT ![t] = ReturnToSender(moved, new, Len(moved), 0)]
  /\ UNCHANGED calls

\* _slvm_dynrun_pop_stack_segment_trap and slvm_dynrun_pop_stack_segment.
PopStackSegment(t) ==
  /\ cpu[t].mode = "Smalltalk" /\ cpu[t].at = "popTrap"
  /\ LET s == cpu[t].seg
         saved == SaveSmalltalk(Memory, s, Len(stack[s]), cpu[t].fp)
         previous == links.previous[s]
         d == header[previous].stackPointer
         m == PopSegment(saved, t, s)
     IN
     /\ previous # NoSegment
     /\ SetMemory([m EXCEPT !.stack[previous] = Upto(@, d - 2)])
     /\ cstack' = [cstack EXCEPT ![t] = OnCStack(saved, t, s)]
     /\ cpu' = [cpu EXCEPT ![t] = ReturnToSender(stack[previous], previous, d, @.rax)]
  /\ UNCHANGED calls

Step(t) ==
  \/ CSendToC(t) \/ CReturnToC(t)
  \/ \E n \in 0 .. MaxArguments:
        CSendToSmalltalk(t, n) \/ SendToSmalltalk(t, n) \/ SendToPrimitive(t, n)
  \/ \E popCount \in {1, 4}: RuntimePrimitive(t, popCount)
  \/ PrimitiveReturn(t) \/ ReplaceContext(t)
  \/ Prologue(t) \/ SmalltalkReturn(t)
  \/ ReturnToC(t) \/ StackLimitTrap(t) \/ PopStackSegment(t)

\* After CSendPastHeader the program may do anything; nothing more is said of it.
Stopped == ~running /\ UNCHANGED vars

Next ==
  \/ /\ running
     /\ \/ UNCHANGED running /\ \E t \in Threads: Step(t)
        \/ \E t \in Threads: CSendPastHeader(t)
  \/ Stopped

Spec == Init /\ [][Next]_vars
-----------------------------------------------------------------------------
WordType == [kind: {"oop", "return", "resume", "popTrap", "toC", "frame", "selector",
                    "descriptor", "threadData", "garbage"}, a: Nat, b: Nat]

\* Type correctness of the machine: the words of the stacks, the registers,
\* the C frames and the headers hold values of the kinds the code stores there.
TypeOK ==
  /\ links \in LinksType
  /\ header \in [Segments -> [threadData: Pointers, framePointer: Pointers \X Nat,
                              stackPointer: 0 .. SegmentWords]]
  /\ current \in [Threads -> Pointers]
  /\ size \in 0 .. MaxSegments
  /\ cpointer \in [Segments -> Nat]
  /\ stack \in [Segments -> Seq(WordType)]
  /\ running \in BOOLEAN
  /\ \A t \in Threads:
       /\ cpu[t].mode \in {"C", "Smalltalk"}
       /\ cpu[t].at \in {"body", "entry", "checked", "popTrap", "toC"}
       /\ cpu[t].act \in 0 .. MaxCalls /\ cpu[t].rax \in Nat
       /\ cpu[t].seg \in Pointers /\ cpu[t].fp \in Pointers \X Nat
       /\ Len(cstack[t]) > 0 /\ Len(calls[t]) \in 1 .. MaxCalls

\* Control always returns to the sender, whatever mixture of C and Smalltalk
\* frames, traps and segments lies between: code that runs is the innermost
\* activation, at its own frame pointer and stack depth (all its pushed words
\* popped, none of its own), and after a call it sees the callee's result.
ReturnsToSender ==
  \A t \in Threads: LET c == calls[t][Top(t)] IN
    cpu[t].at = "body" =>
      /\ cpu[t].act = Top(t)
      /\ cpu[t].mode = c.lang
      /\ c.sent => cpu[t].rax = Top(t) + 1
      /\ IF RunsC(t)
         THEN /\ Len(cstack[t]) = c.depth
              /\ cstack[t][c.depth].act = Top(t)
              /\ cstack[t][c.depth].kind = "function"
         ELSE <<cpu[t].seg, cpu[t].fp, Len(stack[cpu[t].seg])>>
                = <<c.seg, c.fp, c.depth>>

\* The C frames of suspended C activations survive: the trampolines, which
\* drop the C stack to the pointers in the thread data, never drop one.
CFramesSurvive ==
  \A t \in Threads: \A i \in 1 .. Top(t):
    calls[t][i].lang = "C" =>
      /\ calls[t][i].depth <= Len(cstack[t])
      /\ cstack[t][calls[t][i].depth].act = i
      /\ cstack[t][calls[t][i].depth].kind = "function"

\* The thread data is shared by all segments of a thread and is in its first
\* one: any segment the trampolines find from the stack pointer leads them to
\* the C stack of the thread that runs on it, and a thread has thread data
\* exactly while it has a segment.
ThreadDataShared ==
  \A t \in Threads:
    current[t] # NoSegment =>
      LET held == ListNodes(links, current[t]) IN
      /\ held # <<>> /\ held[1] = current[t]
      /\ \A i \in 1 .. Len(held): header[held[i]].threadData = current[t]
      /\ Upto(stack[current[t]], ThreadDataWords)
           = [i \in 1 .. ThreadDataWords |-> Word("threadData", 0, 0)]

\* Smalltalk code runs on its thread's newest segment, and the trap that gives
\* a segment back always finds the one before it (the assert at send.c:155).
RunsOnNewestSegment ==
  \A t \in Threads: cpu[t].mode = "Smalltalk" =>
    /\ current[t] # NoSegment /\ cpu[t].seg = links.last[current[t]]
    /\ cpu[t].at = "popTrap" => links.previous[cpu[t].seg] # NoSegment

\* A send is defined wherever it is made, in C code that is itself called from
\* Smalltalk too: the header of the segment that a send from C switches to has
\* its fields where "Stack segment header" (trampolines.nasm:176-183, "(-48)
\* threadData;") says they are, before the address it is given.
SendsDefined == running

\* A thread that is back in the C code it started with, or that has called
\* nothing but C, holds no segment: the outermost send gives everything back.
OutermostSendReleases ==
  \A t \in Threads:
    (\A i \in 1 .. Top(t): calls[t][i].lang = "C") /\ RunsC(t) =>
      current[t] = NoSegment

\* The pointer structure implements the pool of segments: the lists threaded
\* through the segment headers are the free list and the threads' stacks.
Pool == INSTANCE SegmentPool WITH
  free  <- ListNodes(links, FreeList),
  owned <- [t \in Threads |-> IF current[t] = NoSegment THEN <<>>
                             ELSE ListNodes(links, current[t])]

PoolSpec == Pool!Spec

\* Every page taken from the pool is in exactly one place: the free list or
\* the stack of one thread, once.
SegmentsHaveOnePlace == Pool!OnePlace /\ Pool!NoneLost
=============================================================================

----------------------------- MODULE FrameAlloc -----------------------------
(***************************************************************************)
(* The physical frame allocator (src/src/memory/frame.rs), shared by all    *)
(* CPUs: every call of the bitmap allocator takes the lock, so the loops of *)
(* new_16 (the root of a riscv64 page table) and new_contiguous_with_base   *)
(* (the SMMU's tables) interleave with other CPUs' calls.                   *)
(*                                                                          *)
(* The bitmap allocator is a library: alloc takes the lowest free frame,    *)
(* alloc_contiguous the lowest run of free frames.                          *)
(***************************************************************************)
EXTENDS Integers, FiniteSets, FiniteSetsExt

CONSTANTS NFrame,   \* frames of the pool
          PoolBase, \* number of the pool's first frame
          NCpu,
          Count,    \* frames new_contiguous_with_base is asked for
          Align     \* and their alignment, in frames

ASSUME FrameAssumption == /\ NFrame \in Nat /\ PoolBase \in Nat /\ NCpu \in Nat
                          /\ Count \in Nat \ {0} /\ Align \in Nat \ {0}

VARIABLES free,  \* the bitmap
          held,  \* the Frames alive, as runs <<start, count>>
          call   \* per CPU, the constructor it runs

fvars == <<free, held, call>>

Pool == PoolBase .. PoolBase + NFrame - 1
Cpu  == 1 .. NCpu
NoCall == [op |-> "idle"]
Frames(s, n) == s .. s + n - 1

\* FrameAllocator::init.
FrameInit == free = Pool /\ held = {} /\ call = [c \in Cpu |-> NoCall]

\* alloc and alloc_contiguous: the runs the allocator may answer with.
alloc_contiguous(n) == LET S == {s \in free : Frames(s, n) \subseteq free} IN
                         IF S = {} THEN {} ELSE {Min(S)}

take(s, n) == free' = free \ Frames(s, n)

\* Defect: a run gives back only its first frame.
dealloc_First(F) == free' = free \cup {f[1] : f \in F}

\* Drop for Frame, for a set of Frames: dealloc, dealloc_contiguous.
dealloc(F) == free' = free \cup UNION {Frames(f[1], f[2]) : f \in F}

goto(c, j) == call' = [call EXCEPT ![c] = j]
-----------------------------------------------------------------------------
(* Frame::new and new_zero                                                  *)
NewFrame(c) == /\ call[c] = NoCall
               /\ \E s \in alloc_contiguous(1) : take(s, 1) /\ held' = held \cup {<<s, 1>>}
               /\ UNCHANGED call

(* The owner drops a Frame.                                                 *)
DropFrame(c, f) == /\ call[c] = NoCall /\ f \in held
                   /\ dealloc({f})
                   /\ held' = held \ {f}
                   /\ UNCHANGED call
-----------------------------------------------------------------------------
(* new_contiguous_with_base(Count, ...)                                     *)
WithBase(c) == /\ call[c] = NoCall
               /\ goto(c, [op |-> "first", tries |-> {}])
               /\ UNCHANGED <<free, held>>

First(c) ==
  /\ call[c].op = "first"
  /\ LET got == alloc_contiguous(Count) IN
     \/ /\ got = {}                           \* ENOMEM: attempted_frames are dropped
        /\ dealloc(call[c].tries)
        /\ goto(c, NoCall) /\ UNCHANGED held
     \/ \E s \in got :
          /\ take(s, Count)
          /\ IF s % Align = 0
             THEN goto(c, [op |-> "ok", s |-> s, n |-> Count, tries |-> call[c].tries])
             ELSE goto(c, [op |-> "misaligned", s |-> s, tries |-> call[c].tries])
          /\ UNCHANGED held

\* drop(frame)
Misaligned(c) ==
  /\ call[c].op = "misaligned"
  /\ dealloc({<<call[c].s, Count>>})
  /\ goto(c, [op |-> "filler", n |-> Align - (call[c].s % Align), tries |-> call[c].tries])
  /\ UNCHANGED held

\* attempted_frames.push(Frame::new_contiguous(temp_frame_count, 0))
Filler(c) ==
  /\ call[c].op = "filler"
  /\ LET got == alloc_contiguous(call[c].n)
         t   == {<<s, call[c].n>> : s \in got}
     IN /\ free' = free \ UNION {Frames(f[1], f[2]) : f \in t}
        /\ goto(c, [op |-> "second", tries |-> call[c].tries \cup t])
  /\ UNCHANGED held

\* The second try, whose result is not looked at.
Second(c) ==
  /\ call[c].op = "second"
  /\ LET got == alloc_contiguous(Count) IN
     \/ got = {} /\ goto(c, [op |-> "first", tries |-> call[c].tries]) /\ UNCHANGED free
     \/ \E s \in got :
          /\ take(s, Count)
          /\ goto(c, [op |-> "ok", s |-> s, n |-> Count, tries |-> call[c].tries])
  /\ UNCHANGED held

\* The constructor returns Ok and its vector is dropped.
ReturnFrame(c) ==
  /\ call[c].op = "ok"
  /\ dealloc(call[c].tries)
  /\ held' = held \cup {<<call[c].s, call[c].n>>}
  /\ goto(c, NoCall)
-----------------------------------------------------------------------------
(* new_16: single frames until one is at the start of a group of four ...   *)
New16(c) == /\ call[c] = NoCall
            /\ goto(c, [op |-> "probe", tries |-> {}])
            /\ UNCHANGED <<free, held>>

Probe(c) ==
  /\ call[c].op = "probe"
  /\ LET got == alloc_contiguous(1) IN
     \/ got = {} /\ dealloc(call[c].tries) /\ goto(c, NoCall)
     \/ \E s \in got :
          /\ take(s, 1)
          /\ IF s % 4 = 0 THEN goto(c, [op |-> "found", s |-> s, tries |-> call[c].tries])
                          ELSE goto(c, [op |-> "probe", tries |-> call[c].tries \cup {<<s, 1>>}])
  /\ UNCHANGED held

\* ... which is dropped,
Found(c) == /\ call[c].op = "found"
            /\ dealloc({<<call[c].s, 1>>})
            /\ goto(c, [op |-> "four", tries |-> call[c].tries])
            /\ UNCHANGED held

\* and four frames are taken.
Four(c) ==
  /\ call[c].op = "four"
  /\ LET got == alloc_contiguous(4) IN
     \/ got = {} /\ dealloc(call[c].tries) /\ goto(c, NoCall)
     \/ \E s \in got : /\ take(s, 4)
                       /\ goto(c, [op |-> "ok", s |-> s, n |-> 4, tries |-> call[c].tries])
  /\ UNCHANGED held

FrameNext == \/ \E c \in Cpu : \/ NewFrame(c) \/ ReturnFrame(c)
                               \/ WithBase(c) \/ First(c) \/ Misaligned(c) \/ Filler(c) \/ Second(c)
                               \/ New16(c) \/ Probe(c) \/ Found(c) \/ Four(c)
                               \/ \E f \in held : DropFrame(c, f)

FrameSpec == FrameInit /\ [][FrameNext]_fvars
-----------------------------------------------------------------------------
\* The Frames alive inside a constructor: those it gave up and the one it looks at.
Tries(c) == IF call[c] = NoCall THEN {} ELSE call[c].tries
Current(c) == CASE call[c].op = "ok" -> {<<call[c].s, call[c].n>>}
                [] call[c].op = "misaligned" -> {<<call[c].s, Count>>}
                [] call[c].op = "found" -> {<<call[c].s, 1>>}
                [] OTHER -> {}
AllFrames == held \cup UNION {Tries(c) \cup Current(c) : c \in Cpu}

(* However the loops of several CPUs interleave and fail, every frame of    *)
(* the pool is free or part of exactly one Frame alive: none is given out   *)
(* twice and none is lost on an error path.                                 *)
FramesAccounted ==
  \A f \in Pool : Cardinality({r \in AllFrames : f \in Frames(r[1], r[2])})
                    = IF f \in free THEN 0 ELSE 1
=============================================================================

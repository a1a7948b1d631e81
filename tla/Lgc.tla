-------------------------------- MODULE Lgc --------------------------------
(***************************************************************************)
(* The garbage collector of lgc.c and the program it works for.            *)
(*                                                                         *)
(* The program (lapi.c, lvm.c, lfunc.c, lstring.c) creates objects, stores *)
(* references, with the barrier each kind of object asks for, drops them   *)
(* and switches threads.  The collector runs between its steps: a basic    *)
(* step (ilyaC_step), a full collection, one in an emergency (an           *)
(* allocation failed), a change of mode, the final one of ilya_close.      *)
(*                                                                         *)
(* A collection is a C call that runs finalizers, which are the program    *)
(* again: `todo' has what is left to do of the calls in progress, the      *)
(* innermost first.  Its elements are                                      *)
(*   "pause", "propagate", "callfin"   ilyaC_runtilstate to that state     *)
(*   "cycle"     the loop of a basic step that does a whole cycle          *)
(*   "togen"     the end of entergen                                       *)
(*   "tomajor"   the end of ilyaC_fullgc in major mode                     *)
(*   "endemerg"  the end of an emergency collection: gcemergency is set    *)
(*   "finall"    callallpendingfinalizers                                  *)
(*   "stopem"    the end of a singlestep that goes on calling finalizers:  *)
(*               gcstopem is set                                           *)
(*   "fin"       the finalizer that is running: gcstp has GCSTPGC          *)
(*   "capture"   pushclosure, which has to capture an upvalue              *)
(*   "delete"    the end of ilyaC_freeallobjects: gcstp has GCSTPCLS       *)
(*   "closed"    ilya_close has returned                                   *)
(***************************************************************************)
EXTENDS GCHeap

CONSTANTS
  MainThread,
  SweepMax,     \* GCSWEEPMAX
  MayMode,      \* the modes each table may be given                  (bound)
  MayFinalize,  \* the objects that may get a finalizer               (bound)
  Calls,        \* what this instance calls, of "step", "cycle",     (bound)
                \* "full", "emergency", "inc", "gen", "close" and "join"
  CloseStates   \* the collector's states in which it may be closed   (bound)

ASSUME LgcAssumption ==
  /\ MainThread \in Roots /\ Kind[MainThread] = "thread"
  /\ SweepMax \in Nat \ {0}
  /\ MayMode \in [Tables -> SUBSET Modes]
  /\ \A o \in MayFinalize : Kind[o] \in {"table", "udata"}

VARIABLES
  g,     \* the heap
  L,     \* the running thread
  todo   \* the calls of the collector in progress

vars == <<g, L, todo>>

InProgress(task) == task \in ToSet(todo)
Task      == IF todo = <<>> THEN "none" ELSE Head(todo)
Mutating  == Task \in {"none", "fin"}
Emergency == InProgress("endemerg")                     \* gcemergency
Closing   == InProgress("delete")                       \* GCSTPCLS
Closed    == todo = <<"closed">>

Init ==
  /\ LET all == SetToSeq(Roots \ {MainThread}) \o <<MainThread>>
     IN  g = [obj |-> [o \in Objs |-> IF o \in Roots THEN NewObject("white0") ELSE NoObject],
              allgc |-> all, finobj |-> <<>>, tobefnz |-> <<>>,
              gray |-> {}, grayagain |-> {}, weak |-> {}, allweak |-> {}, ephemeron |-> {},
              twups |-> {}, cache |-> {}, white |-> "white0", state |-> "pause", kind |-> "inc",
              sweep |-> NULL, survival |-> NULL, old1 |-> NULL, reallyold |-> NULL,
              firstold1 |-> NULL, finobjsur |-> NULL, finobjold1 |-> NULL, finobjrold |-> NULL]
  /\ L = MainThread
  /\ todo = <<>>
-----------------------------------------------------------------------------
(***************************************************************************)
(* The program.  It reaches objects through every reference, the weak ones *)
(* included, from the roots and the running thread.                        *)
(***************************************************************************)
References(s, o) ==
  CASE Kind[o] = "upval"  -> Contents(s, o)
    [] Kind[o] = "thread" -> {e[2] : e \in s.obj[o].ent}
    [] OTHER -> {e[2] : e \in s.obj[o].ent} \cup ({e[1] : e \in s.obj[o].ent} \cap Objs)
Reachable(s, O) == Closure(O, LAMBDA X : UNION {References(s, o) : o \in X})
Accessible == Reachable(g, Roots \cup {L})

SlotOf(o) == <<"slot", o>>
Push(s, o) == [s EXCEPT !.obj[L].ent = @ \cup {SlotOf(o)}]
Alloc(s, o) == [s EXCEPT !.obj[o] = NewObject(s.white), !.allgc = <<o>> \o @]

(* ilyaC_newobj; the new object goes to the stack of the running thread.   *)
New(o) ==
  /\ Mutating /\ o \notin Allocated(g) /\ SlotOf(o) \in MayHold[L]
  /\ Kind[o] \notin {"upval", "string"}
  /\ g' = Push(Alloc(g, o), o)
  /\ todo' = IF Kind[o] = "closure" THEN <<"capture">> \o todo ELSE todo
  /\ UNCHANGED L

(* A reference is stored: which barrier follows depends on the object.     *)
Replaced(s, o, e) ==
  [s EXCEPT !.obj[o].ent = {x \in @ : x[1] # e[1] \/ e[1] = "slot"} \cup {e}]
Barrier(s, o, e) ==
  CASE Kind[o] = "thread" -> s
    [] Kind[o] \in {"table", "udata"} /\ e[1] # "mt" -> BarrierBack(s, o, {e[1], e[2]} \cap Objs)
    [] OTHER -> BarrierForward(s, o, e[2])
SetUpval(s, u, e) ==
  IF IsOpen(s, u) THEN Replaced(s, s.obj[u].th, <<u, e[2]>>)
  ELSE BarrierForward([s EXCEPT !.obj[u].ent = {e}], u, e[2])
Store(A, o, e) ==
  /\ Mutating /\ o \in A /\ {e[1], e[2]} \cap Objs \subseteq A
  /\ (Kind[o] = "thread" => o = L) /\ e[2] \notin Upvals
  /\ e \notin g.obj[o].ent /\ (Kind[o] = "upval" => e[2] \notin Contents(g, o))
  /\ g' = IF Kind[o] = "upval" THEN SetUpval(g, o, e) ELSE Barrier(Replaced(g, o, e), o, e)
  /\ UNCHANGED <<L, todo>>

(* A reference is overwritten with something that is no object, or the     *)
(* stack of the running thread shrinks: no barrier.                        *)
Drop(A, o, e) ==
  /\ Mutating /\ o \in A /\ e \in g.obj[o].ent /\ e[1] # "fin"
  /\ Kind[o] # "closure" /\ (Kind[o] = "thread" => o = L)
  /\ g' = [g EXCEPT !.obj[o].ent = @ \ {e}]
  /\ UNCHANGED <<L, todo>>

(* The __mode of a table's metatable.                                      *)
SetMode(A, t, m) ==
  /\ Mutating /\ t \in A /\ m # g.obj[t].mode
  /\ g' = [g EXCEPT !.obj[t].mode = m]
  /\ UNCHANGED <<L, todo>>

(* ilya_setmetatable with a metatable that has a __gc.                     *)
SetFinalizer(A, o) ==
  /\ Mutating /\ o \in A /\ ~g.obj[o].tofin /\ ~Closing
  /\ g' = CheckFinalizer(g, o)
  /\ UNCHANGED <<L, todo>>

(* internshrstr, from ilyaS_new (which caches the string) or not.  A dead  *)
(* string still in the string table is used again.                         *)
Intern(s, cached) ==
  /\ Mutating /\ SlotOf(s) \in MayHold[L]
  /\ cached => s \notin g.cache
  /\ LET h == IF s \notin Allocated(g) THEN Alloc(g, s)
              ELSE IF IsDead(g, s) THEN MakeWhite(g, s) ELSE g
     IN  \E c \in IF cached THEN {g.cache \cup {s}, {s}} ELSE {g.cache} :
           g' = [Push(h, s) EXCEPT !.cache = c]
  /\ UNCHANGED <<L, todo>>
CacheHit(s) ==
  /\ Mutating /\ s \in g.cache /\ SlotOf(s) \in MayHold[L]
  /\ g' = Push(g, s)
  /\ UNCHANGED <<L, todo>>

(* The new closure c captures a stack slot of the running thread in a new  *)
(* upvalue, or shares one, or needs none: an allocation, which may fail,   *)
(* comes before.                                                           *)
Captured(s, c, u) == BarrierForward([s EXCEPT !.obj[c].ent = {SlotOf(u)}], c, u)
Capture(A, c, u) ==
  /\ Task = "capture" /\ Kind[c] = "closure" /\ SlotOf(c) \in g.obj[L].ent /\ g.obj[c].ent = {}
  /\ \/ /\ u \notin Allocated(g)
        /\ \E e \in {x \in g.obj[L].ent : x[1] = "slot"} :
             LET open == [Alloc(g, u) EXCEPT !.obj[u].th = L, !.twups = @ \cup {L},
                                             !.obj[L].ent = (@ \ {e}) \cup {<<u, e[2]>>}]
             IN  g' = Captured(open, c, u)
     \/ u \in A /\ g' = Captured(g, c, u)
     \/ UNCHANGED g
  /\ todo' = Tail(todo)
  /\ UNCHANGED L

(* ilya_upvaluejoin: closure c shares the upvalue of some closure.         *)
Join(A, c, u) ==
  /\ "join" \in Calls /\ Mutating /\ c \in A /\ Kind[c] = "closure" /\ g.obj[c].ent # {}
  /\ \E f \in A : Kind[f] = "closure" /\ SlotOf(u) \in g.obj[f].ent
  /\ g' = Captured(g, c, u)
  /\ UNCHANGED <<L, todo>>

(* ilyaF_closeupval of the running thread, or of one that is being closed. *)
CloseUpvalue(A, u) ==
  /\ Mutating /\ IsOpen(g, u) /\ g.obj[u].th \in A
  /\ g' = CloseUpval(g, u)
  /\ UNCHANGED <<L, todo>>

(* A coroutine is resumed, or yields to the one that resumed it.           *)
Switch(A, t) ==
  /\ Mutating /\ t \in A \ {L}
  /\ L' = t
  /\ UNCHANGED <<g, todo>>

(* A finalizer returns to GCTM.                                            *)
FinReturn ==
  /\ Task = "fin"
  /\ \E e \in g.obj[L].ent : e[1] = "fin"
  /\ g' = [g EXCEPT !.obj[L].ent = {e \in @ : e[1] # "fin"}]
  /\ todo' = Tail(todo)
  /\ UNCHANGED L
-----------------------------------------------------------------------------
(***************************************************************************)
(* The collector.  `rest' is what is left to do afterwards.                *)
(***************************************************************************)

(* GCTM: the object's metatable may have lost its finalizer by now.        *)
GCTM(rest) ==
  LET o    == Head(g.tobefnz)
      back == UData2Finalize(g)
  IN  \/ g' = [back EXCEPT !.obj[L].ent = @ \cup {<<"fin", o>>}] /\ todo' = <<"fin">> \o rest
      \/ g' = back /\ todo' = rest

(* singlestep where it has no choice and calls nothing: at most n objects  *)
(* are swept (sweepstep), and the propagation is over or left to atomic.   *)
SweepStep(s, n, next, list) ==
  IF s.sweep # NULL THEN SweepList(s, s.sweep, n) ELSE [s EXCEPT !.state = next, !.sweep = list]
QuietStep(s, n) ==
  CASE s.state = "pause"       -> RestartCollection(s)
    [] s.state = "propagate"   -> [s EXCEPT !.state = "enteratomic"]
    [] s.state = "enteratomic" -> EnterSweep(Atomic(s, L))
    [] s.state = "swpallgc"    -> SweepStep(s, n, "swpfinobj", "finobj")
    [] s.state = "swpfinobj"   -> SweepStep(s, n, "swptobefnz", "tobefnz")
    [] s.state = "swptobefnz"  -> SweepStep(s, n, "swpend", NULL)
    [] s.state = "swpend"      -> [s EXCEPT !.state = "callfin"]
    [] s.state = "callfin"     -> [s EXCEPT !.state = "pause"]

(* The rest of singlestep: a major collection may return to minor ones     *)
(* (checkmajorminor, whose sizes are not modelled), which is also the end  *)
(* of the loop in incstep: `over' is left; or a finalizer is called.       *)
CallsNoFinalizer(s) == s.state = "enteratomic" /\ s.kind = "major"   \* a mutant
HasChoice(s) ==
  \/ s.state = "enteratomic" /\ s.kind = "major"
  \/ s.state = "callfin" /\ s.tobefnz # <<>> /\ ~Emergency
Choice(rest, over) ==
  IF g.state = "callfin" THEN GCTM(rest)
  ELSE LET marked == Atomic(g, L)
       IN  \/ g' = EnterSweep(marked) /\ todo' = rest
           \/ g' = Atomic2Gen(marked) /\ todo' = <<"finall", "stopem">> \o over

(* ilyaC_runtilstate, as far as it goes without a choice.                  *)
Phases == 12       \* singlesteps of a fast cycle, at most
Run(s, target) ==
  LET run[n \in 0 .. Phases] ==
        IF n = 0 THEN s
        ELSE LET h == run[n - 1]
             IN  IF h.state = target \/ HasChoice(h) THEN h ELSE QuietStep(h, Cardinality(Objs))
  IN  run[Phases]

(* ilyaC_step in incremental mode: a single step, or a whole cycle when    *)
(* the step multiplier asks for no pause.                                  *)
IncStep ==
  /\ "step" \in Calls /\ todo = <<>> /\ g.kind # "minor"
  /\ IF HasChoice(g) THEN Choice(<<>>, <<>>)
     ELSE /\ IF g.state = "propagate" /\ g.gray # {}
             THEN \E o \in g.gray : g' = PropagateMark(g, o)
             ELSE g' = QuietStep(g, SweepMax)
          /\ UNCHANGED todo
  /\ UNCHANGED L
IncCycle ==
  /\ "cycle" \in Calls /\ todo = <<>> /\ g.kind # "minor"
  /\ g' = IF g.state = "pause" THEN RestartCollection(g) ELSE g
  /\ todo' = <<"cycle">>
  /\ UNCHANGED L

(* ilyaC_step in generational mode: a minor collection, which may find     *)
(* that it is time for a major one (checkminormajor).                      *)
YoungStep ==
  /\ "step" \in Calls /\ todo = <<>> /\ g.kind = "minor"
  /\ LET young == YoungCollection(g, L)
     IN  \/ g' = FinishGenCycle(young) /\ todo' = <<"finall">>
         \/ g' = Minor2Inc(young, "major") /\ UNCHANGED todo
  /\ UNCHANGED L

(* ilyaC_fullgc.  In generational mode it is a whole cycle and a return to *)
(* that mode.                                                              *)
FullGen(rest) == g' = Minor2Inc(g, "inc") /\ todo' = <<"pause", "propagate", "togen">> \o rest
FullGC(emergency) ==
  LET rest == (IF emergency THEN <<"endemerg">> ELSE <<>>) \o todo
      inc  == [(IF KeepInvariant(g) THEN EnterSweep(g) ELSE g) EXCEPT !.kind = "inc"]
      end  == IF g.kind = "major" THEN <<"tomajor">> ELSE <<>>
  IN  /\ IF g.kind = "minor"
         THEN FullGen(rest)
         ELSE g' = inc /\ todo' = <<"pause", "callfin", "pause">> \o end \o rest
      /\ UNCHANGED L
Collect == "full" \in Calls /\ todo = <<>> /\ FullGC(FALSE)
TryAgain ==
  /\ "emergency" \in Calls /\ (Mutating \/ Task = "capture") /\ ~InProgress("stopem")
  /\ FullGC(TRUE)

(* ilyaC_changemode, from the program.                                     *)
ChangeMode(mode) ==
  /\ mode \in Calls /\ todo = <<>>
  /\ \/ /\ mode = "inc" /\ g.kind # "inc"
        /\ g' = IF g.kind = "minor" THEN Minor2Inc(g, "inc") ELSE [g EXCEPT !.kind = "inc"]
        /\ UNCHANGED todo
     \/ /\ mode = "gen" /\ g.kind # "minor"
        /\ g' = [g EXCEPT !.kind = "inc"]
        /\ todo' = <<"pause", "propagate", "togen">>
  /\ UNCHANGED L

(* The finalizers of all objects are to be called, whatever the phase of   *)
(* the collector; then the objects are deleted.                            *)
FreeAllObjects(s) ==
  /\ g' = SeparateToBeFnz(IF s.kind = "minor" THEN Minor2Inc(s, "inc") ELSE [s EXCEPT !.kind = "inc"],
                          TRUE)
  /\ todo' = <<"finall", "delete">>
DeleteList(s, list) == FoldLeft(FreeObj, s, list)
Close ==
  /\ "close" \in Calls /\ todo = <<>> /\ g.state \in CloseStates
  /\ LET closed == FoldSet(LAMBDA u, h : CloseUpval(h, u), g, OpenUpvals(g, MainThread))
     IN  FreeAllObjects([closed EXCEPT !.obj[MainThread].ent = {}])
  /\ L' = MainThread

CallAllPendingFinalizers(rest) ==
  IF g.tobefnz # <<>> THEN GCTM(todo) ELSE todo' = rest /\ UNCHANGED g

(* The innermost call in progress goes on.                                 *)
Continue ==
  /\ Task \notin {"none", "fin", "capture", "closed"}
  /\ LET task == Task
         rest == Tail(todo)
         target == IF task = "cycle" THEN "pause" ELSE task
     IN  \/ /\ task \in {"pause", "propagate", "callfin", "cycle"}
            /\ IF HasChoice(g) /\ g.state # target THEN Choice(todo, rest)
               ELSE LET h == Run(g, target)
                    IN  g' = h /\ todo' = IF h.state = target THEN rest ELSE todo
         \/ /\ task = "togen"
            /\ g' = Atomic2Gen(Atomic(g, L))
            /\ todo' = (IF Emergency THEN <<>> ELSE <<"finall">>) \o rest
         \/ task = "tomajor" /\ g' = [g EXCEPT !.kind = "major"] /\ todo' = rest
         \/ task = "finall" /\ CallAllPendingFinalizers(rest)
         \/ task \in {"stopem", "endemerg"} /\ todo' = rest /\ UNCHANGED g
         \/ /\ task = "delete"
            /\ g' = DeleteList(g, Before(g.allgc, MainThread))
            /\ todo' = <<"closed">>
  /\ UNCHANGED L
-----------------------------------------------------------------------------
Program(A) ==
  \/ \E o \in Objs : New(o)
  \/ \E o \in Objs : \E e \in MayHold[o] : Store(A, o, e)
  \/ \E o \in Objs : \E e \in g.obj[o].ent : Drop(A, o, e)
  \/ \E t \in Tables : \E m \in MayMode[t] : SetMode(A, t, m)
  \/ \E o \in MayFinalize : SetFinalizer(A, o)
  \/ \E s \in Strings : Intern(s, TRUE) \/ Intern(s, FALSE) \/ CacheHit(s)
  \/ \E c \in Objs, u \in Upvals : Capture(A, c, u) \/ Join(A, c, u)
  \/ \E u \in Upvals : CloseUpvalue(A, u)
  \/ \E t \in Threads : Switch(A, t)
  \/ FinReturn
Collector ==
  \/ IncStep \/ IncCycle \/ YoungStep \/ Collect \/ TryAgain \/ Close \/ Continue
  \/ \E mode \in {"inc", "gen"} : ChangeMode(mode)
Next == (\E A \in {Accessible} : Program(A)) \/ Collector

Spec == Init /\ [][Next]_vars

(* A program that goes on allocating pays its debt to the collector: basic *)
(* steps and the calls in progress go on; finalizers return.               *)
CollectorStep == IncStep \/ YoungStep \/ Continue
FairSpec == Spec /\ ([]<><<CollectorStep>>_vars \/ <>[]Closed) /\ SF_vars(FinReturn)
-----------------------------------------------------------------------------
Entries == (Keys \X Objs)
Object == [color : Colors, age : Ages, tofin : BOOLEAN, ent : SUBSET Entries,
           mode : Modes, th : Threads \cup {NULL}]
Pointer == Objs \cup {NULL}

(* Types; and no object is twice in a list or in two lists of objects.     *)
TypeOK ==
  /\ g.obj \in [Objs -> Object]
  /\ g.allgc \o g.finobj \o g.tobefnz \in Seq(Objs)
  /\ IsInjective(g.allgc \o g.finobj \o g.tobefnz)
  /\ \A list \in {"gray", "grayagain", "weak", "allweak", "ephemeron"} : g[list] \subseteq Objs
  /\ g.twups \subseteq Threads /\ g.cache \subseteq Strings
  /\ g.white \in {"white0", "white1"} /\ g.kind \in {"inc", "minor", "major"}
  /\ KeepInvariant(g) \/ SweepPhase(g) \/ g.state \in {"pause", "callfin"}
  /\ g.sweep \in Pointer \cup Lists
  /\ \A p \in {"survival", "old1", "reallyold", "firstold1", "finobjsur", "finobjold1", "finobjrold"} :
       g[p] \in Pointer
  /\ L \in Threads

Alive(o) == o \in Allocated(g) /\ ~IsDead(g, o)

(* Nothing that the program can still get at, through whatever reference,  *)
(* weak table, string cache or finalizer still to be called, was freed or  *)
(* waits to be freed; nor is any thread of 'twups'.                        *)
NoDangling ==
  ~Closed => \A o \in Reachable(g, Roots \cup {L} \cup ToSet(g.tobefnz)) \cup g.cache \cup g.twups : Alive(o)

(* The invariants that the barriers keep (testobjref1 in ltests.c): in an  *)
(* incremental cycle no black object refers to a white one; between minor  *)
(* collections no old black object refers to a young one, and no OLD1 or   *)
(* TOUCHED2 object to a new one.  Threads and open upvalues, visited in    *)
(* every collection, have no barriers.                                     *)
MayRefer(f, t) ==
  CASE SweepPhase(g) -> TRUE
    [] g.kind # "minor" -> ~(IsBlack(g, f) /\ IsWhite(g, t))
    [] OTHER -> /\ g.obj[f].age = "old" /\ IsBlack(g, f) => IsOld(g, t)
                /\ g.obj[f].age \in {"old1", "touched2"} => g.obj[t].age # "new"
BarriersHold ==
  \A f \in Allocated(g) \ Threads : ~IsDead(g, f) /\ ~IsOpen(g, f) =>
    \A t \in References(g, f) : MayRefer(f, t)

(* The assertion of remarkupvals: "upvalues cannot be older than their     *)
(* threads".                                                               *)
Rank == [new |-> 0, survival |-> 1, old0 |-> 2, old1 |-> 3, old |-> 4, touched1 |-> 5, touched2 |-> 6]
UpvaluesNotOlder ==
  \A u \in Upvals : IsOpen(g, u) /\ g.kind = "minor" => Rank[g.obj[u].age] <= Rank[g.obj[g.obj[u].th].age]

(* A comment of atomic: "all resurrected objects are marked", so that none *)
(* of them is freed before the finalizers run.                             *)
ResurrectedAlive == ~Closed => \A o \in Reachable(g, ToSet(g.tobefnz)) : Alive(o)

(* While the invariant is kept, the objects that have to be visited again, *)
(* gray or TOUCHED2 ones, are those in the gray lists, each in only one;   *)
(* open upvalues are found through their threads (checkgraylist and        *)
(* incifingray in ltests.c).                                               *)
GrayLists == <<g.gray, g.grayagain, g.weak, g.allweak, g.ephemeron>>
GrayListsExact ==
  KeepInvariant(g) =>
    /\ \A i, j \in 1 .. 5 : i # j => GrayLists[i] \cap GrayLists[j] = {}
    /\ UNION ToSet(GrayLists) =
         {o \in Allocated(g) \ Upvals : IsGray(g, o) \/ g.obj[o].age = "touched2"}
    /\ \A u \in Upvals \cap Allocated(g) : IsGray(g, u) => IsOpen(g, u)

(* Between minor collections every object is old enough for its part of    *)
(* its list, none is dead, old objects are not white, and those not black  *)
(* are the ones to visit again; the limits are in their lists, in order,   *)
(* and no OLD1 object comes before 'firstold1' (checkobject in ltests.c).  *)
Index(q, p) == IF p = NULL THEN Len(q) + 1 ELSE CHOOSE i \in 1 .. Len(q) + 1 : i <= Len(q) => q[i] = p
Generations(q, sur, old1, rold) ==
  /\ {sur, old1, rold} \subseteq ToSet(q) \cup {NULL}
  /\ Index(q, sur) <= Index(q, old1) /\ Index(q, old1) <= Index(q, rold)
  /\ \A i \in 1 .. Len(q) :
       Rank[g.obj[q[i]].age] >= CASE i >= Index(q, rold) -> 4 [] i >= Index(q, old1) -> 3
                                  [] i >= Index(q, sur) -> 1 [] OTHER -> 0
GenerationsExact ==
  g.kind = "minor" =>
    /\ Generations(g.allgc, g.survival, g.old1, g.reallyold)
    /\ Generations(g.finobj, g.finobjsur, g.finobjold1, g.finobjrold)
    /\ \A i \in 1 .. Len(g.allgc) : g.obj[g.allgc[i]].age = "old1" =>
          g.firstold1 \in ToSet(g.allgc) /\ Index(g.allgc, g.firstold1) <= i
    /\ \A o \in Allocated(g) :
          /\ ~IsDead(g, o)
          /\ IsOld(g, o) =>
               /\ ~IsWhite(g, o)
               /\ \/ IsBlack(g, o) \/ g.obj[o].age \in {"touched1", "old0"}
                  \/ Kind[o] = "thread" \/ IsOpen(g, o)
          /\ g.obj[o].age = "touched1" => IsGray(g, o)

(* During the pause all objects are white, so that a cycle starts anew.    *)
(* Dead objects are found only in the list being swept or not yet swept.   *)
SweepComplete ==
  /\ g.state = "pause" /\ ~Closed => \A o \in Allocated(g) : g.obj[o].color = g.white
  /\ \A o \in Allocated(g) : IsDead(g, o) => g.state = "swpallgc" /\ o \in ToSet(g.allgc)

(* A thread with open upvalues is in 'twups', where the next atomic phase  *)
(* finds them, whatever was closed, captured or collected since the last   *)
(* one (remarkupvals; ilyaF_findupval).                                    *)
ThreadsListed ==
  \A u \in Upvals : IsOpen(g, u) /\ ~IsDead(g, g.obj[u].th) => g.obj[u].th \in g.twups

(* Once closed, the state has called every finalizer and nothing is left   *)
(* but the main thread (the assertions of ilyaC_freeallobjects).           *)
AllFinalized == Closed => g.finobj = <<>> /\ g.tobefnz = <<>> /\ g.allgc = <<MainThread>>

(* Garbage is not forgotten: what cannot be reached by a strong reference  *)
(* is freed, called for finalization or reached again, with the state      *)
(* still in use; and an object to be finalized has its finalizer called,   *)
(* unless emergency collections, which call none, never cease.             *)
StronglyReachable ==
  Closure(Roots \cup {L} \cup ToSet(g.tobefnz), LAMBDA X : UNION {Strong(g, o, X) : o \in X})
Garbage(o) == ~Closed /\ o \in Allocated(g) \ StronglyReachable
GarbageCollected == \A o \in Objs : Garbage(o) ~> ~Garbage(o)
FinalizersCalled ==
  []<>Emergency \/ \A o \in MayFinalize : o \in ToSet(g.tobefnz) ~> o \notin ToSet(g.tobefnz)

(* A resurrected object is removed from weak values before its finalizer   *)
(* runs, except from tables that are resurrected too (manual, "Weak        *)
(* Tables"); a change to a weaker mode counts from the next cycle on.      *)
LeavesWeakValues ==
  [][ \A o \in ToSet(g'.tobefnz) \ ToSet(g.tobefnz) : ~InProgress("delete")' =>
        \A t \in Accessible' \cap Tables : g'.obj[t].mode \in {"wv", "kv"} =>
          \A e \in g'.obj[t].ent : e[1] # "mt" => e[2] # o ]_vars
=============================================================================

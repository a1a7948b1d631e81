------------------------------- MODULE GCHeap -------------------------------
(***************************************************************************)
(* The heap of one state (global_State) and the operations of lgc.c that   *)
(* mark, sweep, free and move objects.  Every operation is a function from *)
(* a heap s to a heap, as each is a C function working on 'g'; module Lgc  *)
(* has the program and the collector that call them.                       *)
(*                                                                         *)
(* A heap is a record:                                                     *)
(*   obj       the objects (see Object below)                              *)
(*   allgc, finobj, tobefnz           the lists of objects, head first     *)
(*   gray, grayagain                  gray lists (their order abstracted)  *)
(*   weak, allweak, ephemeron         lists of weak tables                 *)
(*   twups     threads with open upvalues                                  *)
(*   cache     strings in the cache of the API (strcache)                  *)
(*   white     currentwhite                                                *)
(*   state, kind                      gcstate, gckind                      *)
(*   sweep     sweepgc: the object, or the list header, owning the 'next'  *)
(*             field where sweeping goes on; NULL when there is none       *)
(*   survival, old1, reallyold, firstold1, finobjsur, finobjold1,          *)
(*   finobjrold                       limits of the generations            *)
(***************************************************************************)
EXTENDS Integers, Sequences, FiniteSets, SequencesExt

CONSTANTS
  Objs,     \* the collectable objects that may exist                 (bound)
  NULL,     \* no object
  Kind,     \* their types: a function from Objs to Kinds
  MayHold,  \* the entries <<key, object>> each may ever have         (bound)
  Roots     \* the main thread, the registry, the basic metatables

Kinds == {"thread", "table", "udata", "closure", "upval", "string"}
Keys  == Objs \cup {"slot", "mt", "fin"}

ASSUME HeapAssumption ==
  /\ NULL \notin Objs
  /\ Kind \in [Objs -> Kinds]
  /\ MayHold \in [Objs -> SUBSET (Keys \X Objs)]
  /\ Roots \subseteq Objs

Threads == {o \in Objs : Kind[o] = "thread"}
Tables  == {o \in Objs : Kind[o] = "table"}
Upvals  == {o \in Objs : Kind[o] = "upval"}
Strings == {o \in Objs : Kind[o] = "string"}

(***************************************************************************)
(* An object: its color, its age, the FINALIZEDBIT, what it refers to, the *)
(* weakness of a table and the thread where an upvalue is open.  An entry  *)
(* is <<key, object>>: the key is an object (in a table), "mt" for the     *)
(* metatable or "slot" for any other reference.  The stack slot that an    *)
(* open upvalue u captured is the entry of the thread with key u.  "fin"   *)
(* is the slot of the argument of a running finalizer.                     *)
(***************************************************************************)
Colors == {"white0", "white1", "gray", "black"}
Ages   == {"new", "survival", "old0", "old1", "old", "touched1", "touched2"}
Modes  == {"strong", "wv", "wk", "kv"}

NewObject(white) ==
  [color |-> white, age |-> "new", tofin |-> FALSE, ent |-> {},
   mode |-> "strong", th |-> NULL]
NoObject == NewObject("gray")         \* the memory of an object not allocated

Lists == {"allgc", "finobj", "tobefnz"}
Allocated(s) == ToSet(s.allgc) \cup ToSet(s.finobj) \cup ToSet(s.tobefnz)

Other(w)     == IF w = "white0" THEN "white1" ELSE "white0"
IsWhite(s,o) == s.obj[o].color \in {"white0", "white1"}
IsBlack(s,o) == s.obj[o].color = "black"
IsGray(s,o)  == s.obj[o].color = "gray"
IsDead(s,o)  == s.obj[o].color = Other(s.white)
IsOld(s,o)   == s.obj[o].age \notin {"new", "survival"}
IsOpen(s,u)  == s.obj[u].th # NULL

KeepInvariant(s) == s.state \in {"propagate", "enteratomic", "atomic"}
SweepPhase(s)    == s.state \in {"swpallgc", "swpfinobj", "swptobefnz", "swpend"}

Paint(s, O, c) ==
  [s EXCEPT !.obj = [o \in O |-> [s.obj[o] EXCEPT !.color = c]] @@ @]
MakeWhite(s, o)  == [s EXCEPT !.obj[o].color = s.white]
SetAge(s, o, a)  == [s EXCEPT !.obj[o].age = a]
OpenUpvals(s, t) == {u \in Upvals : s.obj[u].th = t}

(* The least set that contains X and what Step, which is monotonic, adds.  *)
Closure(X, Step(_)) ==
  LET grow[Y \in SUBSET Objs] ==
        LET Z == Y \cup Step(Y) IN IF Z = Y THEN Y ELSE grow[Z]
  IN  grow[X]

(* What an upvalue refers to: its own value or a slot of its thread.       *)
Contents(s, u) ==
  IF IsOpen(s, u) THEN {e[2] : e \in {x \in s.obj[s.obj[u].th].ent : x[1] = u}}
                  ELSE {e[2] : e \in s.obj[u].ent}
-----------------------------------------------------------------------------
(***************************************************************************)
(* Marking.                                                                *)
(***************************************************************************)

(* reallymarkobject on every object of O, and markobject.                  *)
ReallyMark(s, O) ==
  LET value  == UNION {Contents(s, u) : u \in O \cap Upvals}
      new    == O \cup {v \in value : IsWhite(s, v)}
      leaves == {o \in new : Kind[o] = "string" \/ (Kind[o] = "upval" /\ ~IsOpen(s, o))}
  IN  [Paint(Paint(s, new, "gray"), leaves, "black")
         EXCEPT !.gray = @ \cup {o \in new : Kind[o] \notin {"string", "upval"}}]
Mark(s, O) == ReallyMark(s, {o \in O : IsWhite(s, o)})

(***************************************************************************)
(* What the traversal of o marks, when the objects of X are those marked:  *)
(* keys and values of a strong table, keys of one with weak values, values *)
(* with a marked key of an ephemeron.  Strings are values, never weak.     *)
(***************************************************************************)
KeyMarked(e, X) == e[1] \in Objs => e[1] \in X \cup Strings
Strong(s, o, X) ==
  LET E == s.obj[o].ent
      mode == IF Kind[o] = "table" THEN s.obj[o].mode ELSE "strong"
      keys == {e[1] : e \in E} \cap Objs
      vals == {e[2] : e \in E}
      meta == {e[2] : e \in {x \in E : x[1] = "mt"}}
  IN CASE Kind[o] = "upval"  -> Contents(s, o)
       [] Kind[o] = "thread" -> vals \cup OpenUpvals(s, o)
       [] mode = "strong"    -> keys \cup vals
       [] mode = "wv"        -> keys \cup meta \cup (vals \cap Strings)
       [] mode = "wk"        -> (keys \cap Strings) \cup {e[2] : e \in {x \in E : KeyMarked(x, X)}}
       [] OTHER              -> meta

HasWhiteValue(s, t) == \E e \in s.obj[t].ent : e[1] # "mt" /\ IsWhite(s, e[2]) /\ e[2] \notin Strings
HasWhiteKey(s, t)   == \E e \in s.obj[t].ent : e[1] \in Objs \ Strings /\ IsWhite(s, e[1])

(***************************************************************************)
(* Where a traversed object goes: to one of the gray lists, or to none and *)
(* is black.  genlink is for tables and userdata: a touched1 object stays  *)
(* gray, a touched2 one becomes old.  (A table with weak values and an     *)
(* array part goes to 'weak' without looking for white values; an          *)
(* ephemeron with white keys only to 'allweak': it is cleared all the      *)
(* same.)                                                                  *)
(***************************************************************************)
Destination(s, o) ==
  LET mode    == IF Kind[o] = "table" THEN s.obj[o].mode ELSE "strong"
      genlink == IF s.obj[o].age = "touched1" THEN "grayagain" ELSE "none"
  IN CASE Kind[o] = "thread" -> IF IsOld(s, o) \/ s.state = "propagate" THEN "grayagain" ELSE "none"
       [] mode = "wv" -> IF s.state = "atomic" /\ HasWhiteValue(s, o) THEN "weak" ELSE "grayagain"
       [] mode = "wk" -> IF s.state = "propagate" THEN "grayagain"
                         ELSE IF HasWhiteKey(s, o) THEN "ephemeron" ELSE genlink
       [] mode = "kv" -> "allweak"
       [] Kind[o] \in {"table", "udata"} -> genlink
       [] OTHER -> "none"

Link(s, O) ==
  LET To(l) == {o \in O : Destination(s, o) = l}
      Linked(o) ==
        [s.obj[o] EXCEPT
           !.color = IF o \in To("none") THEN "black" ELSE "gray",
           !.age   = IF o \in To("none") /\ @ = "touched2" THEN "old" ELSE @]
  IN  [s EXCEPT !.grayagain = @ \cup To("grayagain"), !.weak = @ \cup To("weak"),
                !.ephemeron = @ \cup To("ephemeron"), !.allweak = @ \cup To("allweak"),
                !.obj = [o \in O |-> Linked(o)] @@ @]

(* propagatemark: traverse the gray object o.                              *)
PropagateMark(s, o) ==
  LET marked == {x \in Objs : ~IsWhite(s, x)}
      black  == Paint([s EXCEPT !.gray = @ \ {o}], {o}, "black")
  IN  Link(Mark(black, Strong(s, o, marked)), {o})

(***************************************************************************)
(* propagateall and convergeephemerons, after markobject on every object   *)
(* of O: whatever the order, they mark the least set that contains O and   *)
(* is closed under the traversal of the gray objects, of the ephemerons    *)
(* that wait for their keys and of everything newly marked.                *)
(***************************************************************************)
MarkedFrom(s, O) ==
  LET before  == {o \in Objs : ~IsWhite(s, o)}
      waiting == s.gray \cup s.ephemeron
  IN  Closure(before \cup O, LAMBDA X : UNION {Strong(s, o, X) : o \in (X \ before) \cup waiting})

Propagate(s, O) ==
  LET new     == {o \in MarkedFrom(s, O) : IsWhite(s, o)}
      open    == {o \in new \cap Upvals : IsOpen(s, o)}
      visited == {o \in new : Kind[o] \notin {"upval", "string"}} \cup s.gray
      painted == Paint(Paint([s EXCEPT !.gray = {}], new, "black"), open, "gray")
  IN  Link(painted, visited)

(* clearbyvalues and clearbykeys on the tables of T.                       *)
ClearEntries(s, T, Cleared(_), looked(_)) ==
  LET strings == UNION {{looked(e) : e \in {x \in s.obj[t].ent : looked(x) \in Strings}} : t \in T}
      left    == [s EXCEPT !.obj =
                    [t \in T |-> [s.obj[t] EXCEPT !.ent = {e \in @ : ~Cleared(e)}]] @@ @]
  IN  Mark(left, strings)
ClearByValues(s, T) ==
  ClearEntries(s, T, LAMBDA e : e[1] # "mt" /\ IsWhite(s, e[2]) /\ e[2] \notin Strings,
                     LAMBDA e : e[2])
ClearByKeys(s, T) ==
  ClearEntries(s, T, LAMBDA e : e[1] \in Objs \ Strings /\ IsWhite(s, e[1]),
                     LAMBDA e : e[1])
-----------------------------------------------------------------------------
(***************************************************************************)
(* Freeing and sweeping.                                                   *)
(***************************************************************************)

(* Mutants, wrong on purpose: no barrier at all; an old object is not      *)
(* listed; a young object held by an old one does not become old.          *)
NoBarrierBack(s, o, O) == s
BarrierBackUnlisted(s, o, O) ==
  IF ~(IsBlack(s, o) /\ \E v \in O : IsWhite(s, v)) THEN s
  ELSE SetAge(Paint(s, {o}, "gray"), o, IF IsOld(s, o) THEN "touched1" ELSE s.obj[o].age)
BarrierForwardYoung(s, o, v) ==
  IF IsBlack(s, o) /\ IsWhite(s, v) /\ KeepInvariant(s) THEN Mark(s, {v}) ELSE s

(* ilyaC_barrier_: the black object o now points to the white object v.    *)
BarrierForward(s, o, v) ==
  IF ~(IsBlack(s, o) /\ IsWhite(s, v)) THEN s
  ELSE IF KeepInvariant(s)
  THEN IF IsOld(s, o) THEN SetAge(Mark(s, {v}), v, "old0") ELSE Mark(s, {v})
  ELSE IF s.kind # "minor" THEN MakeWhite(s, o) ELSE s

(* ilyaC_barrierback_: the black table or userdata o points to some white  *)
(* object of O.                                                            *)
BarrierBack(s, o, O) ==
  IF ~(IsBlack(s, o) /\ \E v \in O : IsWhite(s, v)) THEN s
  ELSE LET linked == IF s.obj[o].age = "touched2" THEN s.grayagain ELSE s.grayagain \cup {o}
           gray   == [Paint(s, {o}, "gray") EXCEPT !.grayagain = linked]
       IN  IF IsOld(s, o) THEN SetAge(gray, o, "touched1") ELSE gray

(* ilyaF_closeupval on one open upvalue: it takes the value of its slot.   *)
CloseUpval(s, u) ==
  LET t      == s.obj[u].th
      slot   == {e \in s.obj[t].ent : e[1] = u}
      closed == [s EXCEPT !.obj[u].th = NULL,
                          !.obj[u].ent = {<<"slot", e[2]>> : e \in slot},
                          !.obj[t].ent = @ \ slot]
  IN  IF IsWhite(s, u) THEN closed
      ELSE IF slot = {} THEN Paint(closed, {u}, "black")
      ELSE BarrierForward(Paint(closed, {u}, "black"), u, (CHOOSE e \in slot : TRUE)[2])

NotUnlinked(q, o) == q                                      \* a mutant
Without(q, o) == SelectSeq(q, LAMBDA x : x # o)
Unlinked(s, o) == [s EXCEPT !.allgc = Without(@, o), !.finobj = Without(@, o),
                            !.tobefnz = Without(@, o)]

(* freeobj: a thread first closes its upvalues (in any order here) and an  *)
(* open upvalue leaves the slot that it captured.                          *)
UnlinkUpval(s, u) ==
  [s EXCEPT !.obj[s.obj[u].th].ent =
     {IF e[1] = u THEN <<"slot", e[2]>> ELSE e : e \in @}]
FreeObj(s, o) ==
  LET free == CASE Kind[o] = "thread" ->
                     FoldSet(LAMBDA u, h : CloseUpval(h, u), s, OpenUpvals(s, o))
                [] IsOpen(s, o) -> UnlinkUpval(s, o)
                [] OTHER -> s
  IN  [Unlinked(free, o) EXCEPT !.obj[o] = NoObject]

(* One turn of the loops in sweeplist, sweep2old and sweepgen.             *)
Sweep(s, o) ==
  IF IsDead(s, o) THEN FreeObj(s, o) ELSE SetAge(MakeWhite(s, o), o, "new")

ThreadsStayYoung(s, o) ==                                    \* a mutant
  IF IsWhite(s, o) THEN FreeObj(s, o)
  ELSE IF Kind[o] = "thread" THEN [Paint(s, {o}, "gray") EXCEPT !.grayagain = @ \cup {o}]
  ELSE Paint(SetAge(s, o, "old"), {o}, IF IsOpen(s, o) THEN "gray" ELSE "black")
Sweep2Old(s, o) ==
  IF IsWhite(s, o) THEN FreeObj(s, o)
  ELSE LET aged == SetAge(s, o, "old")
       IN  IF Kind[o] = "thread" THEN [Paint(aged, {o}, "gray") EXCEPT !.grayagain = @ \cup {o}]
           ELSE Paint(aged, {o}, IF Kind[o] = "upval" /\ IsOpen(s, o) THEN "gray" ELSE "black")

SurvivesForever == [new |-> "survival", survival |-> "survival", old0 |-> "old1", old1 |-> "old",
                    old |-> "old", touched1 |-> "touched1", touched2 |-> "touched2"]  \* a mutant
NextAge == [new |-> "survival", survival |-> "old1", old0 |-> "old1", old1 |-> "old",
            old |-> "old", touched1 |-> "touched1", touched2 |-> "touched2"]
SweepGen(s, o) ==
  IF IsWhite(s, o) THEN FreeObj(s, o)
  ELSE LET aged == SetAge(s, o, NextAge[s.obj[o].age])
       IN  IF s.obj[o].age = "new" THEN MakeWhite(aged, o) ELSE aged

(***************************************************************************)
(* sweeplist from the 'next' field of p, at most n objects, and            *)
(* sweeptolive, which stops after the first live object.                   *)
(***************************************************************************)
After(q, p) == LET i == CHOOSE i \in 1 .. Len(q) : q[i] = p IN SubSeq(q, i + 1, Len(q))
Rest(s, p) ==
  CASE p = "allgc"   -> s.allgc
    [] p = "finobj"  -> s.finobj
    [] p = "tobefnz" -> s.tobefnz
    [] p \in ToSet(s.allgc)  -> After(s.allgc, p)
    [] p \in ToSet(s.finobj) -> After(s.finobj, p)
    [] OTHER -> After(s.tobefnz, p)

SweepList(s, p, n) ==
  LET rest  == Rest(s, p)
      count == IF n < Len(rest) THEN n ELSE Len(rest)
      live  == SelectSeq(SubSeq(rest, 1, count), LAMBDA o : ~IsDead(s, o))
      swept == FoldLeft(Sweep, s, SubSeq(rest, 1, count))
  IN  [swept EXCEPT !.sweep = IF count = Len(rest) THEN NULL
                              ELSE IF live = <<>> THEN p ELSE live[Len(live)]]

SweepToLive(s, p) ==
  LET rest  == Rest(s, p)
      live  == {i \in 1 .. Len(rest) : ~IsDead(s, rest[i])}
      first == CHOOSE i \in live : \A j \in live : i <= j
  IN  SweepList(s, p, IF live = {} THEN Len(rest) ELSE first)

(* entersweep *)
EnterSweep(s) == SweepToLive([s EXCEPT !.state = "swpallgc"], "allgc")

(* restartcollection *)
RestartCollection(s) ==
  Mark([s EXCEPT !.gray = {}, !.grayagain = {}, !.weak = {}, !.allweak = {},
                 !.ephemeron = {}, !.state = "propagate"],
       Roots \cup ToSet(s.tobefnz))

(***************************************************************************)
(* separatetobefnz: the unreachable objects of finobj, up to finobjold1,   *)
(* or all of them, go to the end of tobefnz in their order.                *)
(***************************************************************************)
Before(q, p) == IF p = NULL \/ p \notin ToSet(q) THEN q
                ELSE SubSeq(q, 1, (CHOOSE i \in 1 .. Len(q) : q[i] = p) - 1)
HeadOf(q) == IF q = <<>> THEN NULL ELSE Head(q)
From(q, p) == SubSeq(q, Len(Before(q, p)) + 1, Len(q))

OnlyUnreachable(s, all) == SelectSeq(Before(s.finobj, s.finobjold1), LAMBDA o : IsWhite(s, o))  \* a mutant
ToFinalize(s, all) == SelectSeq(Before(s.finobj, s.finobjold1), LAMBDA o : all \/ IsWhite(s, o))
SeparateToBeFnz(s, all) ==
  LET moved   == ToFinalize(s, all)
      left(q) == SelectSeq(q, LAMBDA o : o \notin ToSet(moved))
  IN  [s EXCEPT !.finobj = left(@), !.tobefnz = @ \o moved,
                !.finobjsur = IF @ = NULL THEN NULL ELSE HeadOf(left(From(s.finobj, @)))]

(* udata2finalize: the first of tobefnz goes back to allgc.                *)
NotWhitened(s) ==                                            \* a mutant
  LET o == Head(s.tobefnz)
  IN  [s EXCEPT !.tobefnz = Tail(@), !.allgc = <<o>> \o @, !.obj[o].tofin = FALSE]
UData2Finalize(s) ==
  LET o    == Head(s.tobefnz)
      back == [s EXCEPT !.tobefnz = Tail(@), !.allgc = <<o>> \o @, !.obj[o].tofin = FALSE]
  IN  IF SweepPhase(s) THEN MakeWhite(back, o)
      ELSE IF s.obj[o].age = "old1" THEN [back EXCEPT !.firstold1 = o]
      ELSE back

(* ilyaC_checkfinalizer for an object that gets a finalizer.               *)
NextIn(q, o) == HeadOf(After(q, o))
CheckFinalizer(s, o) ==
  LET swept   == LET w == MakeWhite(s, o) IN IF s.sweep = o THEN SweepToLive(w, o) ELSE w
      Skip(p) == IF s[p] = o THEN NextIn(s.allgc, o) ELSE s[p]
      ready   == IF SweepPhase(s) THEN swept
                 ELSE [s EXCEPT !.survival = Skip("survival"), !.old1 = Skip("old1"),
                                !.reallyold = Skip("reallyold"), !.firstold1 = Skip("firstold1")]
  IN  [ready EXCEPT !.allgc = Without(@, o), !.finobj = <<o>> \o @, !.obj[o].tofin = TRUE]

(***************************************************************************)
(* atomic: finish marking, clear the weak tables around the resurrection   *)
(* of the objects to be finalized, flip the current white.  'l' is the     *)
(* running thread.                                                         *)
(***************************************************************************)
StartAtomic(s) ==
  [s EXCEPT !.state = "atomic", !.gray = @ \cup s.grayagain, !.grayagain = {}]

(* A marked thread of twups is in a gray list, so that visiting the        *)
(* upvalues of every thread of twups marks what remarkupvals does for the  *)
(* unmarked ones.                                                          *)
NoRemark(s) == {}                                            \* a mutant
RemarkUpvals(s) ==
  UNION {Contents(s, u) : u \in {v \in Upvals : IsOpen(s, v) /\ s.obj[v].th \in s.twups /\ ~IsWhite(s, v)}}
FinishMarking(s, l) == Propagate(s, Roots \cup {l} \cup RemarkUpvals(s))

NotCleared(s)          == s                                  \* mutants
NotRemarked(s)         == s
ClearOriginalValues(s) == ClearByValues(s, s.weak \cup s.allweak)
MarkBeingFnz(s)        == Propagate(s, ToSet(s.tobefnz))
ClearAllKeys(s)        == ClearByKeys(s, s.ephemeron \cup s.allweak)
ClearResurrectedValues(s, orig) ==
  ClearByValues(s, (s.weak \ orig.weak) \cup (s.allweak \ orig.allweak))

DropsTwups(s) ==                                             \* mutants
  [s EXCEPT !.twups = {}, !.cache = {c \in @ : ~IsWhite(s, c)}, !.white = Other(@)]
NoFlip(s) ==
  [s EXCEPT !.twups = {t \in Threads : ~IsWhite(s, t) /\ OpenUpvals(s, t) # {}},
            !.cache = {c \in @ : ~IsWhite(s, c)}]
ClearCache(s) == [s EXCEPT !.cache = {c \in @ : ~IsWhite(s, c)}]
EndAtomic(s) ==
  [ClearCache(s) EXCEPT !.twups = {t \in Threads : ~IsWhite(s, t) /\ OpenUpvals(s, t) # {}},
                        !.white = Other(@)]

ClearedTooLate(s) ==                                         \* a mutant
  LET remarked == MarkBeingFnz(SeparateToBeFnz(s, FALSE))
  IN  EndAtomic(ClearResurrectedValues(ClearAllKeys(ClearOriginalValues(remarked)), s))
AfterMarking(s) ==
  LET remarked == MarkBeingFnz(SeparateToBeFnz(ClearOriginalValues(s), FALSE))
  IN  EndAtomic(ClearResurrectedValues(ClearAllKeys(remarked), s))
Atomic(s, l) == AfterMarking(FinishMarking(StartAtomic(s), l))
-----------------------------------------------------------------------------
(***************************************************************************)
(* The generational collector.                                             *)
(***************************************************************************)

(* correctgraylists: what is left of all of them goes to 'grayagain'.      *)
CorrectGrayLists(s) ==
  LET listed  == {o \in s.grayagain \cup s.weak \cup s.allweak \cup s.ephemeron : ~IsWhite(s, o)}
      touched == {o \in listed : s.obj[o].age = "touched1"}
      others  == listed \ (touched \cup Threads)
      Touched(o) == [s.obj[o] EXCEPT !.color = "black", !.age = "touched2"]
      Visited(o) == [s.obj[o] EXCEPT !.color = "black", !.age = IF @ = "touched2" THEN "old" ELSE @]
  IN  [s EXCEPT !.obj = [o \in touched |-> Touched(o)] @@ [o \in others |-> Visited(o)] @@ @, !.grayagain = listed \ others,
                !.weak = {}, !.allweak = {}, !.ephemeron = {}]

(* finishgencycle, up to its finalizers.                                   *)
FinishGenCycle(s) == [CorrectGrayLists(s) EXCEPT !.state = "propagate"]

(* markold on the objects of a piece of a list.                            *)
NotMarkedOld(s, q) == s                                      \* a mutant
MarkOld(s, q) ==
  LET old1 == {o \in ToSet(q) : s.obj[o].age = "old1"}
      aged == [s EXCEPT !.obj = [o \in old1 |-> [s.obj[o] EXCEPT !.age = "old"]] @@ @]
  IN  ReallyMark(aged, {o \in old1 : IsBlack(s, o)})

(* minor2inc *)
Minor2Inc(s, kind) ==
  EnterSweep([s EXCEPT !.kind = kind, !.survival = NULL, !.old1 = NULL, !.reallyold = NULL,
                       !.finobjsur = NULL, !.finobjold1 = NULL, !.finobjrold = NULL])

(***************************************************************************)
(* youngcollection, up to the choice of going on as a minor or as a major  *)
(* one: the nursery and the survivals of two lists are swept, and the      *)
(* limits of the generations move one generation on.                       *)
(***************************************************************************)
MarkYoung(s, l) ==
  LET old == MarkOld(s, Before(From(s.allgc, s.firstold1), s.reallyold)
                          \o Before(s.finobj, s.finobjrold) \o s.tobefnz)
  IN  [Atomic([old EXCEPT !.firstold1 = NULL], l) EXCEPT !.state = "swpallgc"]

Nursery(s)      == Before(s.allgc, s.survival)
Survivals(s)    == Before(From(s.allgc, s.survival), s.old1)
FinNursery(s)   == Before(s.finobj, s.finobjsur)
FinSurvivals(s) == Before(From(s.finobj, s.finobjsur), s.finobjold1)
SweepYoung(s) ==
  FoldLeft(SweepGen, s, Nursery(s) \o Survivals(s) \o FinNursery(s) \o FinSurvivals(s) \o s.tobefnz)

MoveLimits(s, swept) ==
  LET First(q, Good(_), p) == LET r == SelectSeq(q, Good) IN IF r = <<>> THEN p ELSE Head(r)
      Live(o)   == ~IsWhite(s, o)
      IsOld1(o) == Live(o) /\ swept.obj[o].age = "old1"
  IN  [swept EXCEPT
         !.firstold1  = First(Nursery(s) \o Survivals(s), IsOld1, NULL),
         !.reallyold  = s.old1,
         !.old1       = First(Survivals(s), Live, s.old1),
         !.survival   = HeadOf(swept.allgc),
         !.finobjrold = s.finobjold1,
         !.finobjold1 = First(FinSurvivals(s), Live, s.finobjold1),
         !.finobjsur  = HeadOf(swept.finobj)]

SweepGenerations(s) == MoveLimits(s, SweepYoung(s))
YoungCollection(s, l) == SweepGenerations(MarkYoung(s, l))

(* atomic2gen: everything alive becomes old.                               *)
Atomic2Gen(s) ==
  LET cleared == [s EXCEPT !.gray = {}, !.grayagain = {}, !.weak = {}, !.allweak = {},
                           !.ephemeron = {}, !.state = "swpallgc"]
      swept   == FoldLeft(Sweep2Old, cleared, s.allgc \o s.finobj \o s.tobefnz)
      all     == HeadOf(swept.allgc)
      fin     == HeadOf(swept.finobj)
  IN  FinishGenCycle([swept EXCEPT !.kind = "minor", !.firstold1 = NULL,
                        !.survival = all, !.old1 = all, !.reallyold = all,
                        !.finobjsur = fin, !.finobjold1 = fin, !.finobjrold = fin])
=============================================================================

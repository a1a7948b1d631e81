-------------------------------- MODULE Coro --------------------------------
(***************************************************************************)
(* Coroutines, protected calls and errors (ldo.c, lcorolib.c, and parts of *)
(* lapi.c, lstate.c and lbaselib.c).  A thread has its own list of         *)
(* CallInfos, but all threads share the C stack, where every resume and    *)
(* every call that goes through C leaves an activation.  An error or a     *)
(* yield jumps to a 'setjmp' of its thread and discards the activations    *)
(* above; after a yield, unroll finishes the calls that they were to       *)
(* finish, from what the CallInfos tell.                                   *)
(*                                                                         *)
(* An operation is a function from a state s to a state:                   *)
(*   th     the threads (ilya_State), see Thread                           *)
(*   cs     the C stack, innermost activation last, see Activation         *)
(*   wrong  an error was delivered to the wrong place (history)            *)
(*                                                                         *)
(* Stack slots are numbered upwards: every frame has a base and every      *)
(* to-be-closed variable a slot above the base of its frame (with the      *)
(* number 'of' of that frame as history).                                  *)
(***************************************************************************)
EXTENDS Integers, Sequences, FiniteSets, SequencesExt

CONSTANTS
  Thr, Main,   \* the threads, the main one among them
  Calls,       \* the kinds of C functions that the program calls     (bound)
  MaxFrames,   \* frames of a thread                                  (bound)
  MaxTbc,      \* pending variables of a thread                       (bound)
  MaxCCalls,   \* ILYAI_MAXCCALLS
  ErrCCalls    \* ILYAI_MAXCCALLS / 10 * 11

CKinds == {"pcall", "xpcall", "cfun", "yield", "resume", "wrap", "close"}

ASSUME CoroAssumption ==
  /\ Main \in Thr /\ Calls \subseteq CKinds
  /\ {MaxFrames, MaxTbc, MaxCCalls, ErrCCalls} \subseteq Nat
  /\ 2 <= MaxCCalls /\ MaxCCalls < ErrCCalls

VARIABLE s

(* A frame (CallInfo): fresh, it was called from C; op is "return" while   *)
(* its return closes variables; ypcall, recst and olderr are what          *)
(* ilya_pcallk saves in it; hit, an error is for this frame (history).     *)
FrameOf(kind, base) ==
  [kind |-> kind, base |-> base, fresh |-> FALSE, op |-> "run", ypcall |-> FALSE,
   recst |-> "ok", olderr |-> FALSE, hit |-> FALSE]

NewThread == [status |-> "ok", fn |-> TRUE, ci |-> <<>>, tbc |-> <<>>,
              ccalls |-> 0, nny |-> 0, errfunc |-> FALSE]

ErrorStatus(st) == st \in {"errrun", "errerr"}
Protects(f) == f.kind \in {"pcall", "xpcall"}
CI(u, t) == u.th[t].ci
TopFrame(u, t) == Last(CI(u, t))
TopSlot(u, t) ==
  Max({0} \cup {v.slot : v \in Range(u.th[t].tbc)} \cup {CI(u, t)[i].base : i \in DOMAIN CI(u, t)})
Yieldable(u, t) == u.th[t].nny = 0

PushFrame(u, t, kind) ==
  [u EXCEPT !.th[t].ci = Append(@, FrameOf(kind, TopSlot(u, t) + 1))]
PopFrame(u, t) == [u EXCEPT !.th[t].ci = Front(@)]
(* A mutant: the frames of the call that failed stay.                      *)
LeavesFrames(u, t, level) == u

CutFrames(u, t, level) == [u EXCEPT !.th[t].ci = SubSeq(@, 1, level)]
SetTop(u, t, f) == [u EXCEPT !.th[t].ci[Len(CI(u, t))] = f]

-----------------------------------------------------------------------------
(* Activations of C functions:                                             *)
(*   exec      ilyaV_execute, called by ccall (with what it added to       *)
(*             nCcalls) or by unroll                                       *)
(*   cfun      the C function of the top frame, which called something     *)
(*   try       ilyaD_rawrunprotected, for a resume, a protected call or    *)
(*             ilyaD_closeprotected; it saved nCcalls                      *)
(*   close     ilyaF_close down to a slot                                  *)
(*   errormsg  ilyaG_errormsg; handling, while it calls the handler        *)
(*   unroll    unroll                                                      *)
Exec(t, inc, ny) == [at |-> "exec", t |-> t, inc |-> inc, ny |-> ny]
CFun(t, co)      == [at |-> "cfun", t |-> t, inc |-> 0, ny |-> 0, ok |-> TRUE, co |-> co]
Try(u, t, why, level, slot, status) ==
  [at |-> "try", t |-> t, inc |-> IF why = "resume" THEN 1 ELSE 0, ny |-> 0, why |-> why,
   level |-> level, slot |-> slot, status |-> status,
   ccalls |-> u.th[t].ccalls, nny |-> u.th[t].nny]
Close(t, slot, yy, why) ==
  [at |-> "close", t |-> t, inc |-> 0, ny |-> 0, slot |-> slot, yy |-> yy, why |-> why]
ErrorMsg(t, inc, ny) == [at |-> "errormsg", t |-> t, inc |-> inc, ny |-> ny]
Unroll(t) == [at |-> "unroll", t |-> t, inc |-> 0, ny |-> 0]

Push(u, a) == [u EXCEPT !.cs = Append(@, a)]
Pop(u) == [u EXCEPT !.cs = Front(@)]
Top(u) == Last(u.cs)
Running(u) == Top(u).t

-----------------------------------------------------------------------------
(* Errors.                                                                 *)

(* ilyaD_closeprotected: close with a protection of its own.               *)
CloseProtected(u, t, level, slot, status) ==
  Push(Push(CutFrames(u, t, level), Try(u, t, "closep", level, slot, status)),
       Close(t, slot, FALSE, "closep"))

(* ilya_resume returns to the C function that called it.                   *)
ResumeDone(u, ok) == [u EXCEPT !.cs[Len(u.cs)].ok = ok]

(* A mutant: the outermost protected call recovers.                        *)
Outermost(u, t) ==
  LET S == {i \in DOMAIN CI(u, t) : CI(u, t)[i].ypcall} IN IF S = {} THEN 0 ELSE Min(S)

(* precover: an error goes to the first frame with CIST_YPCALL, which      *)
(* unroll then finishes; without one it kills the thread.                  *)
FindPCall(u, t) == Max({0} \cup {i \in DOMAIN CI(u, t) : CI(u, t)[i].ypcall})
Precover(u, t, status) ==
  LET level == FindPCall(u, t)
      v == CutFrames(u, t, level)
  IN IF level = 0 THEN ResumeDone([u EXCEPT !.th[t].status = status], FALSE)
     ELSE Push(Push([v EXCEPT !.th[t].ci[level].recst = status],
                    Try(v, t, "resume", 0, 0, "ok")), Unroll(t))

(* History: the error is for the innermost protected call of the thread.   *)
Innermost(u, t) == Max({0} \cup {i \in DOMAIN CI(u, t) : Protects(CI(u, t)[i])})
Aimed(u, t, caught) ==
  LET p == Innermost(u, t)
      v == [u EXCEPT !.wrong = @ \/ p # caught]
  IN IF p = 0 THEN v ELSE [v EXCEPT !.th[t].ci[p].hit = TRUE]

(* A mutant: the jump does not restore nCcalls.                            *)
KeepsCount(u, t, status) ==
  LET i == Max({k \in DOMAIN u.cs : u.cs[k].at = "try" /\ u.cs[k].t = t})
      e == u.cs[i]
      v == [u EXCEPT !.cs = SubSeq(@, 1, i - 1)]
  IN IF status = "yield" THEN ResumeDone(v, TRUE)
     ELSE IF e.why = "resume" THEN Precover(Aimed(v, t, FindPCall(v, t)), t, status)
     ELSE CloseProtected(Aimed(v, t, e.level), t, e.level, e.slot, status)

(* ilyaD_throw: jump to the innermost rawrunprotected of the thread, which *)
(* restores nCcalls.                                                       *)
Throw(u, t, status) ==
  LET i == Max({k \in DOMAIN u.cs : u.cs[k].at = "try" /\ u.cs[k].t = t})
      e == u.cs[i]
      v == [u EXCEPT !.cs = SubSeq(@, 1, i - 1), !.th[t].ccalls = e.ccalls, !.th[t].nny = e.nny]
  IN IF status = "yield" THEN ResumeDone(v, TRUE)
     ELSE IF e.why = "resume" THEN Precover(Aimed(v, t, FindPCall(v, t)), t, status)
     ELSE CloseProtected(Aimed(v, t, e.level), t, e.level, e.slot, status)

RunError(u, t) == Push(u, ErrorMsg(t, 0, 0))

(* At the limit of the C stack a call raises an error; a little above it   *)
(* only errors in their handling do.                                       *)
CStackFull(v, t) == v.th[t].ccalls = MaxCCalls \/ v.th[t].ccalls >= ErrCCalls
CheckCStack(v, t, inc, ny) ==
  IF v.th[t].ccalls = MaxCCalls THEN Push(v, ErrorMsg(t, inc, ny)) ELSE Throw(v, t, "errerr")
(* ccall of a function written in Ilya.                                    *)
CCall(u, t, inc, ny) ==
  LET v == [u EXCEPT !.th[t].ccalls = @ + inc, !.th[t].nny = @ + ny]
      w == PushFrame(v, t, "ilya")
  IN IF CStackFull(v, t) THEN CheckCStack(v, t, inc, ny)
     ELSE Push(SetTop(w, t, [TopFrame(w, t) EXCEPT !.fresh = TRUE]), Exec(t, inc, ny))

(* A C function that calls through the API without a continuation.         *)
Enter(u, t, kind, co) == Push(PushFrame(u, t, kind), CFun(t, co))

(* ilya_pcallk, called by pcall and xpcall: in a coroutine the call is     *)
(* protected by resume, elsewhere by ilyaD_pcall.                          *)
PCallK(u, t) ==
  LET f == TopFrame(u, t)
      v == [SetTop(u, t, [f EXCEPT !.olderr = u.th[t].errfunc])
              EXCEPT !.th[t].errfunc = (f.kind = "xpcall")]
  IN IF Yieldable(u, t)
     THEN CCall(SetTop(v, t, [TopFrame(v, t) EXCEPT !.ypcall = TRUE]), t, 1, 0)
     ELSE CCall(Push(v, Try(v, t, "pcall", Len(CI(v, t)), f.base + 1, "ok")), t, 1, 1)

(* The end of a protected call: the former handler is back.                *)
FinishPCall(u, t, ok) ==
  LET f == TopFrame(u, t) IN
  [PopFrame(u, t) EXCEPT !.th[t].errfunc = f.olderr, !.wrong = @ \/ ok = f.hit]

-----------------------------------------------------------------------------
(* Coroutines.                                                             *)

(* ilya_resume, called by 'from' in the C function on top.                 *)
CanResume(u, co) ==
  \/ u.th[co].status = "yield"
  \/ u.th[co].status = "ok" /\ CI(u, co) = <<>> /\ u.th[co].fn

Resume(u, from, co) ==
  LET n == u.th[from].ccalls
      v == [u EXCEPT !.th[co].ccalls = n + 1, !.th[co].nny = 0]
      w == Push(v, Try(v, co, "resume", 0, 0, "ok"))
  IN IF ~CanResume(u, co) \/ n >= MaxCCalls THEN ResumeDone(u, FALSE)
     ELSE IF u.th[co].status = "ok" THEN CCall([w EXCEPT !.th[co].fn = FALSE], co, 0, 0)
     ELSE Push(PopFrame([w EXCEPT !.th[co].status = "ok"], co), Unroll(co))

(* ilya_yieldk without a continuation (coroutine.yield).                   *)
YieldK(u, t) ==
  IF Yieldable(u, t) THEN Throw([u EXCEPT !.th[t].status = "yield"], t, "yield")
  ELSE RunError(u, t)

(* ilya_closethread and ilyaE_resetthread.                                 *)
CloseThread(u, from, co) ==
  LET st == u.th[co].status
      v == [u EXCEPT !.th[co].ccalls = u.th[from].ccalls, !.th[co].nny = 0,
                     !.th[co].status = "ok", !.th[co].fn = FALSE]
  IN CloseProtected(v, co, 0, 1, IF st = "yield" THEN "ok" ELSE st)

(* A mutant: whether the thread has frames is not looked at.               *)
OnlyStatus(u, t, co) ==
  LET h == u.th[co] IN
  IF t = co THEN "running"
  ELSE IF h.status = "yield" \/ (h.status = "ok" /\ h.fn) THEN "suspended"
  ELSE "dead"

(* auxstatus: what coroutine.status finds out.                             *)
AuxStatus(u, t, co) ==
  LET h == u.th[co] IN
  IF t = co THEN "running"
  ELSE IF h.status = "yield" THEN "suspended"
  ELSE IF h.status = "ok" /\ h.ci # <<>> THEN "normal"
  ELSE IF h.status = "ok" /\ h.fn THEN "suspended"
  ELSE "dead"

CoClose(u, t, co) ==
  IF AuxStatus(u, t, co) \in {"dead", "suspended"} THEN CloseThread(u, t, co) ELSE RunError(u, t)

-----------------------------------------------------------------------------
(* What the interpreter does next: the program's choices.                  *)
InIlya == s.cs # <<>> /\ Top(s).at = "exec" /\ TopFrame(s, Running(s)).op = "run"
HasRoom == Len(CI(s, Running(s))) < MaxFrames

CallIlya == /\ InIlya /\ HasRoom
            /\ s' = PushFrame(s, Running(s), "ilya")

CallProtected == /\ InIlya /\ HasRoom
                 /\ \E kind \in Calls \cap {"pcall", "xpcall"} :
                      s' = PCallK(Enter(s, Running(s), kind, Main), Running(s))

(* A mutant: the function is called as if it had a continuation.           *)
CallsYieldable == /\ InIlya /\ HasRoom /\ "cfun" \in Calls
                  /\ s' = CCall(Enter(s, Running(s), "cfun", Main), Running(s), 1, 0)

CallC == /\ InIlya /\ HasRoom /\ "cfun" \in Calls
         /\ s' = CCall(Enter(s, Running(s), "cfun", Main), Running(s), 1, 1)

CallYield == /\ InIlya /\ HasRoom /\ "yield" \in Calls
             /\ s' = YieldK(PushFrame(s, Running(s), "yield"), Running(s))

CallResume == /\ InIlya /\ HasRoom
              /\ \E kind \in Calls \cap {"resume", "wrap"}, co \in Thr :
                   s' = Resume(Enter(s, Running(s), kind, co), Running(s), co)

CallClose == /\ InIlya /\ HasRoom /\ "close" \in Calls
             /\ \E co \in Thr : s' = CoClose(Enter(s, Running(s), "close", co), Running(s), co)

DeclareTbc == /\ InIlya
              /\ LET t == Running(s) IN
                 /\ Len(s.th[t].tbc) < MaxTbc
                 /\ s' = [s EXCEPT !.th[t].tbc = Append(@, [slot |-> TopSlot(s, t) + 1, of |-> Len(CI(s, t))])]

RaiseError == /\ InIlya
              /\ s' = RunError(s, Running(s))

(* OP_RETURN: first close the variables of the frame, then leave it, and   *)
(* leave ilyaV_execute with a fresh frame.                                 *)
OwnTbc(u, t) == {v \in Range(u.th[t].tbc) : v.slot > TopFrame(u, t).base}
Return ==
  /\ s.cs # <<>> /\ Top(s).at = "exec"
  /\ LET t == Running(s)
         f == TopFrame(s, t)
         e == Top(s)
         back == [Pop(s) EXCEPT !.th[t].ccalls = @ - e.inc, !.th[t].nny = @ - e.ny]
     IN s' = IF OwnTbc(s, t) # {}
             THEN Push(SetTop(s, t, [f EXCEPT !.op = "return"]), Close(t, f.base, TRUE, "return"))
             ELSE PopFrame(IF f.fresh THEN back ELSE s, t)

-----------------------------------------------------------------------------
(* What the C functions on the stack do next.                              *)

(* ilyaF_close: the last variable leaves the list before its method is     *)
(* called; at the end, the rest of the operation that was closing.         *)
CloseStep ==
  /\ s.cs # <<>> /\ Top(s).at = "close"
  /\ LET e == Top(s)
         tbc == s.th[e.t].tbc
     IN s' = IF tbc # <<>> /\ Last(tbc).slot >= e.slot
             THEN CCall([s EXCEPT !.th[e.t].tbc = Front(@)], e.t, 1, IF e.yy THEN 0 ELSE 1)
             ELSE IF e.why = "pcallk" THEN FinishPCall(Pop(s), e.t, FALSE)
             ELSE Pop(s)

(* ilyaG_errormsg: the handler, if there is one, cannot yield.             *)
ErrorMsgStep ==
  /\ s.cs # <<>> /\ Top(s).at \in {"errormsg", "handling"}
  /\ LET e == Top(s) IN
     s' = IF e.at = "errormsg" /\ s.th[e.t].errfunc
          THEN CCall([s EXCEPT !.cs[Len(s.cs)].at = "handling"], e.t, 1, 1)
          ELSE Throw(s, e.t, "errrun")

(* A mutant: a recovered call does not close its variables.                *)
ForgetsClose ==
  /\ s.cs # <<>> /\ Top(s).at = "unroll"
  /\ LET t == Running(s)
         f == TopFrame(s, t)
     IN IF CI(s, t) = <<>> THEN s' = Pop(s)
        ELSE IF f.kind = "ilya" THEN s' = Push(s, Exec(t, 0, 0))
        ELSE f.ypcall /\ s' = FinishPCall(s, t, ~ErrorStatus(f.recst))

(* unroll, with finishCcall and finishpcallk: the top frame of a coroutine *)
(* is finished without the activation that had called it.                  *)
UnrollStep ==
  /\ s.cs # <<>> /\ Top(s).at = "unroll"
  /\ LET t == Running(s)
         f == TopFrame(s, t)
     IN IF CI(s, t) = <<>> THEN s' = Pop(s)
        ELSE IF f.kind = "ilya" THEN s' = Push(s, Exec(t, 0, 0))
        ELSE /\ f.ypcall
             /\ s' = IF ErrorStatus(f.recst) THEN Push(s, Close(t, f.base + 1, TRUE, "pcallk"))
                     ELSE FinishPCall(s, t, TRUE)

(* A rawrunprotected whose function returned.                              *)
TryReturns ==
  /\ s.cs # <<>> /\ Top(s).at = "try"
  /\ LET e == Top(s)
         u == [Pop(s) EXCEPT !.th[e.t].ccalls = e.ccalls, !.th[e.t].nny = e.nny]
     IN s' = IF e.why = "closep" THEN ResumeDone(u, e.status = "ok") ELSE u

(* A C function whose callee returned; wrap propagates errors.             *)
CFunReturns ==
  /\ s.cs # <<>> /\ Top(s).at = "cfun"
  /\ LET e == Top(s)
         f == TopFrame(s, e.t)
     IN s' = IF Protects(f) THEN FinishPCall(Pop(s), e.t, e.ok)
             ELSE IF f.kind # "wrap" \/ e.ok THEN PopFrame(Pop(s), e.t)
             ELSE IF ErrorStatus(s.th[e.co].status) THEN CloseThread(s, e.t, e.co)
             ELSE RunError(s, e.t)

(* The host calls the main chunk, protected.                               *)
Start ==
  /\ s.cs = <<>>
  /\ s' = PCallK(Enter(s, Main, "pcall", Main), Main)

-----------------------------------------------------------------------------
Init ==
  s = [th |-> [t \in Thr |-> IF t = Main THEN [NewThread EXCEPT !.fn = FALSE, !.nny = 1]
                             ELSE NewThread],
       cs |-> <<>>, wrong |-> FALSE]

Next ==
  \/ CallIlya \/ CallProtected \/ CallC \/ CallYield \/ CallResume \/ CallClose
  \/ DeclareTbc \/ RaiseError \/ Return
  \/ CloseStep \/ ErrorMsgStep \/ UnrollStep \/ TryReturns \/ CFunReturns \/ Start

Spec == Init /\ [][Next]_s

-----------------------------------------------------------------------------
Status   == {"ok", "yield", "errrun", "errerr"}
Frame    == [kind : {"ilya"} \cup CKinds, base : Nat, fresh : BOOLEAN, op : {"run", "return"},
             ypcall : BOOLEAN, recst : Status, olderr : BOOLEAN, hit : BOOLEAN]
Variable == [slot : Nat, of : Nat]
Thread   == [status : Status, fn : BOOLEAN, ci : Seq(Frame), tbc : Seq(Variable),
             ccalls : Nat, nny : Nat, errfunc : BOOLEAN]
Activation ==
       [at : {"exec", "errormsg", "handling"}, t : Thr, inc : {0, 1}, ny : {0, 1}]
  \cup [at : {"cfun"}, t : Thr, inc : {0}, ny : {0}, ok : BOOLEAN, co : Thr]
  \cup [at : {"try"}, t : Thr, inc : {0, 1}, ny : {0}, why : {"resume", "pcall", "closep"},
        level : Nat, slot : Nat, status : Status, ccalls : Nat, nny : Nat]
  \cup [at : {"close"}, t : Thr, inc : {0}, ny : {0}, slot : Nat, yy : BOOLEAN,
        why : {"closep", "return", "pcallk"}]
  \cup [at : {"unroll"}, t : Thr, inc : {0}, ny : {0}]

State == [th : [Thr -> Thread], cs : Seq(Activation), wrong : BOOLEAN]

(* Threads, frames and activations keep their types: in particular no      *)
(* count of calls wraps around below zero.                                 *)
TypeOK == s \in State

(* The sum of a sequence of numbers.                                       *)
Total(w) == LET sum[i \in 0 .. Len(w)] == IF i = 0 THEN 0 ELSE sum[i - 1] + w[i]
            IN sum[Len(w)]

(* nCcalls counts exactly the activations on the C stack, and those that   *)
(* cannot yield, whatever jumps went before; the C stack stays bounded     *)
(* while overflows are handled (lstate.c:150, ccall, rawrunprotected).     *)
CStackExact ==
  s.cs # <<>> =>
    LET t == Running(s) IN
    /\ s.th[t].ccalls = Total([i \in DOMAIN s.cs |-> s.cs[i].inc])
    /\ s.th[t].nny = Total([i \in DOMAIN s.cs |-> IF s.cs[i].t = t THEN s.cs[i].ny ELSE 0])
                     + IF t = Main THEN 1 ELSE 0
    /\ s.th[t].ccalls < ErrCCalls

(* Every frame of a C function of a live thread has its activation on the  *)
(* C stack, or unroll can finish it without one (the assertion of          *)
(* finishCcall); where the thread may yield, its innermost protection is   *)
(* that of its resume, and only the function that yields has to return.    *)
FramesFinishable ==
  \A t \in {x \in Thr : ~ErrorStatus(s.th[x].status)} :
    LET inC(i)    == CI(s, t)[i].kind \notin {"ilya", "yield"}
        needs     == {i \in DOMAIN CI(s, t) : inC(i) /\ ~CI(s, t)[i].ypcall}
        active(a) == {i \in DOMAIN s.cs : s.cs[i].t = t /\ s.cs[i].at = a}
    IN /\ Cardinality(needs) <= Cardinality(active("cfun"))
       /\ s.th[t].status = "yield" => needs = {}
       /\ InIlya /\ Running(s) = t /\ Yieldable(s, t) =>
            needs = {} /\ s.cs[Max(active("try"))].why = "resume"

(* Every error reaches the innermost protected call of its thread, which   *)
(* then returns false, and only then; yields in between change nothing     *)
(* (precover, finishpcallk).                                               *)
ErrorsAimed == ~s.wrong

(* A variable to be closed belongs to the frame that declared it, or to    *)
(* the protected call or the closing of the thread that took over when an  *)
(* error left that frame; a thread that ended has none (ilyaF_close,       *)
(* finishpcallk, ilyaD_closeprotected).                                    *)
NoLostVariable ==
  \A t \in Thr :
    LET h == s.th[t]
        active == {i \in DOMAIN s.cs : s.cs[i].t = t}
    IN /\ \A i \in DOMAIN h.tbc :
            LET v == h.tbc[i]
                below == {k \in DOMAIN h.ci : h.ci[k].base < v.slot}
                f == h.ci[Max(below)]
            IN IF below = {} THEN \E k \in active : s.cs[k].at = "close" /\ s.cs[k].slot = 1
               ELSE f.hit \/ (f.kind = "ilya" /\ v.of = Max(below))
       /\ h.status = "ok" /\ h.ci = <<>> /\ active = {} => h.tbc = <<>>

(* coroutine.status tells whether a thread runs, has resumed another one,  *)
(* waits, or ended (auxstatus).                                            *)
StatusTruthful ==
  InIlya => \A co \in Thr \ {Running(s)} :
    LET active == \E i \in DOMAIN s.cs : s.cs[i].t = co
        status == AuxStatus(s, Running(s), co)
    IN /\ active <=> status = "normal"
       /\ status = "suspended" <=> CanResume(s, co)

(* The message handler is the one of the innermost protected call          *)
(* (lstate.h, errfunc: "current error handling fn").                       *)
HandlerExact ==
  InIlya =>
    LET t == Running(s) IN
    s.th[t].errfunc <=> Innermost(s, t) # 0 /\ CI(s, t)[Innermost(s, t)].kind = "xpcall"
=============================================================================

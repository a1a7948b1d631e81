------------------------------- MODULE Upvals -------------------------------
(***************************************************************************)
(* The stack of one thread, as lfunc.c and the protected calls of ldo.c    *)
(* keep it: values, open upvalues (captured variables still living in the  *)
(* stack), to-be-closed variables, and the frames and pending closing      *)
(* loops that block exits, returns and errors leave behind.                *)
(*                                                                         *)
(* Slot i is L->stack.p + i; slot 0 holds the function entry of the base   *)
(* call.  `stk' is what lies between it and L->top.  The arguments of a    *)
(* closing method (the object and the error) are abstracted into the one   *)
(* slot its function takes.                                                *)
(***************************************************************************)
EXTENDS Integers, Sequences, FiniteSets

CONSTANTS
  Vals,      \* the values a variable may hold; errors are values too
  Closable,  \* those with a __close metamethod
  Nil,       \* the error object of a close that no error caused
  UpvIds,    \* the upvalues that may be created
  None,      \* no upvalue (NULL)
  MaxSlot,   \* variables live in slots 1..MaxSlot                  (bound)
  MaxDepth,  \* frames and pending closes                           (bound)
  MAXDELTA   \* the largest distance an entry of the tbc list encodes

ASSUME ConstantsAssumption ==
  /\ Closable \subseteq Vals
  /\ Nil \notin Vals /\ None \notin UpvIds
  /\ MaxSlot \in Nat
  /\ MaxDepth \in Nat
  /\ MAXDELTA \in Nat \ {0}

VARIABLES
  stk,        \* the values of slots 1..(L->top - L->stack - 1)
  ctl,        \* frames and closing loops, innermost last
  openupval,  \* L->openupval: the list of open upvalues, its head first
  uv,         \* each upvalue: created?, its slot (0 when closed), own value
  intwups,    \* isintwups(L): the thread is in the collector's twups list
  tbclist,    \* L->tbclist: slot of the innermost tbc variable, or 0
  delta,      \* the 'delta' field of every slot; stale data when unused
  inst,       \* history: the upvalue that captured the variable in a slot
  cell,       \* history: the value that the captured variable must have
  pending     \* history: the tbc variables to close, as <<slot, value>>

vars == <<stk, ctl, openupval, uv, intwups, tbclist, delta, inst, cell, pending>>

Slots == 0 .. MaxSlot

(***************************************************************************)
(* An entry of `ctl'.  "thread", "call", "pcall" and "method" are running  *)
(* frames whose function sits in slot `at'; "block", "return" and "error"  *)
(* are closes of everything from slot `at' up: OP_CLOSE, OP_RETURN and     *)
(* ilyaD_closeprotected.  A return keeps its value in slot `pos'; a return *)
(* and an error remember, as history, the value they have to deliver.      *)
(***************************************************************************)
Entry(k, at, pos, val) == [k |-> k, at |-> at, pos |-> pos, val |-> val]
Frame(k, at) == Entry(k, at, 0, Nil)

Frames == {"thread", "call", "pcall", "method"}
Closes == {"block", "return", "error"}

Cur      == ctl[Len(ctl)]
Below    == SubSeq(ctl, 1, Len(ctl) - 1)
Running  == Cur.k \in Frames
Top      == Len(stk)
Locals   == Cur.at + 1 .. Top          \* variables of the running frame
IsTbc(l) == \E i \in 1 .. Len(pending) : pending[i][1] = l

(* Mutants, wrong on purpose: the search stops one upvalue late, ...        *)
AboveOrAt(l) == CHOOSE n \in 0 .. Len(openupval) :
                  /\ \A i \in 1 .. n : uv[openupval[i]].slot >= l
                  /\ n < Len(openupval) => uv[openupval[n + 1]].slot < l

(* ilyaF_findupval: the search stops at the first upvalue not above `l'. *)
Above(l) == CHOOSE n \in 0 .. Len(openupval) :
              /\ \A i \in 1 .. n : uv[openupval[i]].slot > l
              /\ n < Len(openupval) => uv[openupval[n + 1]].slot <= l
Found(l) == /\ Above(l) < Len(openupval)
            /\ uv[openupval[Above(l) + 1]].slot = l

(* ... the upvalue of the first variable of the block is left open, ...    *)
ClosingAbove(l) == CHOOSE n \in 0 .. Len(openupval) :
                     /\ \A i \in 1 .. n : uv[openupval[i]].slot > l
                     /\ n < Len(openupval) => uv[openupval[n + 1]].slot <= l

(* ilyaF_closeupval: how many upvalues its loop takes off the list. *)
Closing(l) == CHOOSE n \in 0 .. Len(openupval) :
                /\ \A i \in 1 .. n : uv[openupval[i]].slot >= l
                /\ n < Len(openupval) => uv[openupval[n + 1]].slot < l
Closed(l)  == {openupval[i] : i \in 1 .. Closing(l)}

CloseUpval(l) ==
  /\ openupval' = SubSeq(openupval, Closing(l) + 1, Len(openupval))
  /\ uv' = [u \in UpvIds |->
              IF u \in Closed(l)
              THEN [uv[u] EXCEPT !.slot = 0, !.val = stk[uv[u].slot]]
              ELSE uv[u]]
  /\ inst' = [s \in Slots |-> IF s >= l THEN None ELSE inst[s]]

(* ... a distance of MAXDELTA + 1 is thought to fit, ...                   *)
DummiesPastMax(l) == CHOOSE n \in 0 .. l :
                       /\ l - (tbclist + n * MAXDELTA) <= MAXDELTA + 1
                       /\ \A m \in 0 .. n - 1 : l - (tbclist + m * MAXDELTA) > MAXDELTA + 1

(* ilyaF_newtbcupval: as many dummy nodes as keep the last delta in range. *)
Dummies(l) == CHOOSE n \in 0 .. l :
                /\ l - (tbclist + n * MAXDELTA) <= MAXDELTA
                /\ \A m \in 0 .. n - 1 : l - (tbclist + m * MAXDELTA) > MAXDELTA
IsDummy(s, l) == \E j \in 1 .. Dummies(l) : s = tbclist + j * MAXDELTA

(* ... dummy nodes are taken for variables, ...                            *)
NoDummies(t) == t

(* poptbclist: step back by the entry's delta, then over the dummy nodes. *)
Hops(t) == {j \in 0 .. t : \/ t - j * MAXDELTA <= 0
                           \/ delta[t - j * MAXDELTA] # 0}
AfterDummies(t) ==
  t - (CHOOSE j \in Hops(t) : \A i \in Hops(t) : j <= i) * MAXDELTA
PopTbc(t) == AfterDummies(t - delta[t])
-----------------------------------------------------------------------------

Init ==
  /\ stk = <<>>
  /\ ctl = <<Frame("thread", 0)>>
  /\ openupval = <<>>
  /\ uv = [u \in UpvIds |-> [made |-> FALSE, slot |-> 0, val |-> Nil]]
  /\ intwups = FALSE
  /\ tbclist = 0
  /\ \E d \in 0 .. MAXDELTA : delta = [s \in Slots |-> d]   \* uninitialized
  /\ inst = [s \in Slots |-> None]
  /\ cell = [u \in UpvIds |-> Nil]
  /\ pending = <<>>

(* A new local variable of the running frame, or a function to call. *)
Declare(v) ==
  /\ Running /\ Top < MaxSlot
  /\ stk' = Append(stk, v)
  /\ UNCHANGED <<ctl, openupval, uv, intwups, tbclist, delta, inst, cell, pending>>

(* An assignment to a variable; the compiler refuses it for a tbc one. *)
SetLocal(l, v) ==
  /\ Running /\ l \in Locals /\ ~IsTbc(l)
  /\ stk' = [stk EXCEPT ![l] = v]
  /\ cell' = IF l \in Slots /\ inst[l] # None THEN [cell EXCEPT ![inst[l]] = v] ELSE cell
  /\ UNCHANGED <<ctl, openupval, uv, intwups, tbclist, delta, inst, pending>>

(* OP_SETUPVAL: through uv->v.p, into the stack or into the upvalue itself. *)
SetUpval(u, v) ==
  /\ Running /\ uv[u].made /\ ~IsTbc(uv[u].slot)
  /\ IF uv[u].slot > 0
     THEN stk' = [stk EXCEPT ![uv[u].slot] = v] /\ UNCHANGED uv
     ELSE uv' = [uv EXCEPT ![u].val = v] /\ UNCHANGED stk
  /\ cell' = [cell EXCEPT ![u] = v]
  /\ UNCHANGED <<ctl, openupval, intwups, tbclist, delta, inst, pending>>

(* A closure captures variable l and shares the upvalue already open there. *)
CaptureOld(l) ==
  /\ Running /\ l \in Locals \cap Slots /\ Found(l)
  /\ inst' = [inst EXCEPT ![l] = openupval[Above(l) + 1]]
  /\ UNCHANGED <<stk, ctl, openupval, uv, intwups, tbclist, delta, cell, pending>>

(* A closure captures variable l for the first time: newupval. *)
CaptureNew(l, u) ==
  /\ Running /\ l \in Locals \cap Slots /\ ~Found(l) /\ ~uv[u].made
  /\ openupval' = SubSeq(openupval, 1, Above(l)) \o <<u>>
                    \o SubSeq(openupval, Above(l) + 1, Len(openupval))
  /\ uv' = [uv EXCEPT ![u] = [made |-> TRUE, slot |-> l, val |-> Nil]]
  /\ intwups' = TRUE
  /\ inst' = [inst EXCEPT ![l] = u]
  /\ cell' = [cell EXCEPT ![u] = stk[l]]
  /\ UNCHANGED <<stk, ctl, tbclist, delta, pending>>

(* remarkupvals (lgc.c) drops a thread without open upvalues from twups. *)
LeaveTwups ==
  /\ intwups /\ openupval = <<>>
  /\ intwups' = FALSE
  /\ UNCHANGED <<stk, ctl, openupval, uv, tbclist, delta, inst, cell, pending>>

(* OP_TBC and ilya_toclose, for a value that has a closing method. *)
NewTbc(l) ==
  /\ Running /\ l \in Locals \cap Slots /\ l > tbclist /\ stk[l] \in Closable
  /\ Len(ctl) < MaxDepth
  /\ delta' = [s \in Slots |->
                 IF s = l THEN l - (tbclist + Dummies(l) * MAXDELTA)
                 ELSE IF IsDummy(s, l) THEN 0 ELSE delta[s]]
  /\ tbclist' = l
  /\ pending' = Append(pending, <<l, stk[l]>>)
  /\ UNCHANGED <<stk, ctl, openupval, uv, intwups, inst, cell>>

(* A plain call (ilyaD_call) or a protected one (ilya_pcallk, no yield). *)
Call(k) ==
  /\ Running /\ Top < MaxSlot /\ Len(ctl) < MaxDepth
  /\ stk' = Append(stk, Nil)
  /\ ctl' = Append(ctl, Frame(k, Top + 1))
  /\ UNCHANGED <<openupval, uv, intwups, tbclist, delta, inst, cell, pending>>

(* A mutant: a tail call whatever the frame has to close.                  *)
TailCallAnyFrame ==
  /\ Running /\ Cur.k # "thread"
  /\ CloseUpval(Cur.at + 1)
  /\ stk' = SubSeq(stk, 1, Cur.at)
  /\ UNCHANGED <<ctl, intwups, tbclist, delta, cell, pending>>

(* OP_TAILCALL: no tbc variable in the frame, which the callee takes over. *)
TailCall ==
  /\ Running /\ Cur.k # "thread" /\ tbclist <= Cur.at
  /\ CloseUpval(Cur.at + 1)
  /\ stk' = SubSeq(stk, 1, Cur.at)
  /\ UNCHANGED <<ctl, intwups, tbclist, delta, cell, pending>>

(* OP_CLOSE: the block whose first variable is l ends. *)
LeaveBlock(l) ==
  /\ Running /\ l \in Locals
  /\ CloseUpval(l)
  /\ ctl' = Append(ctl, Entry("block", l, 0, Nil))
  /\ UNCHANGED <<stk, intwups, tbclist, delta, cell, pending>>

(* OP_RETURN: the result goes to the top and the whole frame is closed. *)
Return(v) ==
  /\ Running /\ Cur.k # "thread"
  /\ CloseUpval(Cur.at + 1)
  /\ stk' = Append(stk, v)
  /\ ctl' = Append(ctl, Entry("return", Cur.at + 1, Top + 1, v))
  /\ UNCHANGED <<intwups, tbclist, delta, cell, pending>>

(***************************************************************************)
(* An error jumps to the innermost rawrunprotected: an ilyaD_pcall, whose  *)
(* closeprotected then closes everything from the called function up, or   *)
(* an earlier closeprotected, which starts its loop again at its own       *)
(* level.  With none left the thread is dead and ilyaE_resetthread closes  *)
(* its whole stack.  A value without closing method given to OP_TBC raises *)
(* an error too.                                                           *)
(***************************************************************************)
Catcher == CHOOSE i \in 1 .. Len(ctl) :
             /\ ctl[i].k \in {"pcall", "error", "thread"}
             /\ \A j \in i + 1 .. Len(ctl) : ctl[j].k \notin {"pcall", "error"}
CloseLevel == IF ctl[Catcher].k = "thread" THEN 1 ELSE ctl[Catcher].at
Unwound == SubSeq(ctl, 1, IF ctl[Catcher].k = "thread" THEN Catcher ELSE Catcher - 1)

Throw(e) ==
  /\ Running
  /\ stk' = Append(stk, e)
  /\ CloseUpval(CloseLevel)
  /\ ctl' = Append(Unwound, Entry("error", CloseLevel, 0, e))
  /\ UNCHANGED <<intwups, tbclist, delta, cell, pending>>

(***************************************************************************)
(* One turn of the loop in ilyaF_close: the variable leaves the list and   *)
(* its method is called, at the top of the stack for a return and right    *)
(* after the variable and the error object otherwise.                      *)
(***************************************************************************)
AfterVariable == SubSeq(stk, 1, tbclist) \o <<IF Cur.k = "error" THEN stk[Top] ELSE Nil, Nil>>
MethodCalled  == IF Cur.k = "return" THEN Append(stk, Nil) ELSE AfterVariable
CloseMethod ==
  /\ Cur.k \in Closes /\ tbclist >= Cur.at
  /\ tbclist' = PopTbc(tbclist)
  /\ stk' = MethodCalled
  /\ ctl' = Append(ctl, Frame("method", Len(stk')))
  /\ pending' = SubSeq(pending, 1, Len(pending) - 1)
  /\ UNCHANGED <<openupval, uv, intwups, delta, inst, cell>>

(* The loop is over: the block, the frame or the protected call is left. *)
CloseDone ==
  /\ Cur.k \in Closes /\ tbclist < Cur.at
  /\ \/ /\ Cur.k = "block"
        /\ stk' = SubSeq(stk, 1, Cur.at - 1)
        /\ ctl' = Below
     \/ /\ Cur.k = "error"                       \* ilyaD_seterrorobj
        /\ stk' = Append(SubSeq(stk, 1, Cur.at - 1), stk[Top])
        /\ ctl' = Below
     \/ /\ Cur.k = "return"                      \* ilyaD_poscall
        /\ stk' = SubSeq(stk, 1, Cur.at - 2)
                    \o IF ctl[Len(ctl) - 1].k = "method" THEN <<>> ELSE <<stk[Cur.pos]>>
        /\ ctl' = SubSeq(ctl, 1, Len(ctl) - 2)
  /\ UNCHANGED <<openupval, uv, intwups, tbclist, delta, inst, cell, pending>>

Next ==
  \/ \E v \in Vals : Declare(v) \/ Return(v) \/ Throw(v)
  \/ \E l \in Slots, v \in Vals : SetLocal(l, v)
  \/ \E u \in UpvIds, v \in Vals : SetUpval(u, v)
  \/ \E l \in Slots : CaptureOld(l) \/ NewTbc(l) \/ LeaveBlock(l)
  \/ \E l \in Slots, u \in UpvIds : CaptureNew(l, u)
  \/ LeaveTwups \/ TailCall \/ CloseMethod \/ CloseDone
  \/ \E k \in {"call", "pcall"} : Call(k)

Spec == Init /\ [][Next]_vars
-----------------------------------------------------------------------------

TypeOK ==
  /\ stk \in Seq(Vals \cup {Nil})
  /\ ctl \in Seq([k : Frames \cup Closes, at : Nat, pos : Nat, val : Vals \cup {Nil}])
  /\ openupval \in Seq(UpvIds)
  /\ uv \in [UpvIds -> [made : BOOLEAN, slot : Slots, val : Vals \cup {Nil}]]
  /\ intwups \in BOOLEAN
  /\ tbclist \in Slots
  /\ delta \in [Slots -> 0 .. MAXDELTA]
  /\ inst \in [Slots -> UpvIds \cup {None}]
  /\ cell \in [UpvIds -> Vals \cup {Nil}]
  /\ pending \in Seq(Slots \X Vals)

(* The list of open upvalues is strictly descending by slot, inside the    *)
(* stack, without the repetitions that would split a variable in two, and  *)
(* a thread that has any is in twups (the assertions of ilyaF_findupval    *)
(* and ilyaF_closeupval).                                                  *)
OpenListSorted ==
  /\ \A i \in 1 .. Len(openupval) :
       /\ uv[openupval[i]].slot \in 1 .. Top
       /\ \A j \in i + 1 .. Len(openupval) :
            uv[openupval[i]].slot > uv[openupval[j]].slot
  /\ openupval # <<>> => intwups

(* Every closure that captured a variable keeps seeing it, whatever closed *)
(* the scope: an upvalue has the variable's current value, and the         *)
(* variable in a slot is reached by exactly the one that captured it.      *)
UpvalSeesVariable ==
  /\ \A u \in UpvIds : uv[u].made =>
       cell[u] = (IF uv[u].slot > 0 THEN stk[uv[u].slot] ELSE uv[u].val)
  /\ \A s \in Slots : inst[s] # None <=> \E u \in UpvIds : uv[u].slot = s /\ s > 0
  /\ \A s \in Slots : inst[s] # None => uv[inst[s]].slot = s

(* The list threaded through the 'delta' fields, dummy nodes and stale     *)
(* fields included, is the sequence of tbc variables still to be closed:   *)
(* so each is closed once, in reverse order, whatever errors come between. *)
TbcListExact ==
  /\ tbclist = IF pending = <<>> THEN 0 ELSE pending[Len(pending)][1]
  /\ \A i \in 1 .. Len(pending) :
       PopTbc(pending[i][1]) = IF i = 1 THEN 0 ELSE pending[i - 1][1]

(* A variable still to be closed lies in the live stack and holds the      *)
(* value it was declared with when its method is called.                   *)
PendingIntact ==
  \A i \in 1 .. Len(pending) :
    pending[i][1] <= Top /\ stk[pending[i][1]] = pending[i][2]

(* The value a return or an error has to deliver survives the closing      *)
(* methods, the frames they run in and the errors they catch themselves.   *)
OutcomeIntact ==
  /\ \A i \in 1 .. Len(ctl) : ctl[i].k = "return" => stk[ctl[i].pos] = ctl[i].val
  /\ Cur.k = "error" => stk[Top] = Cur.val

=============================================================================

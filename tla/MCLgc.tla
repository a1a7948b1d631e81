------------------------------- MODULE MCLgc -------------------------------
(* Small heaps for Lgc.  Each has the main thread and what one family of   *)
(* hazards needs; MayHold says which references the program ever stores.   *)
EXTENDS Lgc
CONSTANTS main, tab, obj, other, co, fn, gn, up, vp, str

NoMode == [t \in Tables |-> {}]

(* A table of any mode and a userdata that may refer to each other.        *)
IncObjs == {main, tab, obj}
IncKind == main :> "thread" @@ tab :> "table" @@ obj :> "udata"
IncMayHold ==
  main :> {SlotOf(obj), SlotOf(tab)} @@ tab :> {SlotOf(obj), <<obj, tab>>} @@ obj :> {SlotOf(tab)}
IncMode == tab :> {"strong", "wv", "wk", "kv"}

(* A userdata, its metatable and a table that the metatable holds: chains  *)
(* of old objects that refer to young ones through both barriers.          *)
GenObjs == {main, obj, tab, other}
GenKind == main :> "thread" @@ obj :> "udata" @@ tab :> "table" @@ other :> "table"
GenMayHold ==
  main :> {SlotOf(obj), SlotOf(tab), SlotOf(other)} @@ obj :> {<<"mt", tab>>}
    @@ tab :> {SlotOf(other)} @@ other :> {}

(* Two objects with finalizers, and a string they share.                   *)
CloseObjs == {main, obj, other, str}
CloseKind == main :> "thread" @@ obj :> "table" @@ other :> "table" @@ str :> "string"
CloseMayHold ==
  main :> {SlotOf(obj), SlotOf(other), SlotOf(str)} @@ obj :> {SlotOf(str)} @@ other :> {SlotOf(str)} @@ str :> {}
SafeStates == {"pause", "propagate", "enteratomic", "swpallgc", "swpfinobj", "swpend", "callfin"}

(* A coroutine, and a closure with a variable of either thread.            *)
ThreadObjs == {main, co, fn, up}
ThreadKind == main :> "thread" @@ co :> "thread" @@ fn :> "closure" @@ up :> "upval"
ThreadMayHold ==
  main :> {SlotOf(co), SlotOf(fn)} @@ co :> {SlotOf(fn)} @@ fn :> {} @@ up :> {SlotOf(co)}

(* Two closures, each with a variable: of the main thread, of a coroutine. *)
JoinObjs == {main, co, fn, gn, up, vp}
JoinKind ==
  main :> "thread" @@ co :> "thread" @@ fn :> "closure" @@ gn :> "closure" @@ up :> "upval" @@ vp :> "upval"
JoinMayHold ==
  main :> {SlotOf(co), SlotOf(fn)} @@ co :> {SlotOf(gn)} @@ fn :> {} @@ gn :> {} @@ up :> {} @@ vp :> {}
=============================================================================

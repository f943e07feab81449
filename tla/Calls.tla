--------------------------------- MODULE Calls ----------------------------------
(***************************************************************************)
(* How a kernel call that may fail half way is written down.  Every        *)
(* function of the code becomes an operator from the running call "st" to   *)
(* the running call: st.v is the state it works on, st.val the value in     *)
(* hand, st.err the pending error.  The device access numbered st.left      *)
(* fails; the ones before and after it succeed.                             *)
(***************************************************************************)
EXTENDS Integers

Fine(st) == st.err = "none"
Fail(st, e) == [st EXCEPT !.err = e]
Give(st, x) == [st EXCEPT !.val = x]
\* F(st).  Binding the variable makes TLC evaluate st once.
With(st, F(_)) == CHOOSE r \in {F(s) : s \in {st}} : TRUE
\* `f()?`: go on unless st failed.
Then(st, F(_)) == With(st, LAMBDA s : IF Fine(s) THEN F(s) ELSE s)

\* `let _ = f()`: run f, ignore what it returns.
Ignoring(st, F(_)) ==
    With(st, LAMBDA s :
        With(F([s EXCEPT !.err = "none"]), LAMBDA r : [r EXCEPT !.err = s.err, !.val = s.val]))
OnError(st, F(_)) == With(st, LAMBDA s : IF Fine(s) THEN s ELSE Ignoring(s, F))
\* `Err(e) => {}` for the errors in es.
Unless(st, es) == With(st, LAMBDA s : IF s.err \in es THEN [s EXCEPT !.err = "none"] ELSE s)

\* One access to the device.
Access(st) ==
    With(st, LAMBDA s :
        [s EXCEPT !.left = s.left - 1, !.err = IF s.left = 1 THEN "Block" ELSE s.err])
=============================================================================

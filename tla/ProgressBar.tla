----------------------------- MODULE ProgressBar -----------------------------
(***************************************************************************)
(* BasicProgressBar<T> (lib/progressbar) as its two users call it: a count *)
(* that grows towards a maximum, and a text of Width characters.           *)
(*                                                                         *)
(* _relativeState is the quotient of the two counts.  Here it stays a      *)
(* fraction; what the code does with it is compare it with 1 and round     *)
(* Width times it to the nearest int, halves up.                           *)
(***************************************************************************)
EXTENDS Integers

CONSTANT Width    \* characters of the bar: sizeof(status) - 1

ASSUME ProgressAssumption == Width \in Nat \ {0}

NewProgress == [maximum |-> 0, state |-> 0]

SetMaximum(bar, maximum) == [bar EXCEPT !.maximum = maximum]

SetProgress(bar, state) == [bar EXCEPT !.state = state]

\* increment(value): with nothing to add, the chunk size, which nobody sets, is added.
IncrementProgress(bar, value, mod) == [bar EXCEPT !.state = (@ + value) % mod]

\* get() >= 1.0, where 0/0 is not a number.
ProgressComplete(bar) == bar.maximum > 0 /\ bar.state >= bar.maximum

-------------------------------------------------------------------------------
(* get_bar(): what it leaves in a text. *)

BlankText == [i \in 0 .. Width - 1 |-> "?"]

\* round(get() * width)
Elapsed(bar) == (2 * bar.state * Width + bar.maximum) \div (2 * bar.maximum)

\* The pending part is drawn up to Width - elapsed, not up to Width.
Draw(text, elapsed) ==
  [i \in 0 .. Width - 1 |->
     IF i < elapsed THEN "#" ELSE IF i < Width - elapsed THEN "-" ELSE text[i]]

\* The texts get_bar() may leave.  A quotient that is no int (0/0, or beyond intMax)
\* converts to an undefined one: to the least int, with which neither part is drawn,
\* or to 0 if it is not a number.
GetBar(bar, text, intMax) ==
  IF bar.maximum = 0 THEN {text, Draw(text, 0)}
  ELSE IF Elapsed(bar) > intMax THEN {text}
  ELSE {Draw(text, Elapsed(bar))}
===============================================================================

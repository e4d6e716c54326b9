----------------------------- MODULE CallStack -----------------------------
(***************************************************************************)
(* What calls promise a Bijou program: a function is entered with as many  *)
(* arguments as it declares, the arguments it was given stay what they are *)
(* until it returns, and activations end in the opposite order they began. *)
(* Nothing is said of what a function computes, nor of its arguments.      *)
(***************************************************************************)
EXTENDS Integers, SequencesExt

VARIABLES
  arity,   \* how many arguments each function takes
  acts,    \* the activations that live, the oldest first
  ended    \* the process ended with activations alive

vars == <<arity, acts, ended>>

\* The main function is given no argument, whatever it declares.
NoArgs == [x \in {} |-> x]

Init ==
  /\ acts = <<[fn |-> 1, args |-> NoArgs]>>
  /\ ended = FALSE

Enter ==
  /\ ~ended /\ acts # <<>>
  /\ Len(acts') = Len(acts) + 1
  /\ LET new == Last(acts')
     IN  /\ acts' = Append(acts, new)
         /\ new.fn \in DOMAIN arity
         /\ DOMAIN new.args = 0 .. arity[new.fn] - 1
  /\ UNCHANGED <<arity, ended>>

Leave ==
  /\ ~ended /\ acts # <<>>
  /\ acts' = Front(acts)
  /\ UNCHANGED <<arity, ended>>

Stop ==
  /\ ~ended /\ acts # <<>>
  /\ ended' = TRUE
  /\ UNCHANGED <<arity, acts>>

Next == Enter \/ Leave \/ Stop

Spec == Init /\ [][Next]_vars
=============================================================================

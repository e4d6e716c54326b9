----------------------------- MODULE MCThreads -----------------------------
(***************************************************************************)
(* Instances of Threads for TLC: main functions that make one or two       *)
(* threads, over workers that race for the global, join, sleep or loop.    *)
(***************************************************************************)
EXTENDS Threads, FiniteSetsExt

MCRegs    == {0, 1}
MCGlobals == {0}

Op(op, a, x) == [op |-> op, a |-> a, x |-> x]

Load2 == Op("loadk", 0, 2)
Get   == Op("getglobal", 0, 0)
Set0  == Op("setglobal", 0, 0)
Set1  == Op("setglobal", 1, 0)
Join0 == Op("thread_join", 0, 0)
Ret   == Op("return", 0, 0)

Publish == <<Op("loadk", 0, 1), Set0>>
One     == <<Op("closure", 1, 2), Op("thread_create", 1, 1)>>
Two     == <<Op("closure", 1, 2), Op("thread_create", 0, 1),
             Op("closure", 1, 3), Op("thread_create", 1, 1)>>

Mains ==
  { One \o tail : tail \in
      { <<>>, <<Load2, Set0, Get>>, <<Set1, Op("thread_join", 1, 1)>>,
        <<Load2, Op("sleep", 0, 0)>>, <<Join0>>, <<Op("jmp", 0, 1)>> } }
  \cup { Publish \o One \o tail : tail \in {<<Get>>, <<Op("thread_yield", 0, 0)>>} }
  \cup { Two \o tail : tail \in {<<>>, <<Join0>>, <<Set1, Op("thread_join", 1, 1)>>} }
  \cup { Publish \o Two \o tail : tail \in {<<>>, <<Load2, Set0>>} }

Workers ==
  { <<>>, <<Get>>, <<Load2, Set0>>, <<Get, Join0>>, <<Get, Op("thread_create", 0, 0)>>,
    <<Op("closure", 0, 3), Op("thread_create", 0, 0), Join0>>,
    <<Op("closure", 0, 3), Set0>>, <<Op("sleep", 0, 0)>>,
    <<Get, Op("jmp", 0, 1)>> }

Lasts ==
  { [argc |-> 0, code |-> <<Get, Join0, Ret>>],
    [argc |-> 1, code |-> <<Ret>>] }

ThreadPrograms ==
  { << [argc |-> 0, code |-> main \o <<Ret>>],
       [argc |-> 0, code |-> worker \o <<Ret>>], last >>
    : main \in Mains, worker \in Workers, last \in Lasts }

\* thread.c:149-150 says of thread_join "Returns - return val [TValue]": a join of a
\* thread that was created and has ended answers.
JoinsAnswer == status # "crashed"
=============================================================================

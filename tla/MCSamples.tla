----------------------------- MODULE MCSamples -----------------------------
(***************************************************************************)
(* The programs of sample/ that stay inside the memory they are given, as  *)
(* bijouc assembles them: call.s, external.s, loop.s, param.s and test.s.  *)
(***************************************************************************)
EXTENDS Interp

SampleNums     == {-42, 0, 1, 3, 5, 42, 47}
SampleStrings  == {"test", "A string!", "string_cat", "Hello, ", "World", "char_at",
                   "index_of", "ll", "substr", "length"}
SamplePointers == {}
SampleLibs     ==
  << ("test" :> 0),
     ("string_cat" :> 2 @@ "char_at" :> 2 @@ "index_of" :> 2 @@ "substr" :> 3
        @@ "length" :> 1) >>

Block(code, k, regc, argc, numglobal, children) ==
  [code |-> code, k |-> k, regc |-> regc, argc |-> argc,
   numglobal |-> numglobal, children |-> children]

\* sample/call.s
CallSample ==
  << Block(<< ABx("closure", 0, RKASK(1)), ABx("loadk", 1, 0), ABC("call", 9, 0, 1),
              ABx("closure", 2, RKASK(2)), ABx("loadk", 3, 0), ABC("call", 3, 2, 1),
              ABx("closure", 2, RKASK(3)), ABx("loadk", 3, 0), ABC("call", 3, 2, 1),
              ABx("closure", 2, RKASK(4)), ABx("loadk", 3, 0), ABC("call", 3, 2, 1),
              ABx("closure", 2, RKASK(10)), ABx("loadk", 3, 0), ABC("call", 3, 2, 1),
              ABC("return", 3, 0, 0) >>,
           <<Number(42)>>, 10, 0, 0, <<>>) >>

\* sample/external.s
ExternalSample ==
  << Block(<< ABx("loadk", 0, 0), ABC("getexternal", 0, 0, 0), ABC("call", 1, 0, 0),
              ABC("return", 1, 0, 0) >>,
           <<String("test")>>, 5, 0, 0, <<>>) >>

\* sample/loop.s
LoopSample ==
  << Block(<< ABx("loadk", 0, 0), AsBx("jmp", -1), ABC("return", 0, 0, 0) >>,
           <<Number(0)>>, 1, 0, 0, <<>>) >>

\* sample/param.s
ParamSample ==
  << Block(<< ABx("closure", 0, 0), ABx("loadk", 1, 0), ABC("call", 2, 0, 1),
              ABC("return", 2, 0, 0) >>,
           <<Number(42)>>, 3, 0, 0, <<2>>),
     Block(<< ABx("loadk", 0, 0), ABx("getarg", 1, 0), ABC("sub", 2, 0, 1),
              ABC("return", 2, 0, 0) >>,
           <<Number(0)>>, 3, 1, 0, <<>>) >>

\* sample/test.s
TestSample ==
  << Block(<< ABx("loadk", 0, 2), ABC("add", 1, 0, RKASK(1)), ABx("setglobal", 1, 0),
              ABx("getglobal", 0, 0), ABx("closure", 0, RKASK(1)), ABx("loadk", 1, 3),
              ABC("call", 2, 0, 1), ABC("return", 2, 0, 0) >>,
           <<Number(0), Number(42), Number(5), String("A string!")>>, 20, 0, 5, <<>>) >>

\* sample/string.s
StringSample ==
  << Block(<< ABC("getexternal", 0, 0, 0), ABx("loadk", 1, 1), ABx("loadk", 2, 2),
              ABC("call", 4, 0, 2), ABx("closure", 3, RKASK(1)), ABC("call", 5, 3, 1),
              ABC("getexternal", 0, 3, 0), ABx("loadk", 1, 1), ABx("loadk", 2, 4),
              ABC("call", 4, 0, 2), ABx("closure", 3, RKASK(1)), ABC("call", 5, 3, 1),
              ABC("getexternal", 0, 5, 0), ABx("loadk", 1, 1), ABx("loadk", 2, 6),
              ABC("call", 4, 0, 2), ABx("closure", 3, RKASK(1)), ABC("call", 5, 3, 1),
              ABC("getexternal", 0, 7, 0), ABx("loadk", 1, 1), ABx("loadk", 2, 8),
              ABx("loadk", 3, 9), ABC("call", 4, 0, 3), ABx("closure", 3, RKASK(1)),
              ABC("call", 5, 3, 1),
              ABC("getexternal", 0, 10, 0), ABx("loadk", 1, 2), ABC("call", 4, 0, 1),
              ABx("closure", 3, RKASK(1)), ABC("call", 5, 3, 1),
              ABC("return", 5, 0, 0) >>,
           << String("string_cat"), String("Hello, "), String("World"), String("char_at"),
              Number(0), String("index_of"), String("ll"), String("substr"), Number(1),
              Number(3), String("length") >>, 15, 0, 0, <<>>) >>

Samples == {CallSample, ExternalSample, LoopSample, ParamSample, StringSample, TestSample}

----------------------------------------------------------------------------
LibraryEnds == {"exit1", "crashed", "overrun", "away"}

\* Every sample but loop.s ends in its return: param.s gives the opposite of
\* 42 ("-param"), test.s and string.s what println gives, call.s a number, and a
\* library function may end the process or keep it.  The sum test.s stores is
\* in the global its constant 0 names.  loop.s comes to an end never.
SamplesReturnWhatTheySay ==
  /\ prog = ParamSample  => <>(status = "returned" /\ result = Number(-42))
  /\ prog = CallSample   => <>(status = "returned" /\ Tag(result) = "number")
  /\ prog = TestSample   => <>(status = "returned" /\ result = Null
                               /\ globals = [x \in 0 .. 4 |-> IF x = 0 THEN Number(47)
                                                              ELSE Junk])
  /\ prog = ExternalSample => <>(status \in {"returned"} \cup LibraryEnds)
  /\ prog = StringSample => <>(\/ status \in LibraryEnds
                               \/ status = "returned" /\ result = Null)
  /\ prog = LoopSample   => [](status = "running")
=============================================================================

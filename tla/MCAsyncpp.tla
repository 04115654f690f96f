------------------------------ MODULE MCAsyncpp -------------------------------
(* The program of main.cpp for TLC, with a third coroutine that goes back   *)
(* and forth between the two queues.                                        *)
EXTENDS Asyncpp, TLC

CONSTANTS asyncFs, testVoid, other

MCOrder == <<asyncFs, testVoid, other>>
MCScript ==
    (asyncFs :> <<"createDirectories", "exists", "removeAll", "exists", "voidFsFunction">>)
    @@ (testVoid :> <<"hello">>)
    @@ (other :> <<"hello", "voidFsFunction", "hello">>)
==============================================================================

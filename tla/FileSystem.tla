------------------------------ MODULE FileSystem ------------------------------
(***************************************************************************)
(* The operations that the coroutines of cpp20/Coroutines/Asyncpp await:   *)
(* those of fs/FileSystem.cpp, all applied to one path, and hello() of     *)
(* main.cpp.  The state of the disk is whether that path exists.           *)
(***************************************************************************)

IoOps == {"createDirectories", "exists", "removeAll", "voidFsFunction"}
Ops == IoOps \cup {"hello"}
Values == {"true", "false", "1", "0", "void"}

\* Whether the path exists after op.
Effect(op, directory) ==
    CASE op = "createDirectories" -> TRUE
      [] op = "removeAll" -> FALSE
      [] OTHER -> directory

\* What op returns: create_directories whether it created the path, remove_all
\* the number of entries deleted, which is 1 for the leaf dir1/a/b/c.
Value(op, directory) ==
    CASE op = "createDirectories" -> (IF directory THEN "false" ELSE "true")
      [] op = "exists" -> (IF directory THEN "true" ELSE "false")
      [] op = "removeAll" -> (IF directory THEN "1" ELSE "0")
      [] OTHER -> "void"
==============================================================================

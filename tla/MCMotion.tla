------------------------------ MODULE MCMotion ------------------------------
(* Motion for a gripper joint, its mimic follower and two callers.         *)
EXTENDS Motion, TLC
CONSTANTS grip, tip, stranger, c1, c2

MCFollowers == (grip :> {tip}) @@ (tip :> {})
MCDirection == (grip :> -1) @@ (tip :> 0)
MCLower == (grip :> 0) @@ (tip :> 0)
MCUpper == (grip :> 1) @@ (tip :> 1)
MCForward == (grip :> 1) @@ (tip :> 0)
MCWide == (grip :> 2) @@ (tip :> 2)
MCStart == (grip :> 1) @@ (tip :> 0)
MCHome == (grip :> 0) @@ (tip :> 0)
Cmd(names, data, mode) == [names |-> names, data |-> data, mode |-> mode]
MCCommands == {Cmd(<<grip>>, <<1>>, "position"), Cmd(<<grip, stranger>>, <<1, 0>>, "velocity"),
               Cmd(<<grip>>, <<0>>, "velocity"), Cmd(<<grip>>, <<0>>, "other")}
Point(at, to) == [at |-> at, to |-> to]
MCPlans == {[joints |-> {grip}, points |-> <<Point(0, 1), Point(1, 1), Point(1, 0)>>],
            [joints |-> {grip}, points |-> <<Point(1, 0), Point(2, 1)>>]}
=============================================================================

------------------------------- MODULE Frames -------------------------------
(***************************************************************************)
(* Quaternions and poses, with the formulas that the scene compilers write *)
(* them with. A quaternion <<w, x, y, z>> is kept in integers and up to a  *)
(* factor: where the code has a unit quaternion, the square of the norm is *)
(* divided out (_normalize). The rotations used are the 24 that map the    *)
(* axes to axes, for which every division here is exact.                   *)
(***************************************************************************)
EXTENDS Integers, Sequences

Plus(u, v) == <<u[1] + v[1], u[2] + v[2], u[3] + v[3]>>
Times(k, v) == <<k * v[1], k * v[2], k * v[3]>>
Over(v, k) == <<v[1] \div k, v[2] \div k, v[3] \div k>>
Cross(u, v) == <<u[2] * v[3] - u[3] * v[2], u[3] * v[1] - u[1] * v[3],
                 u[1] * v[2] - u[2] * v[1]>>
Unit(axis) == CASE axis = "X" -> <<1, 0, 0>> [] axis = "Y" -> <<0, 1, 0>>
                [] axis = "Z" -> <<0, 0, 1>>

Norm(q) == q[1] * q[1] + q[2] * q[2] + q[3] * q[3] + q[4] * q[4]
Imaginary(q) == <<q[2], q[3], q[4]>>
Conjugate(q) == <<q[1], -q[2], -q[3], -q[4]>>

Multiply(l, r) ==
  <<l[1] * r[1] - l[2] * r[2] - l[3] * r[3] - l[4] * r[4],
    l[1] * r[2] + l[2] * r[1] + l[3] * r[4] - l[4] * r[3],
    l[1] * r[3] - l[2] * r[4] + l[3] * r[1] + l[4] * r[2],
    l[1] * r[4] + l[2] * r[3] - l[3] * r[2] + l[4] * r[1]>>

\* q v q* (the MuJoCo compiler) ...
Rotate(q, v) ==
  Over(Imaginary(Multiply(Multiply(q, <<0>> \o v), Conjugate(q))), Norm(q))

\* ... and v + w t + q x t with t = 2 q x v (PyBullet's and Gazebo's).
RotateByCross(q, v) ==
  LET t == Times(2, Cross(Imaginary(q), v))
  IN  Plus(v, Over(Plus(Times(q[1], t), Cross(Imaginary(q), t)), Norm(q)))

\* A pose: a position and a rotation.
Identity == [at |-> <<0, 0, 0>>, turn |-> <<1, 0, 0, 0>>]
Shift(v) == [at |-> v, turn |-> <<1, 0, 0, 0>>]
Compose(f, g) == [at |-> Plus(f.at, Rotate(f.turn, g.at)), turn |-> Multiply(f.turn, g.turn)]
Inverse(f) == [at |-> Times(-1, Rotate(Conjugate(f.turn), f.at)), turn |-> Conjugate(f.turn)]
SameRotation(p, q) == \A axis \in {"X", "Y", "Z"} : Rotate(p, Unit(axis)) = Rotate(q, Unit(axis))
SamePose(f, g) == f.at = g.at /\ SameRotation(f.turn, g.turn)

\* A rotation by k quarter turns about the unit vector e.
Turn(e, k) == CASE k = 0 -> <<1, 0, 0, 0>>      [] k = 1 -> <<1>> \o e
                [] k = 2 -> <<0>> \o e          [] k = -1 -> <<1>> \o Times(-1, e)

\* What a joint does at a position: quarter turns, or steps along its axis.
Moved(kind, e, position) ==
  IF kind = "revolute" THEN [at |-> <<0, 0, 0>>, turn |-> Turn(e, position)]
                       ELSE Shift(Times(position, e))

-----------------------------------------------------------------------------
(* Roll, pitch and yaw, in quarter turns.                                  *)

\* atan2 of a sine and a cosine, both of which are zero where pitch is +-90.
Atan2(sin, cos) == CASE sin = 1 -> 1 [] sin = -1 -> -1 [] cos = -1 -> 2 [] OTHER -> 0

Rpy(q) ==
  LET w == q[1]  x == q[2]  y == q[3]  z == q[4]  n == Norm(q)
  IN  [roll  |-> Atan2((2 * (w * x + y * z)) \div n, (n - 2 * (x * x + y * y)) \div n),
       pitch |-> (2 * (w * y - z * x)) \div n,   \* asin of -1, 0 or 1
       yaw   |-> Atan2((2 * (w * z + x * y)) \div n, (n - 2 * (y * y + z * z)) \div n)]

\* What a URDF or SDF reader makes of it.
FromRpy(a) == Multiply(Multiply(Turn(Unit("Z"), a.yaw), Turn(Unit("Y"), a.pitch)),
                       Turn(Unit("X"), a.roll))
AsRpy(f) == [f EXCEPT !.turn = FromRpy(Rpy(f.turn))]

\* A rotation that its roll, pitch and yaw do not determine.
Gimbal(q) == Rpy(q).pitch # 0 /\ ~SameRotation(FromRpy(Rpy(q)), q)
=============================================================================

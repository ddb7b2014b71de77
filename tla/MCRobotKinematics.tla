------------------------- MODULE MCRobotKinematics --------------------------
(* An instance of RobotKinematics for TLC: straight ahead, and a motion     *)
(* with a part along each axis.                                            *)
EXTENDS RobotKinematics

MCSpeeds == {<<4, 4, 4, 4>>, <<4, 12, 8, 0>>}
=============================================================================

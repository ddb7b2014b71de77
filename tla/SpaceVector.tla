---------------------------- MODULE SpaceVector -----------------------------
(***************************************************************************)
(* The arithmetic of the FoC sample: samples/foc_controller/src/foc_svm.c  *)
(* and the transforms that feed it.  Voltages are in units of 1/ONE volt.  *)
(* A vector of the alpha-beta frame is <<alpha, B>> with beta = sqrt(3) B, *)
(* and angles are in sixths of a turn, so that all of it is exact in the   *)
(* integers.  Duty cycles are in units of 1/(2 ONE).                       *)
(***************************************************************************)
EXTENDS Integers

CONSTANT ONE    \* the units in one volt

ASSUME OneAssumption == ONE \in Nat \ {0}

\* A command of voltage_q = 2 sqrt(3) q units and voltage_d = 2 d units; the
\* sine and cosine of a sixth are S / (2 sqrt(3)) * 3 and C / 2.
C(e) == <<2, 1, -1, -2, -1, 1>>[e + 1]
S(e) == <<0, 1, 1, 0, -1, -1>>[e + 1]

\* arm_inv_park_f32: the d-q vector turned into the alpha-beta frame.
InvPark(cmd, e) == <<cmd.d * C(e) - 3 * cmd.q * S(e), cmd.d * S(e) + cmd.q * C(e)>>

\* The vector is longer than sqrt(3)/2 volt.
OverLimit(v) == 4 * (v[1] * v[1] + 3 * v[2] * v[2]) > 3 * ONE * ONE

\* The vector, scaled down to the limit when it is longer.  The length of the
\* model's long vectors is 2 sqrt(3) h for a whole h; the limit is h = ONE / 4.
IsLength(h, v) == 12 * h * h = v[1] * v[1] + 3 * v[2] * v[2]
Length(v) == CHOOSE h \in 1 .. ONE : IsLength(h, v)
Scaled(x, h) == (x * ONE) \div (4 * h)
Limited(v) ==
    IF OverLimit(v) THEN <<Scaled(v[1], Length(v)), Scaled(v[2], Length(v))>> ELSE v

\* The length is whole, and so is what becomes of the vector and, in the
\* transform below, of the sum of its components, halved.
Exact(v) ==
    \E h \in 1 .. ONE :
        /\ IsLength(h, v)
        /\ (v[1] * ONE) % (4 * h) = 0 /\ (v[2] * ONE) % (4 * h) = 0
        /\ (Scaled(v[1], h) + Scaled(v[2], h)) % 2 = 0

\* The modified inverse Clarke transform: a, b and c.
Clarke(v) == <<v[1], (-v[1] - 3 * v[2]) \div 2, (-v[1] + 3 * v[2]) \div 2>>

\* get_sector.
Sector(a, b, c) ==
    CASE c < 0 /\ a < 0 -> 2
      [] c < 0 /\ a >= 0 /\ b < 0 -> 6
      [] c < 0 /\ a >= 0 /\ b >= 0 -> 1
      [] c >= 0 /\ a < 0 /\ b <= 0 -> 4
      [] c >= 0 /\ a < 0 /\ b > 0 -> 3
      [] OTHER -> 5

\* The two active times of a sector.
Times(a, b, c) ==
    LET s == Sector(a, b, c)
    IN  CASE s = 1 -> <<a, b>> [] s = 2 -> <<-c, -a>> [] s = 3 -> <<b, c>>
          [] s = 4 -> <<-a, -b>> [] s = 5 -> <<c, a>> [] s = 6 -> <<-b, -c>>

\* Mutant of the next definition: dcb and dcc of sector 6 are swapped.
DutiesSwapped(a, b, c) ==
    LET x == Times(a, b, c)[1]
        y == Times(a, b, c)[2]
        z == ONE - (x + y)
        s == Sector(a, b, c)
        on == CASE s = 1 -> <<x + y, y, 0>> [] s = 2 -> <<x, x + y, 0>>
                [] s = 3 -> <<0, x + y, y>> [] s = 4 -> <<0, x, x + y>>
                [] s = 5 -> <<y, 0, x + y>> [] s = 6 -> <<x + y, x, 0>>
    IN  <<2 * on[1] + z, 2 * on[2] + z, 2 * on[3] + z>>

\* The duty cycles of the three phases: the active times, and half of what is
\* left of the period.
Duties(a, b, c) ==
    LET x == Times(a, b, c)[1]
        y == Times(a, b, c)[2]
        z == ONE - (x + y)
        s == Sector(a, b, c)
        on == CASE s = 1 -> <<x + y, y, 0>> [] s = 2 -> <<x, x + y, 0>>
                [] s = 3 -> <<0, x + y, y>> [] s = 4 -> <<0, x, x + y>>
                [] s = 5 -> <<y, 0, x + y>> [] s = 6 -> <<x + y, 0, x>>
    IN  <<2 * on[1] + z, 2 * on[2] + z, 2 * on[3] + z>>

\* foc_svm_set.
SvmSet(v) == LET w == Clarke(Limited(v)) IN Duties(w[1], w[2], w[3])

\* foc_driver_set_duty_cycle: each duty cycle is kept within 0 and 1.
Saturated(x) == IF x > 2 * ONE THEN 2 * ONE ELSE IF x < 0 THEN 0 ELSE x
SetDutyCycle(d) == [i \in 1 .. 3 |-> Saturated(d[i])]
=============================================================================

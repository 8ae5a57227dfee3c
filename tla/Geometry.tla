------------------------------ MODULE Geometry ------------------------------
(***************************************************************************)
(* The plane geometry of LocationTimeline (cache-node/compress.h), on a    *)
(* lattice.  The code maps latitude and longitude to x and y in metres and *)
(* works with doubles; here a place is <<x, y>> in units of ten metres,    *)
(* distances are compared by their squares, which is exact, and an angle   *)
(* is a whole number of degrees, as it is once the code has stored it in   *)
(* the ints driveAngle and can.                                            *)
(***************************************************************************)
EXTENDS Integers

Magnitude(n) == IF n < 0 THEN -n ELSE n

\* dis * dis of the code, for the distance between two places.
Distance2(p, q) == (q[1] - p[1]) * (q[1] - p[1]) + (q[2] - p[2]) * (q[2] - p[2])

\* dis <= 20: the vehicle has not moved.
IsNear(p, q) == Distance2(p, q) <= 2 * 2

\* sin(d) for 0 <= d <= 180 in 400ths, by the rational approximation of
\* Bhaskara, which is off by less than two 400ths.
Sine(d) == (400 * 4 * d * (180 - d)) \div (40500 - d * (180 - d))

\* std::atan(|dy| / |dx|), rounded down to degrees, both arguments positive.
Atan(dy, dx) ==
  CHOOSE d \in 0 .. 89 : /\ dx * Sine(d) <= dy * Sine(90 - d)
                         /\ dx * Sine(d + 1) > dy * Sine(89 - d)

\* What is left of it when the angle was negative and 180 or 360 is added.
NegativeAtan(dy, dx) == IF dy = dx THEN 45 ELSE Atan(dy, dx) + 1

\* LocationTimeline::angle, as an int: the heading from p to q, counted from
\* the x axis.
Angle(p, q) ==
  LET dx == q[1] - p[1]
      dy == q[2] - p[2]
      ax == Magnitude(dx)
      ay == Magnitude(dy)
  IN  CASE dx = 0 -> IF dy < 0 THEN 270 ELSE 90
        [] dx # 0 /\ dy = 0 -> IF dx < 0 THEN 180 ELSE 0
        [] dx > 0 /\ dy > 0 -> Atan(ay, ax)
        [] dx < 0 /\ dy < 0 -> 180 + Atan(ay, ax)
        [] dx < 0 /\ dy > 0 -> 180 - NegativeAtan(ay, ax)
        [] dx > 0 /\ dy < 0 -> 360 - NegativeAtan(ay, ax)

\* disToVec > 150, where disToVec is dis * sin(dan * PI / 180.0).
IsOffCourse(from, to, dan) == Distance2(from, to) * Sine(dan) * Sine(dan) > 15 * 15 * 400 * 400
=============================================================================

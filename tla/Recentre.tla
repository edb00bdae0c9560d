------------------------------- MODULE Recentre -------------------------------
(***************************************************************************)
(* One joint, and the ways to measure its travel and to move its homing    *)
(* offset so that the middle of it reads Centre: recentre_joint and        *)
(* measure_travel_range of calibration/recentre.py, which add up           *)
(* displacements, and the sweep of calibration/rom_sweep.py with Apply of  *)
(* dashboard/panels/setup.py, which keeps the extreme readings.            *)
(*                                                                         *)
(* The joint is at an integer place between two stops; in wheel mode the   *)
(* servo reports it modulo the encoder, in servo mode with the offset      *)
(* subtracted.  The job has the bus to itself, its writes are carried out  *)
(* (recentre_joint does not look whether they were), and the joint rests   *)
(* but for the sweep.  Torque and the goal are left out.  A direction's    *)
(* first reading is one of the joint at rest: it follows the write that    *)
(* starts the motion, and what the joint has moved by then is not counted. *)
(* Readings that are within the tolerance of a stall are equal readings.   *)
(***************************************************************************)
EXTENDS Integers

CONSTANTS
  Encoder,     \* ticks of a turn, 4096
  Suspect,     \* WRAP_SUSPECT_TICKS
  Stride,      \* the most a driven joint moves between two readings
  MaxMisses,   \* readings in a row that may fail
  MinTravel,   \* travel before a stall is looked for
  StallWindow, \* equal readings that make a stall
  Offsets      \* bound: the homing offsets a joint may be found with

Centre == Encoder \div 2

\* A jump of half the encoder or more is not motion: the joint must not go
\* as far unseen.  One reading is no stall, as it is always near itself.
RecentreAssumption ==
  /\ Encoder \in Nat /\ Encoder > 1 /\ Encoder % 2 = 0
  /\ Stride \in Nat \ {0} /\ MaxMisses \in Nat
  /\ (MaxMisses + 1) * Stride < Centre
  /\ MinTravel \in Nat /\ StallWindow \in Nat \ {0, 1}
  /\ Suspect \in 0 .. Encoder - 1
  /\ Offsets \subseteq -(Centre - 1) .. Centre - 1

VARIABLES
  tool,      \* "recentre", "range" or "sweep"
  stage,     \* where the job is
  low, high, \* the stops
  place,     \* where the joint is
  ofs,       \* STS_OFS, as the servo holds it
  wheel,     \* STS_MODE is that of a wheel
  limits,    \* STS_MIN_ANGLE_LIMIT, STS_MAX_ANGLE_LIMIT
  anchor,    \* the settled position before the sweep
  prev,      \* the last reading
  travelled, \* displacement since this direction began
  most, least, \* the extreme of each direction: of displacement or of readings
  still,     \* the last readings that are equal, far enough from the start
  misses,    \* readings failed in a row
  stalls,    \* directions that ended in a stall
  wanted,    \* the offset asked for, not folded into the register
  range      \* what measure_travel_range returns

jointVars == <<low, high, place>>
servoVars == <<ofs, wheel, limits>>
sweepVars == <<anchor, prev, travelled, most, least, still, misses, stalls>>
vars == <<tool, stage, jointVars, servoVars, sweepVars, wanted, range>>

\* What the servo reports when the joint is at x and the offset is o.
Reported(x, o) == (x - o) % Encoder
Reading == IF wheel THEN place % Encoder ELSE Reported(place, ofs)

Fresh ==
  /\ wheel = FALSE /\ limits = <<0, Encoder - 1>>
  /\ anchor = 0 /\ prev = 0 /\ travelled = 0 /\ most = 0 /\ least = 0
  /\ still = 0 /\ misses = 0 /\ stalls = 0 /\ wanted = 0
  /\ range = <<0, 0>>

\* No job.
Idle == /\ stage = "idle" /\ tool = "recentre"
        /\ low = 0 /\ high = 0 /\ place = 0 /\ ofs = 0
        /\ Fresh

\* A job is begun on a joint with any travel up to a turn, at any of its places.
Init ==
  /\ stage = "settle" /\ tool \in {"recentre", "range", "sweep"}
  /\ low \in 0 .. Encoder - 1 /\ high \in low .. low + Encoder
  /\ place \in low .. high
  /\ ofs \in Offsets
  /\ Fresh

-----------------------------------------------------------------------------
(* The arithmetic. *)

\* round() of half of n: to the even one of two that are as near.
RoundHalf(n) == LET f == n \div 2
                IN IF n % 2 = 0 \/ f % 2 = 0 THEN f ELSE f + 1

_unwrap(d) == IF d > Centre THEN d - Encoder
              ELSE IF d < -Centre THEN d + Encoder ELSE d

\* The offset the servo holds after encode_ofs(v) was written: folded into a
\* turn, its magnitude cut to the register.
Encoded(v) == LET w == ((v + Centre) % Encoder) - Centre
              IN IF w < 0 THEN -((-w) % Centre) ELSE w % Centre

AtLeast(x, y) == IF x < y THEN y ELSE x
AtMost(x, y) == IF x > y THEN y ELSE x
Clamped(x) == AtLeast(0, AtMost(x, Encoder - 1))

-----------------------------------------------------------------------------
(* The sweep. *)

Magnitude(x) == IF x < 0 THEN -x ELSE x

\* The tools that add up displacements rather than keep readings.
Adds == tool # "sweep"

\* measure_unwrapped_travel reads where the joint rests, in servo mode, before it turns to
\* wheel mode; run_rom_sweep compares with the first reading of each direction.
Settle ==
  /\ stage = "settle"
  /\ stage' = "forward" /\ wheel' = TRUE
  /\ prev' = place % Encoder
  /\ anchor' = IF Adds THEN Reading ELSE prev'
  /\ most' = 0 /\ least' = IF Adds THEN 0 ELSE Encoder - 1
  /\ UNCHANGED <<tool, jointVars, ofs, limits, travelled, still, misses, stalls,
                 wanted, range>>

\* The joint is driven until it stalls, and moves unless it is at the stop.
Driven ==
  /\ stage \in {"forward", "back"} /\ still < StallWindow
  /\ \E d \in 1 .. Stride :
       place' = IF stage = "forward" THEN AtMost(place + d, high)
                                     ELSE AtLeast(place - d, low)

\* Mutant: a difference of readings is taken for motion as it is.
_sweep_one_directionStraight(p) ==
  LET t == travelled + (p - prev)
      extreme(x) == IF Magnitude(t) > Magnitude(x) THEN t ELSE x
  IN /\ travelled' = t
     /\ IF stage = "forward" THEN most' = extreme(most) /\ UNCHANGED least
                             ELSE least' = extreme(least) /\ UNCHANGED most
     /\ still' = IF Magnitude(t) < MinTravel THEN still
                 ELSE IF p = prev /\ still > 0 THEN still + 1 ELSE 1

\* Displacements are added up: how far the joint has come.
_sweep_one_direction(p) ==
  LET t == travelled + _unwrap(p - prev)
      extreme(x) == IF Magnitude(t) > Magnitude(x) THEN t ELSE x
  IN /\ travelled' = t
     /\ IF stage = "forward" THEN most' = extreme(most) /\ UNCHANGED least
                             ELSE least' = extreme(least) /\ UNCHANGED most
     /\ still' = IF Magnitude(t) < MinTravel THEN still
                 ELSE IF p = prev /\ still > 0 THEN still + 1 ELSE 1

\* run_rom_sweep keeps the largest reading on the way forward and the smallest
\* on the way back.
run_rom_sweep(p) ==
  /\ IF stage = "forward" THEN most' = AtLeast(most, p) /\ UNCHANGED least
                          ELSE least' = AtMost(least, p) /\ UNCHANGED most
  /\ still' = IF Magnitude(p - anchor) < MinTravel THEN still
              ELSE IF p = prev /\ still > 0 THEN still + 1 ELSE 1
  /\ UNCHANGED travelled

\* A reading of the joint on its way.
Poll ==
  /\ Driven
  /\ prev' = place' % Encoder
  /\ IF Adds THEN _sweep_one_direction(prev')
             ELSE run_rom_sweep(prev')
  /\ misses' = 0
  /\ UNCHANGED <<tool, stage, low, high, servoVars, anchor, stalls, wanted, range>>

\* The reading fails, and the joint has moved all the same.
Miss ==
  /\ Driven /\ misses < MaxMisses
  /\ misses' = misses + 1
  /\ UNCHANGED <<tool, stage, low, high, servoVars, anchor, prev, travelled,
                 most, least, still, stalls, wanted, range>>

\* A direction ends in a stall or with its time; after the second the servo is
\* back in servo mode.
Turn ==
  /\ stage \in {"forward", "back"}
  /\ stalls' = IF still >= StallWindow THEN stalls + 1 ELSE stalls
  /\ stage' = IF stage = "forward" THEN "back" ELSE "measured"
  /\ wheel' = (stage = "forward")
  /\ prev' = place % Encoder
  /\ anchor' = IF Adds THEN anchor ELSE prev'
  /\ travelled' = 0 /\ still' = 0 /\ misses' = 0
  /\ UNCHANGED <<tool, jointVars, ofs, limits, most, least, wanted, range>>

-----------------------------------------------------------------------------
(* The offset. *)

\* The way back is measured from where the way forward ended.
RelMin == AtMost(0, most + least)
RelMax == AtLeast(0, most)
Span == Magnitude(least)

\* The offset moves with the middle of the travel in today's frame, and the
\* limits are put around Centre.
Recentre ==
  /\ stage = "measured" /\ tool = "recentre" /\ Span < Encoder - 1
  /\ wanted' = ofs + RoundHalf(2 * anchor + RelMin + RelMax - 2 * Centre)
  /\ ofs' = Encoded(wanted')
  /\ limits' = <<AtLeast(0, RoundHalf(2 * Centre - Span)),
                 AtMost(Encoder - 1, RoundHalf(2 * Centre + Span))>>
  /\ stage' = "done"
  /\ UNCHANGED <<tool, jointVars, wheel, sweepVars, range>>

\* A joint that turns round has no middle.
Refuse ==
  /\ stage = "measured" /\ tool = "recentre" /\ Span >= Encoder - 1
  /\ stage' = "refused"
  /\ UNCHANGED <<tool, jointVars, servoVars, sweepVars, wanted, range>>

\* Nothing is written: the travel in the frame of servo mode.
MeasureRange ==
  /\ stage = "measured" /\ tool = "range"
  /\ range' = <<anchor + RelMin, anchor + RelMax>>
  /\ stage' = "done"
  /\ UNCHANGED <<tool, jointVars, servoVars, sweepVars, wanted>>

\* Apply: the offset of the raw midpoint, in place of whatever was there.
Apply ==
  /\ stage = "measured" /\ tool = "sweep" /\ most - least < Suspect
  /\ wanted' = (least + most) \div 2 - Centre
  /\ ofs' = Encoded(wanted')
  /\ limits' = <<Clamped(least - wanted'), Clamped(most - wanted')>>
  /\ stage' = "done"
  /\ UNCHANGED <<tool, jointVars, wheel, sweepVars, range>>

\* Apply takes so wide a range for a travel that wrapped.
ApplySkips ==
  /\ stage = "measured" /\ tool = "sweep" /\ most - least >= Suspect
  /\ stage' = "refused"
  /\ UNCHANGED <<tool, jointVars, servoVars, sweepVars, wanted, range>>

Step == Settle \/ Poll \/ Miss \/ Turn \/ Recentre \/ Refuse \/ MeasureRange
        \/ Apply \/ ApplySkips

Next == Step

\* Turn is due when the time of a direction is up.
Fairness == WF_vars(Step) /\ WF_vars(Turn)

Spec == Init /\ [][Next]_vars /\ Fairness

-----------------------------------------------------------------------------
(* Properties. *)

\* When both directions ended in a stall, wherever the joint began:
\* measure_travel_range has the travel as it is, and in the frame of servo mode,
\* so that it is read off the stops where it does not leave the encoder; and a
\* joint that was re-centred no longer crosses the end of the encoder: over the
\* whole travel what it reports grows with its place, and the limits are the
\* stops, to a tick.  For Apply that needs a raw travel that did not cross it
\* either, and for both an offset the register holds: half a turn it does not.
Centred ==
  LET r(x) == Reported(x, ofs)
      moved == tool = "recentre" \/ (tool = "sweep" /\ high < Encoder)
  IN stage = "done" /\ stalls = 2 =>
       /\ tool = "range" =>
            /\ range[2] - range[1] = high - low
            /\ range[1] % Encoder = r(low) /\ range[2] % Encoder = r(high)
            /\ anchor \in range[1] .. range[2]
       /\ moved /\ wanted % Encoder # Centre =>
            /\ \A x \in low .. high : r(x) = r(low) + (x - low)
            /\ r(low) - limits[1] \in -1 .. 1
            /\ r(high) - limits[2] \in -1 .. 1

=============================================================================

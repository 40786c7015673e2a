----------------------------- MODULE Pointing ------------------------------
(***************************************************************************)
(* Which way the mount points: the pier side in CelestialMath.cpp:209-246, *)
(* the index offset (CelestialMath.h:115-135) and the position that the    *)
(* mount reads back from its axes (EquatorialMount.cpp:373-384).  Of the   *)
(* geometry only this is modelled, with a perfect polar alignment and no   *)
(* cone error; angles are whole degrees, hour angles included.             *)
(***************************************************************************)
EXTENDS Integers

CONSTANTS
  HourAngles, Declinations,   \* where a goto may go
  Offsets                     \* index offsets of the calibration

ASSUME SkyAssumption ==
  /\ HourAngles \subseteq -180..180 /\ Declinations \subseteq -90..90
  /\ Offsets \subseteq [ra : -180..180, dec : -180..180]

VARIABLES
  axes,     \* angle of both axes, ra_delta and dec_delta
  offset,   \* calibration.offset
  asked,    \* where the last goto went
  eq,       \* curr_pos_eq
  turned    \* the last motion

pointVars == <<axes, offset, asked, eq, turned>>

\* pierside_t: PIER_SIDE_AUTO and PIER_SIDE_EAST are one value.
EAST == 0
WEST == 1
AUTO == 0

\* remainder(a, 360): of two nearest multiples the even one.
Rem(a) ==
  LET r == a % 360
  IN  IF r > 180 \/ (r = 180 /\ (a \div 360) % 2 = 1) THEN r - 360 ELSE r

MountCoordinates(dec, ra, side) == [dec |-> dec, ra |-> ra, side |-> side]

Shifted(m, o) ==
  MountCoordinates(Rem(m.dec + o.dec), Rem(m.ra + o.ra), m.side)

Unshifted(m, o) ==
  MountCoordinates(Rem(m.dec - o.dec), Rem(m.ra - o.ra), m.side)

localEquatorialToMount(a, side) ==
  LET ha == IF side = AUTO THEN Rem(a.ha) ELSE a.ha
  IN  IF side = WEST \/ (side = AUTO /\ ha > 0)
      THEN MountCoordinates(90 - a.dec, ha - 90, WEST)
      ELSE MountCoordinates(a.dec - 90, ha + 90, EAST)

\* Fault: the side that the mount has, not the one the axes show.
mountToLocalBySide(m) ==
  IF m.side = WEST THEN [ha |-> m.ra + 90, dec |-> 90 - m.dec]
  ELSE [ha |-> m.ra - 90, dec |-> 90 + m.dec]

mountToLocalEquatorial(m) ==
  IF m.side = WEST \/ (m.side = AUTO /\ m.dec > 0)
  THEN [ha |-> m.ra + 90, dec |-> 90 - m.dec]
  ELSE [ha |-> m.ra - 90, dec |-> 90 + m.dec]

\* updatePosition: the constructor leaves the side at AUTO.
CurrPos == MountCoordinates(axes.dec, axes.ra, AUTO)

ReadBack == mountToLocalEquatorial(Unshifted(CurrPos, offset))

\* goTo, by both legs to the same place.
GoToSky ==
  /\ UNCHANGED offset
  /\ \E ha \in HourAngles, dec \in Declinations :
       LET m == Shifted(localEquatorialToMount([ha |-> ha, dec |-> dec], AUTO),
                        offset)
       IN  /\ axes' = [ra |-> m.ra, dec |-> m.dec]
           /\ asked' = [ha |-> ha, dec |-> dec]
  /\ eq' = ReadBack'
  /\ turned' = "goto"

\* guide(GUIDE_NORTH), one degree of it; startNudge asks the same question.
North == IF CurrPos.side = WEST THEN -1 ELSE 1

GuideNorth ==
  /\ turned = "goto"
  /\ UNCHANGED <<offset, asked>>
  /\ axes' = [axes EXCEPT !.dec = @ + North]
  /\ eq' = ReadBack'
  /\ turned' = "north"

PointInit ==
  /\ axes = [ra |-> 0, dec |-> 0] /\ offset \in Offsets
  /\ asked = [ha |-> 0, dec |-> 0] /\ eq = asked /\ turned = "none"

PointNext == GoToSky \/ GuideNorth

PointSpec == PointInit /\ [][PointNext]_pointVars

-----------------------------------------------------------------------------
\* The same place in the sky.
SamePlace(a, b) ==
  a.dec = b.dec /\ (a.dec \in {-90, 90} \/ Rem(a.ha - b.ha) % 360 = 0)

\* The side of the pier is chosen by a goto and not kept: the position is read
\* from the angles of the axes alone.  All the same a goto ends where it was
\* sent, on both sides, at the poles and the meridian, with any index offset.
PositionReadBack == turned = "goto" => SamePlace(eq, asked)

\* A guide pulse, or a nudge, to the north moves the telescope north on both
\* sides of the pier: "Guide on specified direction for specified time"
\* (EquatorialMount.h:103).
NorthIsNorth ==
  [][GuideNorth /\ eq.dec \in -89..89 => eq'.dec > eq.dec]_pointVars
=============================================================================

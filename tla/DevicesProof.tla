---------------------------- MODULE DevicesProof ----------------------------
(***************************************************************************)
(* Theorems about the parts beside the axes, the mount and the USB port:   *)
(* the arithmetic of a goto and of the position read back, the alignment   *)
(* list, the configuration file, the console on the display and the count  *)
(* of the driver's steps.  Each part has a specification of its own and the*)
(* proofs use nothing of another part.  At the end, the types of all parts.*)
(***************************************************************************)
EXTENDS Devices, SerialProof

-----------------------------------------------------------------------------
(***************************************************************************)
(* Pointing: angles are kept in turns, and a whole turn more is the same.  *)
(***************************************************************************)
Sky == offset \in [ra : -180..180, dec : -180..180]

LEMMA RemIs ==
  ASSUME NEW a \in Int
  PROVE  /\ Rem(a) \in -180..180
         /\ \E k \in Int : Rem(a) = a - 360 * k
<1> DEFINE r == a % 360
           q == a \div 360
<1>1. q \in Int /\ r \in 0..359 /\ a = 360 * q + r
  OBVIOUS
<1>2. Rem(a) = IF r > 180 \/ (r = 180 /\ q % 2 = 1) THEN r - 360 ELSE r
  BY DEF Rem
<1>3. q % 2 \in Int
  BY <1>1
<1> HIDE DEF r, q
<1>4. CASE r > 180 \/ (r = 180 /\ q % 2 = 1)
  <2>1. Rem(a) = a - 360 * (q + 1) /\ Rem(a) \in -180..180
    BY <1>1, <1>2, <1>4
  <2> QED
    BY <2>1, <1>1
<1>5. CASE ~(r > 180 \/ (r = 180 /\ q % 2 = 1))
  <2>1. Rem(a) = a - 360 * q /\ Rem(a) \in -180..180
    BY <1>1, <1>2, <1>5
  <2> QED
    BY <2>1, <1>1
<1> QED
  BY <1>4, <1>5

LEMMA RemOfTurns ==
  ASSUME NEW k \in Int
  PROVE  Rem(360 * k) % 360 = 0
<1> DEFINE b == 360 * k
<1>0. b \in Int
  OBVIOUS
<1> HIDE DEF b
<1>1. PICK j \in Int : Rem(b) = b - 360 * j
  BY <1>0, RemIs
<1> USE DEF b
<1>2. Rem(360 * k) = 360 * (k - j)
  BY <1>1
<1> DEFINE n == k - j
<1>3. n \in Int /\ (360 * n) % 360 = 0
  OBVIOUS
<1> QED
  BY <1>2, <1>3

\* An angle that is shifted and shifted back is the angle, up to turns.
LEMMA ThereAndBack ==
  ASSUME NEW a \in Int, NEW o \in Int
  PROVE  /\ Rem(Rem(a + o) - o) \in -180..180
         /\ \E k \in Int : Rem(Rem(a + o) - o) = a - 360 * k
<1> DEFINE b == a + o
           c == Rem(b) - o
<1>0. b \in Int
  OBVIOUS
<1> HIDE DEF b
<1>1. PICK k \in Int : Rem(b) = b - 360 * k
  BY <1>0, RemIs
<1>2. c \in Int
  BY <1>0, <1>1
<1> HIDE DEF c
<1>3. PICK j \in Int : Rem(c) = c - 360 * j
  BY <1>2, RemIs
<1>4. Rem(c) = a - 360 * (k + j)
  BY <1>1, <1>3 DEF b, c
<1>5. Rem(c) \in -180..180
  BY <1>2, RemIs
<1> USE DEF b, c
<1>6. k + j \in Int
  OBVIOUS
<1> QED
  BY <1>4, <1>5, <1>6

LEMMA GoToReadsBack ==
  ASSUME SkyAssumption, Sky, GoToSky
  PROVE  SamePlace(eq', asked')
<1> USE DEF EAST, WEST, AUTO
<1>1. PICK h \in HourAngles, d \in Declinations :
        LET m == Shifted(localEquatorialToMount([ha |-> h, dec |-> d], AUTO),
                         offset)
        IN  /\ axes' = [ra |-> m.ra, dec |-> m.dec]
            /\ asked' = [ha |-> h, dec |-> d]
  BY DEF GoToSky
<1>2. h \in Int /\ d \in -90..90
  BY DEF SkyAssumption
<1> DEFINE m == localEquatorialToMount([ha |-> h, dec |-> d], AUTO)
           offRa == offset.ra
           offDec == offset.dec
<1>3. offRa \in Int /\ offDec \in Int
  BY DEF Sky
<1>4. PICK kh \in Int : Rem(h) = h - 360 * kh
  BY <1>2, RemIs
<1>5. m = IF Rem(h) > 0 THEN MountCoordinates(90 - d, Rem(h) - 90, WEST)
          ELSE MountCoordinates(d - 90, Rem(h) + 90, EAST)
  BY DEF localEquatorialToMount
<1>6. /\ m.dec \in Int /\ m.ra \in Int
      /\ \/ m.dec = 90 - d /\ m.ra = Rem(h) - 90
         \/ m.dec = d - 90 /\ m.ra = Rem(h) + 90
  BY <1>2, <1>4, <1>5 DEF MountCoordinates
<1> HIDE DEF m
<1>7. axes' = [ra |-> Rem(m.ra + offRa), dec |-> Rem(m.dec + offDec)]
  BY <1>1 DEF Shifted, MountCoordinates, m
<1> DEFINE ud == Rem(Rem(m.dec + offDec) - offDec)
           ur == Rem(Rem(m.ra + offRa) - offRa)
<1>8. Unshifted(CurrPos, offset)' = MountCoordinates(ud, ur, AUTO)
  BY <1>7 DEF GoToSky, Unshifted, CurrPos, MountCoordinates
<1>9. eq' = IF ud > 0 THEN [ha |-> ur + 90, dec |-> 90 - ud]
            ELSE [ha |-> ur - 90, dec |-> 90 + ud]
  BY <1>8, GoToSky DEF GoToSky, ReadBack, mountToLocalEquatorial, MountCoordinates
<1> HIDE DEF offRa, offDec
<1>0. \A a \in Int, o \in Int :
        /\ Rem(Rem(a + o) - o) \in -180..180
        /\ \E k \in Int : Rem(Rem(a + o) - o) = a - 360 * k
  BY ThereAndBack
<1>10. PICK kd \in Int : ud = m.dec - 360 * kd /\ ud \in -180..180
  <2> DEFINE n == m.dec
  <2>1. n \in Int
    BY <1>6
  <2> HIDE DEF n
  <2>2. /\ Rem(Rem(n + offDec) - offDec) \in -180..180
        /\ \E k \in Int : Rem(Rem(n + offDec) - offDec) = n - 360 * k
    BY <1>3, <2>1, <1>0
  <2> QED
    BY <2>2 DEF n
<1>11. PICK kr \in Int : ur = m.ra - 360 * kr
  <2> DEFINE n == m.ra
  <2>1. n \in Int
    BY <1>6
  <2> HIDE DEF n
  <2>2. /\ Rem(Rem(n + offRa) - offRa) \in -180..180
        /\ \E k \in Int : Rem(Rem(n + offRa) - offRa) = n - 360 * k
    BY <1>3, <2>1, <1>0
  <2> QED
    BY <2>2 DEF n
<1> HIDE DEF ud, ur
<1>12. asked' = [ha |-> h, dec |-> d]
  BY <1>1
<1> DEFINE n == m.dec
<1>13. n \in Int /\ (n = 90 - d \/ n = d - 90)
  BY <1>6
<1>14. ud = n - 360 * kd /\ ud \in -180..180
  BY <1>10
<1> HIDE DEF n
<1>15. /\ n = 90 - d =>
            /\ ud > 0 => 90 - ud = d
            /\ ~(ud > 0) => 90 + ud = d /\ d \in {-90, 90}
       /\ n = d - 90 =>
            /\ ud > 0 => 90 - ud = d /\ d \in {-90, 90}
            /\ ~(ud > 0) => 90 + ud = d
  <2>1. kd \in -1..1
    BY <1>2, <1>13, <1>14
  <2> QED
    BY <1>2, <1>13, <1>14, <2>1
<1>16. eq'.dec = d
  BY <1>9, <1>13, <1>15
<1>17. ASSUME d \notin {-90, 90}
       PROVE  eq'.ha = h - 360 * (kh + kr)
  <2>1. CASE m.dec = 90 - d /\ m.ra = Rem(h) - 90
    <3>1. ud > 0
      BY <1>15, <1>17, <2>1 DEF n
    <3>2. eq'.ha = m.ra - 360 * kr + 90
      BY <1>9, <1>11, <3>1
    <3> QED
      BY <1>2, <1>4, <2>1, <3>2
  <2>2. CASE m.dec = d - 90 /\ m.ra = Rem(h) + 90
    <3>1. ~(ud > 0)
      BY <1>15, <1>17, <2>2 DEF n
    <3>2. eq'.ha = m.ra - 360 * kr - 90
      BY <1>9, <1>11, <3>1
    <3> QED
      BY <1>2, <1>4, <2>2, <3>2
  <2> QED
    BY <1>6, <2>1, <2>2
<1>18. ASSUME d \notin {-90, 90}
       PROVE  Rem(eq'.ha - h) % 360 = 0
  <2> DEFINE k == 0 - kh - kr
  <2>1. k \in Int /\ eq'.ha - h = 360 * k
    BY <1>2, <1>17, <1>18
  <2> HIDE DEF k
  <2> QED
    BY <2>1, RemOfTurns
<1> QED
  BY <1>12, <1>16, <1>18 DEF SamePlace

PointInv == Sky /\ PositionReadBack

THEOREM ReadsBack == PointSpec => []PositionReadBack
<1>1. PointInit => PointInv
  BY SkyAssumption DEF PointInit, PointInv, Sky, PositionReadBack, SkyAssumption
<1>2. PointInv /\ [PointNext]_pointVars => PointInv'
  <2> SUFFICES ASSUME PointInv, [PointNext]_pointVars PROVE PointInv'
    OBVIOUS
  <2>1. CASE GoToSky
    <3>1. SamePlace(eq', asked')
      BY <2>1, SkyAssumption, GoToReadsBack DEF PointInv
    <3> QED
      BY <2>1, <3>1 DEF PointInv, Sky, PositionReadBack, SamePlace, GoToSky
  <2>2. CASE GuideNorth
    BY <2>2 DEF GuideNorth, PointInv, Sky, PositionReadBack
  <2>3. CASE UNCHANGED pointVars
    BY <2>3 DEF pointVars, PointInv, Sky, PositionReadBack, SamePlace
  <2> QED
    BY <2>1, <2>2, <2>3 DEF PointNext
<1> QED
  BY <1>1, <1>2, PTL DEF PointSpec, PointInv

-----------------------------------------------------------------------------
(***************************************************************************)
(* Alignment: the list of stars, which one thread works on at a time.      *)
(***************************************************************************)
Working ==
  {"add", "store", "overrun", "replace", "delete", "remove", "clear", "reset",
   "recalibrate", "assign", "done"}

Entries ==
  [pc : Working \cup {"idle"}, op : {"none", "add", "replace", "delete", "clear"},
   star : Stars \cup {NoAlign.star}, index : Nat, fit : Seq(Stars),
   diverge : BOOLEAN,
   ret : {"osOK", "osErrorResource", "osErrorParameter", "ERR_PARAM_OUT_OF_RANGE"},
   before : Seq(Stars), alone : BOOLEAN]

AlignTypes ==
  /\ AlignTypeOK
  /\ al \in [Aligners -> Entries]
  /\ \A t \in Aligners : /\ al[t].pc \in Working => al[t].star \in Stars
                         /\ Len(al[t].fit) <= MaxStars

\* Whoever is alone is the only one at work.
Solitude ==
  \A t \in Aligners :
    al[t].pc # "idle" /\ al[t].alone =>
      \A u \in Aligners \ {t} : al[u].pc = "idle"

\* What an align knows that is alone, by its entry, the list and the
\* calibration.
Knows(e, stars, fitted) ==
  /\ e.pc \notin {"idle", "done"} => fitted = e.before
  /\ e.pc = "remove" => Len(stars) > 1
  /\ e.pc = "reset" => stars = <<>>
  /\ e.pc = "recalibrate" => stars # <<>>
  /\ e.pc = "assign" => e.fit = stars
  /\ e.pc = "done" =>
       fitted = IF e.ret = "osOK" THEN stars ELSE e.before

Knowledge == \A t \in Aligners : al[t].alone => Knows(al[t], alignment_stars, calibration)

AlignInv == AlignTypes /\ Solitude /\ Knowledge

LEMMA NoAlignIs == NoAlign \in Entries
  BY SMT, EmptySeq DEF NoAlign, Entries, Working

\* A turn of t: its entry but for alone, and who else is at work is not alone.
LEMMA TurnIs ==
  ASSUME al \in [Aligners -> Entries], NEW t \in Aligners, NEW e \in Entries,
         Turn(t, e)
  PROVE  /\ al' \in [Aligners -> Entries]
         /\ al'[t].pc = e.pc /\ al'[t].star = e.star /\ al'[t].fit = e.fit
         /\ al'[t].ret = e.ret /\ al'[t].before = e.before
         /\ al'[t].alone => e.alone /\ \A v \in Aligners \ {t} : al[v].pc = "idle"
         /\ \A u \in Aligners \ {t} :
              /\ al'[u].pc = al[u].pc /\ al'[u].star = al[u].star
              /\ al'[u].fit = al[u].fit
              /\ al[u].pc # "idle" => ~al'[u].alone
<1> DEFINE quiet == \A v \in Aligners \ {t} : al[v].pc = "idle"
           a == [e EXCEPT !.alone = @ /\ quiet]
<1>1. /\ quiet \in BOOLEAN /\ e.alone \in BOOLEAN
      /\ (e.alone /\ quiet) \in BOOLEAN
  BY DEF Entries
<1>2. a \in Entries
  BY <1>1, Zenon DEF Entries
<1>3. /\ a.pc = e.pc /\ a.star = e.star /\ a.fit = e.fit
      /\ a.ret = e.ret /\ a.before = e.before
      /\ a.alone = (e.alone /\ quiet)
  BY <1>1, Zenon DEF Entries
<1> HIDE DEF a
<1>4. \A u \in Aligners : al[u] \in Entries
  OBVIOUS
<1> DEFINE b(u) == [al[u] EXCEPT !.alone = FALSE]
<1>5. ASSUME NEW u \in Aligners
      PROVE  /\ b(u) \in Entries
             /\ b(u).pc = al[u].pc /\ b(u).star = al[u].star
             /\ b(u).fit = al[u].fit /\ ~b(u).alone
  BY <1>4, Zenon DEF Entries
<1>6. al' = [u \in Aligners |->
               IF u = t THEN a ELSE IF al[u].pc = "idle" THEN al[u] ELSE b(u)]
  BY DEF Turn, a
<1> HIDE DEF b, quiet
<1>7. al'[t] = a
  BY <1>6
<1>8. \A u \in Aligners \ {t} :
        al'[u] = IF al[u].pc = "idle" THEN al[u] ELSE b(u)
  BY <1>6
<1>9. al' \in [Aligners -> Entries]
  BY <1>2, <1>4, <1>5, <1>6
<1>10. ASSUME al'[t].alone
       PROVE  e.alone /\ quiet
  BY <1>3, <1>7, <1>10, Zenon
<1>11. ASSUME NEW u \in Aligners \ {t}
       PROVE  /\ al'[u].pc = al[u].pc /\ al'[u].star = al[u].star
              /\ al'[u].fit = al[u].fit
              /\ al[u].pc # "idle" => ~al'[u].alone
  <2>1. CASE al[u].pc = "idle"
    BY <1>8, <2>1, Zenon
  <2>2. CASE al[u].pc # "idle"
    BY <1>5, <1>8, <2>2, Zenon
  <2> QED
    BY <2>1, <2>2
<1> QED
  BY <1>3, <1>7, <1>9, <1>10, <1>11, Zenon DEF quiet

LEMMA TurnKeeps ==
  ASSUME AlignTypes, NEW t \in Aligners, NEW e \in Entries, Turn(t, e),
         e.pc \in Working => e.star \in Stars, Len(e.fit) <= MaxStars,
         AlignTypeOK', e.alone => Knows(e, alignment_stars', calibration')
  PROVE  AlignInv'
<1>1. /\ al' \in [Aligners -> Entries]
      /\ al'[t].pc = e.pc /\ al'[t].star = e.star /\ al'[t].fit = e.fit
      /\ al'[t].ret = e.ret /\ al'[t].before = e.before
      /\ al'[t].alone => e.alone /\ \A v \in Aligners \ {t} : al[v].pc = "idle"
      /\ \A u \in Aligners \ {t} :
           /\ al'[u].pc = al[u].pc /\ al'[u].star = al[u].star
           /\ al'[u].fit = al[u].fit
           /\ al[u].pc # "idle" => ~al'[u].alone
  <2>1. al \in [Aligners -> Entries]
    BY DEF AlignTypes
  <2> QED
    BY <2>1, TurnIs, Zenon
<1>2. AlignTypes'
  BY <1>1 DEF AlignTypes
<1>3. Solitude'
  <2>1. ASSUME NEW v \in Aligners, al'[v].pc # "idle", al'[v].alone,
               NEW u \in Aligners \ {v}
        PROVE  al'[u].pc = "idle"
    <3>1. v = t
      BY <1>1, <2>1, Zenon
    <3> QED
      BY <1>1, <2>1, <3>1, Zenon
  <2> QED
    BY <2>1, Zenon DEF Solitude
<1>4. Knowledge'
  <2>1. ASSUME NEW v \in Aligners, al'[v].alone, v # t
        PROVE  Knows(al'[v], alignment_stars', calibration')
    <3>1. al'[v].pc = "idle"
      BY <1>1, <2>1, Zenon
    <3> QED
      BY <3>1 DEF Knows
  <2>2. al'[t].alone => Knows(al'[t], alignment_stars', calibration')
    BY <1>1 DEF Knows
  <2> QED
    BY <2>1, <2>2, Zenon DEF Knowledge
<1> QED
  BY <1>2, <1>3, <1>4 DEF AlignInv

\* A turn from pc to pc.
LEMMA EntryIs ==
  ASSUME AlignInv, NEW t \in Aligners, al[t].pc # "idle"
  PROVE  /\ al[t] \in Entries /\ al[t].star \in Stars
         /\ Len(al[t].fit) <= MaxStars
         /\ al[t].alone => Knows(al[t], alignment_stars, calibration)
  BY DEF AlignInv, AlignTypes, Entries, Knowledge

LEMMA StepKeeps ==
  ASSUME AlignInv, NEW t \in Aligners, NEW pc \in Working, al[t].pc # "idle",
         Step(t, pc), UNCHANGED calibration,
         al[t].pc # "done", AlignTypeOK',
         pc # "assign" /\ pc # "done",
         al[t].alone /\ pc = "remove" => Len(alignment_stars') > 1,
         al[t].alone /\ pc = "reset" => alignment_stars' = <<>>,
         al[t].alone /\ pc = "recalibrate" => alignment_stars' # <<>>
  PROVE  AlignInv'
<1> DEFINE e == [al[t] EXCEPT !.pc = pc]
<1>1. /\ al[t] \in Entries /\ al[t].star \in Stars
      /\ Len(al[t].fit) <= MaxStars
      /\ al[t].alone => Knows(al[t], alignment_stars, calibration)
  BY EntryIs
<1>2. /\ e \in Entries /\ e.pc = pc /\ e.star = al[t].star
      /\ e.fit = al[t].fit /\ e.before = al[t].before
  BY <1>1, Zenon DEF Entries
<1>3. e.alone = al[t].alone
  BY <1>1, Zenon DEF Entries
<1>4. Turn(t, e)
  BY DEF Step
<1> HIDE DEF e
<1>5. ASSUME e.alone
      PROVE  Knows(e, alignment_stars', calibration')
  <2>1. al[t].alone
    BY <1>3, <1>5, Zenon
  <2>2. Knows(al[t], alignment_stars, calibration)
    BY <1>1, <2>1, Zenon
  <2> QED
    BY <1>2, <2>1, <2>2 DEF Knows
<1> QED
  BY <1>1, <1>2, <1>4, <1>5, TurnKeeps DEF AlignInv

LEMMA EndKeeps ==
  ASSUME AlignInv, NEW t \in Aligners, al[t].pc # "idle", al[t].pc # "done",
         NEW ret \in {"osOK", "osErrorResource", "osErrorParameter",
                      "ERR_PARAM_OUT_OF_RANGE"},
         Ends(t, ret), AlignTypeOK',
         al[t].alone /\ ret = "osOK" => calibration' = alignment_stars',
         al[t].alone /\ ret # "osOK" => calibration' = calibration
  PROVE  AlignInv'
<1> DEFINE e == [al[t] EXCEPT !.pc = "done", !.ret = ret]
<1>1. /\ al[t] \in Entries /\ al[t].star \in Stars
      /\ Len(al[t].fit) <= MaxStars
      /\ al[t].alone => Knows(al[t], alignment_stars, calibration)
  BY EntryIs
<1>2. /\ e \in Entries /\ e.pc = "done" /\ e.star = al[t].star
      /\ e.fit = al[t].fit /\ e.before = al[t].before /\ e.ret = ret
  BY <1>1, Zenon DEF Entries, Working
<1>3. e.alone = al[t].alone
  BY <1>1, Zenon DEF Entries
<1>4. Turn(t, e)
  BY DEF Ends
<1> HIDE DEF e
<1>5. ASSUME e.alone
      PROVE  Knows(e, alignment_stars', calibration')
  <2>1. al[t].alone
    BY <1>3, <1>5, Zenon
  <2>2. Knows(al[t], alignment_stars, calibration)
    BY <1>1, <2>1, Zenon
  <2> QED
    BY <1>2, <2>1, <2>2 DEF Knows
<1> QED
  BY <1>1, <1>2, <1>4, <1>5, TurnKeeps DEF AlignInv

LEMMA Commanded ==
  ASSUME AlignInv, NEW t \in Aligners, AlignCommand(t)
  PROVE  AlignInv'
<1>1. PICK op \in {"add", "replace", "delete", "clear"}, s \in Stars,
           i \in 1..MaxStars :
        Turn(t, [NoAlign EXCEPT !.pc = op, !.op = op, !.star = s, !.index = i,
                                !.before = calibration])
  BY DEF AlignCommand
<1> DEFINE e == [NoAlign EXCEPT !.pc = op, !.op = op, !.star = s, !.index = i,
                                !.before = calibration]
<1>2. calibration \in Seq(Stars) /\ i \in Nat
  BY DEF AlignInv, AlignTypes, AlignTypeOK
<1>3. /\ e \in Entries /\ e.pc = op /\ e.star = s /\ e.before = calibration
      /\ e.fit = <<>>
  BY <1>2, NoAlignIs DEF Entries, NoAlign, Working
<1> HIDE DEF e
<1>4. AlignTypeOK' /\ Knows(e, alignment_stars', calibration') /\ Len(e.fit) <= MaxStars
  BY <1>3, StarAssumption DEF AlignInv, AlignTypes, AlignTypeOK, AlignCommand, Knows,
                              StarAssumption
<1> QED
  BY <1>1, <1>3, <1>4, TurnKeeps DEF AlignInv, e

LEMMA Listed ==
  ASSUME AlignInv, NEW t \in Aligners,
         AddCheck(t) \/ AddStore(t) \/ AddOverrun(t) \/ Replace(t)
  PROVE  AlignInv'
<1> USE DEF Working, AlignTypeOK
<1>1. /\ alignment_stars \in Seq(Stars) /\ Len(alignment_stars) <= MaxStars
      /\ calibration \in Seq(Stars) /\ Len(calibration) <= MaxStars
  BY DEF AlignInv, AlignTypes
<1>2. CASE AddCheck(t)
  BY <1>1, <1>2, StepKeeps, EndKeeps DEF AddCheck
<1>3. CASE AddStore(t)
  <2>1. al[t].star \in Stars
    BY <1>3, EntryIs DEF AddStore
  <2>2. /\ alignment_stars' \in Seq(Stars)
        /\ Len(alignment_stars') = Len(alignment_stars) + 1
        /\ alignment_stars' # <<>>
    BY <1>1, <1>3, <2>1 DEF AddStore
  <2> QED
    BY <1>1, <1>3, <2>2, StarAssumption, StepKeeps DEF AddStore, num_alignment_stars,
       StarAssumption
<1>4. CASE AddOverrun(t)
  BY <1>1, <1>4, StepKeeps DEF AddOverrun
<1>5. CASE Replace(t)
  <2>1. al[t].star \in Stars
    BY <1>5, EntryIs DEF Replace
  <2>2. CASE al[t].index \in 1..num_alignment_stars /\ Step(t, "recalibrate")
    <3>1. /\ alignment_stars' \in Seq(Stars)
          /\ Len(alignment_stars') = Len(alignment_stars)
          /\ alignment_stars' # <<>>
      BY <1>1, <1>5, <2>1, <2>2 DEF Replace, num_alignment_stars
    <3> QED
      BY <1>1, <1>5, <2>2, <3>1, StepKeeps DEF Replace
  <2>3. CASE Ends(t, "osErrorParameter") /\ UNCHANGED alignment_stars
    BY <1>1, <1>5, <2>3, EndKeeps DEF Replace
  <2> QED
    BY <1>5, <2>2, <2>3 DEF Replace
<1> QED
  BY <1>2, <1>3, <1>4, <1>5

LEMMA Shorter ==
  ASSUME NEW S, NEW s \in Seq(S), NEW i \in 1..Len(s)
  PROVE  /\ SubSeq(s, 1, i - 1) \in Seq(S) /\ Len(SubSeq(s, 1, i - 1)) = i - 1
         /\ SubSeq(s, i + 1, Len(s)) \in Seq(S)
         /\ Len(SubSeq(s, i + 1, Len(s))) = Len(s) - i
<1>1. /\ Len(s) \in Nat /\ i \in Int /\ 1 <= i /\ i <= Len(s)
      /\ \A j \in 1..Len(s) : s[j] \in S
  OBVIOUS
<1> DEFINE m == i - 1
           n == i + 1
           l == Len(s)
<1>2. /\ m \in Int /\ n \in Int /\ l \in Int
      /\ \A j \in 1..m : s[j] \in S
      /\ \A j \in n..l : s[j] \in S
  BY <1>1
<1> HIDE DEF m, n, l
<1>3. /\ SubSeq(s, 1, m) \in Seq(S)
      /\ Len(SubSeq(s, 1, m)) = IF 1 <= m THEN m - 1 + 1 ELSE 0
  BY <1>2, SubSeqProperties
<1>4. /\ SubSeq(s, n, l) \in Seq(S)
      /\ Len(SubSeq(s, n, l)) = IF n <= l THEN l - n + 1 ELSE 0
  BY <1>2, SubSeqProperties
<1>5. /\ (IF 1 <= m THEN m - 1 + 1 ELSE 0) = i - 1
      /\ (IF n <= l THEN l - n + 1 ELSE 0) = Len(s) - i
  BY <1>1 DEF m, n, l
<1> QED
  BY <1>3, <1>4, <1>5 DEF m, n, l

LEMMA Shortened ==
  ASSUME AlignInv, NEW t \in Aligners,
         Delete(t) \/ RemoveStar(t) \/ Clear(t) \/ ClearReset(t)
  PROVE  AlignInv'
<1> USE DEF Working, AlignTypeOK
<1>1. /\ alignment_stars \in Seq(Stars) /\ Len(alignment_stars) <= MaxStars
      /\ calibration \in Seq(Stars) /\ Len(calibration) <= MaxStars
  BY DEF AlignInv, AlignTypes
<1>2. CASE Delete(t)
  BY <1>1, <1>2, StepKeeps, EndKeeps DEF Delete, num_alignment_stars
<1>3. CASE RemoveStar(t)
  <2>1. CASE al[t].index \in 1..num_alignment_stars /\ Step(t, "recalibrate")
    <3> DEFINE s == alignment_stars
               i == al[t].index
    <3>1. /\ s \in Seq(Stars) /\ i \in 1..Len(s)
          /\ alignment_stars' = SubSeq(s, 1, i - 1) \o SubSeq(s, i + 1, Len(s))
      BY <1>1, <1>3, <2>1 DEF RemoveStar, RemoveAt, num_alignment_stars
    <3>2. /\ SubSeq(s, 1, i - 1) \in Seq(Stars) /\ Len(SubSeq(s, 1, i - 1)) = i - 1
          /\ SubSeq(s, i + 1, Len(s)) \in Seq(Stars)
          /\ Len(SubSeq(s, i + 1, Len(s))) = Len(s) - i
      BY <3>1, Shorter
    <3> DEFINE before == SubSeq(s, 1, i - 1)
               behind == SubSeq(s, i + 1, Len(s))
    <3> HIDE DEF before, behind
    <3>3. /\ before \o behind \in Seq(Stars)
          /\ Len(before \o behind) = Len(s) - 1
      <4>1. /\ before \in Seq(Stars) /\ Len(before) = i - 1
            /\ behind \in Seq(Stars) /\ Len(behind) = Len(s) - i
        BY <3>2 DEF before, behind
      <4>2. /\ before \o behind \in Seq(Stars)
            /\ Len(before \o behind) = Len(before) + Len(behind)
        BY <4>1, ConcatProperties
      <4> QED
        BY <3>1, <4>1, <4>2
    <3>6. alignment_stars' = before \o behind
      BY <3>1 DEF before, behind
    <3>4. al[t].alone => Len(s) > 1
      BY <1>3, EntryIs DEF RemoveStar, Knows
    <3>5. al[t].alone => alignment_stars' # <<>>
      BY <1>1, <3>3, <3>4, <3>6
    <3>7. AlignTypeOK'
      <4>1. alignment_stars' \in Seq(Stars) /\ Len(alignment_stars') = Len(s) - 1
        BY <3>3, <3>6
      <4>2. Len(alignment_stars') <= MaxStars
        BY <1>1, <4>1, StarAssumption DEF StarAssumption
      <4> QED
        BY <1>1, <1>3, <4>1, <4>2 DEF RemoveStar
    <3> QED
      BY <1>3, <2>1, <3>5, <3>7, StepKeeps DEF RemoveStar
  <2>2. CASE Ends(t, "osErrorParameter") /\ UNCHANGED alignment_stars
    BY <1>1, <1>3, <2>2, EndKeeps DEF RemoveStar
  <2> QED
    BY <1>3, <2>1, <2>2 DEF RemoveStar
<1>4. CASE Clear(t)
  BY <1>1, <1>4, EmptySeq, StarAssumption, StepKeeps DEF Clear, StarAssumption
<1>5. CASE ClearReset(t)
  <2>1. al[t].alone => alignment_stars = <<>>
    BY <1>5, EntryIs DEF ClearReset, Knows
  <2> QED
    BY <1>1, <1>5, <2>1, EmptySeq, StarAssumption, EndKeeps DEF ClearReset, StarAssumption
<1> QED
  BY <1>2, <1>3, <1>4, <1>5

LEMMA Fitted ==
  ASSUME AlignInv, NEW t \in Aligners, Fit(t) \/ Assign(t) \/ AlignAnswer(t)
  PROVE  AlignInv'
<1> USE DEF Working, AlignTypeOK
<1>1. /\ alignment_stars \in Seq(Stars) /\ Len(alignment_stars) <= MaxStars
      /\ calibration \in Seq(Stars) /\ Len(calibration) <= MaxStars
  BY DEF AlignInv, AlignTypes
<1>2. ASSUME al[t].pc # "idle"
      PROVE  /\ al[t] \in Entries /\ al[t].star \in Stars
             /\ Len(al[t].fit) <= MaxStars
             /\ al[t].alone => Knows(al[t], alignment_stars, calibration)
  BY <1>2, EntryIs
<1>3. CASE Fit(t)
  <2>1. CASE alignment_stars = <<>>
    <3>1. ~al[t].alone
      BY <1>2, <1>3, <2>1 DEF Fit, Knows
    <3> QED
      BY <1>1, <1>3, <2>1, <3>1, EndKeeps DEF Fit
  <2>2. CASE alignment_stars # <<>>
    <3>1. PICK d \in BOOLEAN :
            Turn(t, [al[t] EXCEPT !.pc = "assign", !.fit = alignment_stars,
                                  !.diverge = d])
      BY <1>3, <2>2 DEF Fit
    <3> DEFINE e == [al[t] EXCEPT !.pc = "assign", !.fit = alignment_stars,
                                  !.diverge = d]
    <3>2. al[t] \in Entries /\ al[t].pc = "recalibrate"
      BY <1>2, <1>3 DEF Fit
    <3>3. /\ e \in Entries /\ e.pc = "assign" /\ e.star = al[t].star
          /\ e.fit = alignment_stars /\ e.before = al[t].before
      BY <1>1, <3>1, <3>2, Zenon DEF Entries
    <3>4. e.alone = al[t].alone
      BY <3>2, Zenon DEF Entries
    <3> HIDE DEF e
    <3>5. ASSUME e.alone
          PROVE  Knows(e, alignment_stars', calibration')
      <4>1. al[t].alone
        BY <3>4, <3>5, Zenon
      <4>2. Knows(al[t], alignment_stars, calibration)
        BY <1>2, <3>2, <4>1
      <4> QED
        BY <1>3, <3>2, <3>3, <4>2 DEF Knows, Fit
    <3>6. AlignTypeOK'
      BY <1>1, <1>3 DEF Fit
    <3> QED
      BY <1>1, <1>2, <3>1, <3>2, <3>3, <3>5, <3>6, TurnKeeps DEF AlignInv, e
  <2> QED
    BY <2>1, <2>2
<1>4. CASE Assign(t)
  <2>1. /\ al[t].fit \in Seq(Stars) /\ Len(al[t].fit) <= MaxStars
        /\ al[t].alone => al[t].fit = alignment_stars
    BY <1>2, <1>4 DEF Assign, Entries, Knows
  <2>2. CASE Ends(t, "osErrorParameter") /\ UNCHANGED calibration
    BY <1>1, <1>4, <2>2, EndKeeps DEF Assign
  <2>3. CASE calibration' = al[t].fit /\ Ends(t, "osOK")
    BY <1>1, <1>4, <2>1, <2>3, EndKeeps DEF Assign
  <2> QED
    BY <1>4, <2>2, <2>3 DEF Assign
<1>5. CASE AlignAnswer(t)
  <2>1. /\ NoAlign \in Entries /\ NoAlign.pc = "idle" /\ Len(NoAlign.fit) <= MaxStars
    BY NoAlignIs, StarAssumption DEF NoAlign, StarAssumption
  <2>2. Knows(NoAlign, alignment_stars', calibration')
    BY <2>1 DEF Knows
  <2> QED
    BY <1>1, <1>5, <2>1, <2>2, TurnKeeps DEF AlignAnswer, AlignInv
<1> QED
  BY <1>3, <1>4, <1>5

THEOREM AlignInvariant == AlignSpec => []AlignInv
<1>1. AlignInit => AlignInv
  <2> SUFFICES ASSUME AlignInit PROVE AlignInv
    OBVIOUS
  <2>1. AlignTypeOK
    BY EmptySeq, StarAssumption DEF AlignInit, AlignTypeOK, StarAssumption
  <2>2. \A t \in Aligners : al[t] = NoAlign
    BY DEF AlignInit
  <2>3. al \in [Aligners -> Entries]
    BY NoAlignIs DEF AlignInit
  <2>4. NoAlign.pc = "idle" /\ NoAlign.fit = <<>>
    BY DEF NoAlign
  <2>5. AlignTypes
    BY <2>1, <2>2, <2>3, <2>4, EmptySeq, StarAssumption
       DEF AlignTypes, Working, StarAssumption
  <2>6. Solitude /\ Knowledge
    BY <2>2, <2>4 DEF Solitude, Knowledge, Knows
  <2> QED
    BY <2>5, <2>6 DEF AlignInv
<1>2. AlignInv /\ [AlignNext]_alignVars => AlignInv'
  <2> SUFFICES ASSUME AlignInv, [AlignNext]_alignVars PROVE AlignInv'
    OBVIOUS
  <2>1. CASE UNCHANGED alignVars
    BY <2>1 DEF alignVars, AlignInv, AlignTypes, AlignTypeOK, Solitude, Knowledge
  <2>2. CASE AlignNext
    BY <2>2, Commanded, Listed, Shortened, Fitted DEF AlignNext
  <2> QED
    BY <2>1, <2>2
<1> QED
  BY <1>1, <1>2, PTL DEF AlignSpec

THEOREM Aligned == AlignSpec => []AlignedAlone
<1>1. AlignInv => AlignedAlone
  BY DEF AlignInv, Knowledge, Knows, AlignedAlone
<1> QED
  BY <1>1, AlignInvariant, PTL

THEOREM ListTyped == AlignSpec => []AlignTypeOK
<1>1. AlignInv => AlignTypeOK
  BY DEF AlignInv, AlignTypes
<1> QED
  BY <1>1, AlignInvariant, PTL

-----------------------------------------------------------------------------
(***************************************************************************)
(* Configuration: what `save` prints is what the next boot reads.          *)
(***************************************************************************)
Spellings == {"int", "real", "bool", "word", "none"}

\* The type that a line of the file gives an item.
TypeRead(n, line) ==
  IF n \in DOMAIN Table THEN Table[n].type ELSE Inferred(line)

\* An item is of the type its table gives it; a Boolean is 0 or 1, and a
\* string that the table does not have is spelt as the line it came from.
Sound(n, type, value, spelt) ==
  /\ type \in Types /\ value \in Int /\ spelt \in Spellings
  /\ n \in DOMAIN Table => type = Table[n].type
  /\ n \in DOMAIN Table \cup ExtraNames
  /\ type = "BOOL" => value \in {0, 1}
  /\ type = "STRING" /\ n \notin DOMAIN Table =>
       /\ spelt # "none"
       /\ spelt = "bool" => value \in {0, 1}

SoundItem(n, item) == Sound(n, item.type, item.value, item.spelt)

Restored(item) == IF item.type = "DOUBLE" THEN Rounded(item.value) ELSE item.value

ItemsSound ==
  /\ DOMAIN Table \subseteq DOMAIN items
  /\ \A n \in DOMAIN items :
       /\ SoundItem(n, items[n])
       /\ DOMAIN items[n] = {"type", "value", "spelt", "extra"}
       /\ items[n].extra = (n \notin DOMAIN Table)

FileSound ==
  /\ DOMAIN file = DOMAIN written
  /\ \A n \in DOMAIN written :
       SoundItem(n, written[n]) /\ file[n] = Printed(written[n])

\* What a boot has read.
ReadSoFar ==
  config = "booting" =>
    /\ todo \subseteq DOMAIN FileRead
    /\ DOMAIN items = DOMAIN Table \cup (DOMAIN FileRead \ todo)
    /\ saved => \A n \in DOMAIN written \ todo :
                  items[n].value = Restored(written[n])

ConfigInv ==
  /\ ItemsSound /\ FileSound /\ ReadSoFar
  /\ config = "saving" => todo \subseteq DOMAIN items
  /\ config \in {"booting", "running", "saving", "error"}

LEMMA RoundedIs == ASSUME NEW v \in Int PROVE Rounded(v) \in Int
<1>1. (v + 5) \div 10 \in Int
  OBVIOUS
<1> QED
  BY <1>1 DEF Rounded

\* An item is read as it was printed, a DOUBLE to eight decimals.
LEMMA PrintedIs ==
  ASSUME NEW item, NEW n, SoundItem(n, item)
  PROVE  /\ Printed(item) = [spelt |-> Printed(item).spelt, number |-> Restored(item)]
         /\ Restored(item) \in Int
         /\ item.type = "INT" => Printed(item).spelt = "int"
         /\ item.type = "DOUBLE" => Printed(item).spelt = "real"
         /\ item.type = "BOOL" => Printed(item).spelt = "bool"
         /\ item.type = "STRING" => Printed(item).spelt = item.spelt
<1> DEFINE v == item.value
<1>1. v \in Int /\ Rounded(v) \in Int
  BY RoundedIs DEF SoundItem, Sound
<1>2. item.type \in {"INT", "DOUBLE", "BOOL", "STRING"}
  BY DEF SoundItem, Sound, Types
<1>3. CASE item.type = "INT"
  BY <1>1, <1>3 DEF Printed, Restored
<1>4. CASE item.type = "DOUBLE"
  BY <1>1, <1>4 DEF Printed, Restored
<1>5. CASE item.type = "BOOL"
  BY <1>1, <1>5 DEF Printed, Restored
<1>6. CASE item.type = "STRING"
  BY <1>1, <1>6 DEF Printed, Restored
<1> QED
  BY <1>2, <1>3, <1>4, <1>5, <1>6

\* What a line makes of an item: a sound item, and after a save the item that
\* was written.
LEMMA ParsedIs ==
  ASSUME ConfigAssumption, NEW n \in DOMAIN Table \cup ExtraNames, NEW text,
         \/ text \in Line
         \/ /\ text.spelt \in Spellings /\ text.number \in Int
            /\ n \in DOMAIN Table,
         NEW type \in Types, n \in DOMAIN Table => type = Table[n].type
  PROVE  Sound(n, type, Parsed(type, text), Spelling(type, text))
<1>1. text.spelt \in Spellings /\ text.number \in Int
  BY DEF Line, Spellings
<1>2. n \notin DOMAIN Table =>
        /\ text.spelt \in {"int", "real", "word", "bool"}
        /\ text.spelt = "bool" => text.number \in {0, 1}
  BY DEF Line
<1>4. (text.number \div One) * One \in Int
  <2>1. One \in Int /\ One > 0
    BY DEF ConfigAssumption
  <2>2. text.number \div One \in Int
    BY <1>1, <2>1
  <2> QED
    BY <2>1, <2>2
<1>5. ToInt(text) \in Int /\ ToDouble(text) \in Int
  <2> DEFINE cut == (text.number \div One) * One
  <2>1. ToInt(text) = CASE text.spelt = "int" -> text.number
                        [] text.spelt = "real" -> cut [] OTHER -> 0
    BY DEF ToInt
  <2> HIDE DEF cut
  <2>2. ToInt(text) \in {text.number, cut, 0}
    BY <1>1, <2>1 DEF Spellings
  <2>3. ToDouble(text) \in {text.number, 0}
    BY DEF ToDouble
  <2> QED
    BY <1>1, <1>4, <2>2, <2>3 DEF cut
<1>6. Parsed(type, text) \in Int /\ (type = "BOOL" => Parsed(type, text) \in {0, 1})
  <2>1. CASE type = "INT"
    BY <1>5, <2>1 DEF Parsed
  <2>2. CASE type = "DOUBLE"
    BY <1>5, <2>2 DEF Parsed
  <2>3. CASE type = "BOOL"
    BY <2>3 DEF Parsed
  <2>4. CASE type = "STRING"
    BY <1>1, <2>4 DEF Parsed
  <2> QED
    BY <2>1, <2>2, <2>3, <2>4 DEF Types
<1>7. type = "STRING" => /\ Parsed(type, text) = text.number
                         /\ Spelling(type, text) = text.spelt
  BY DEF Parsed, Spelling
<1>8. Spelling(type, text) \in Spellings
  BY <1>1 DEF Spelling, Spellings
<1>9. type = "STRING" /\ n \notin DOMAIN Table =>
        /\ Spelling(type, text) # "none"
        /\ Spelling(type, text) = "bool" => Parsed(type, text) \in {0, 1}
  BY <1>2, <1>7
<1> QED
  BY <1>6, <1>8, <1>9 DEF Sound

LEMMA TypeReadIs ==
  ASSUME ConfigAssumption, NEW n, NEW text,
         text \in Line \/ n \in DOMAIN Table
  PROVE  /\ TypeRead(n, text) \in Types
         /\ n \in DOMAIN Table => TypeRead(n, text) = Table[n].type
<1>1. n \notin DOMAIN Table => text.spelt \in {"int", "real", "word", "bool"}
  BY DEF Line
<1> QED
  BY <1>1 DEF ConfigAssumption, TypeRead, Types, Inferred

LEMMA ReadIsWritten ==
  ASSUME ConfigAssumption, NEW n, NEW item, SoundItem(n, item)
  PROVE  /\ Printed(item) \in Line \/ n \in DOMAIN Table
         /\ Printed(item).spelt \in Spellings /\ Printed(item).number \in Int
         /\ Parsed(TypeRead(n, Printed(item)), Printed(item)) = Restored(item)
<1> DEFINE line == Printed(item)
           v == Restored(item)
           type == TypeRead(n, line)
<1>1. /\ line = [spelt |-> line.spelt, number |-> v] /\ v \in Int
      /\ item.type = "INT" => line.spelt = "int"
      /\ item.type = "DOUBLE" => line.spelt = "real"
      /\ item.type = "BOOL" => line.spelt = "bool"
      /\ item.type = "STRING" => line.spelt = item.spelt
  BY PrintedIs
<1>2. /\ item.type \in {"INT", "DOUBLE", "BOOL", "STRING"}
      /\ item.spelt \in Spellings
      /\ n \in DOMAIN Table => item.type = Table[n].type
      /\ item.type = "BOOL" => item.value \in {0, 1}
      /\ item.type = "STRING" /\ n \notin DOMAIN Table =>
           /\ item.spelt # "none"
           /\ item.spelt = "bool" => item.value \in {0, 1}
  BY DEF SoundItem, Sound, Types
<1>3. item.type # "DOUBLE" => v = item.value
  BY DEF Restored
<1>4. n \in DOMAIN Table => type = item.type
  BY <1>2 DEF TypeRead
<1>5. n \notin DOMAIN Table => type = Inferred(line)
  BY DEF TypeRead
<1> HIDE DEF line, v, type
<1>6. line.number = v
  BY <1>1
<1>7. line.spelt \in Spellings
  BY <1>1, <1>2 DEF Spellings
<1>8. line \in Line \/ n \in DOMAIN Table
  BY <1>1, <1>2, <1>3 DEF Line, Spellings
<1>9. line.spelt = "bool" /\ n \notin DOMAIN Table => v \in {0, 1}
  BY <1>1, <1>2, <1>3
<1>10. Parsed(type, line) = v
  <2>1. CASE n \in DOMAIN Table
    BY <1>1, <1>2, <1>3, <1>4, <1>6, <2>1 DEF Parsed, ToInt, ToDouble, IsTrue
  <2>2. CASE n \notin DOMAIN Table /\ line.spelt = "int"
    BY <1>5, <1>6, <2>2 DEF Parsed, ToInt, Inferred
  <2>3. CASE n \notin DOMAIN Table /\ line.spelt = "real"
    BY <1>5, <1>6, <2>3 DEF Parsed, ToDouble, Inferred
  <2>4. CASE n \notin DOMAIN Table /\ line.spelt = "bool"
    BY <1>5, <1>6, <1>9, <2>4 DEF Parsed, IsTrue, Inferred
  <2>5. CASE n \notin DOMAIN Table /\ line.spelt = "word"
    BY <1>5, <1>6, <2>5 DEF Parsed, Inferred
  <2>6. n \notin DOMAIN Table => line.spelt # "none"
    BY <1>1, <1>2
  <2> QED
    BY <1>7, <2>1, <2>2, <2>3, <2>4, <2>5, <2>6 DEF Spellings
<1> QED
  BY <1>1, <1>6, <1>7, <1>8, <1>10 DEF line, v, type

LEMMA BootKeeps ==
  ASSUME ConfigAssumption, items' = Defaults
  PROVE  ItemsSound' /\ DOMAIN items' = DOMAIN Table
<1>1. ASSUME NEW n \in DOMAIN Table
      PROVE  /\ Defaults[n].type = Table[n].type /\ Defaults[n].value = Table[n].value
             /\ Defaults[n].spelt = "none" /\ Defaults[n].extra = FALSE
             /\ DOMAIN Defaults[n] = {"type", "value", "spelt", "extra"}
  BY DEF Defaults
<1>2. DOMAIN Defaults = DOMAIN Table
  BY DEF Defaults
<1>3. ASSUME NEW n \in DOMAIN Table
      PROVE  SoundItem(n, Defaults[n])
  BY <1>1, <1>3 DEF SoundItem, Sound, ConfigAssumption, Spellings
<1> QED
  BY <1>1, <1>2, <1>3 DEF ItemsSound

LEMMA ReadKeeps ==
  ASSUME ConfigAssumption, ConfigInv, ReadLine
  PROVE  ConfigInv'
<1>1. PICK n \in todo : SetConfig(n, FileRead[n]) /\ todo' = todo \ {n}
  BY DEF ReadLine
<1>2. /\ ItemsSound /\ FileSound /\ config = "booting"
      /\ todo \subseteq DOMAIN FileRead
      /\ DOMAIN items = DOMAIN Table \cup (DOMAIN FileRead \ todo)
      /\ saved => \A m \in DOMAIN written \ todo :
                    items[m].value = Restored(written[m])
      /\ UNCHANGED <<file, saved, written>>
  BY DEF ConfigInv, ReadSoFar, ReadLine
<1> DEFINE text == FileRead[n]
           type == TypeRead(n, text)
           value == Parsed(type, text)
           spelt == Spelling(type, text)
           extra == n \in DOMAIN items => items[n].extra
           item == [type |-> type, value |-> value, spelt |-> spelt,
                    extra |-> extra]
<1>3. n \in DOMAIN items <=> n \in DOMAIN Table
  BY <1>1, <1>2
<1>4. n \in DOMAIN FileRead
  BY <1>1, <1>2
<1>5. /\ n \in DOMAIN Table \cup ExtraNames
      /\ \/ text \in Line
         \/ /\ text.spelt \in Spellings /\ text.number \in Int
            /\ n \in DOMAIN Table
      /\ saved => n \in DOMAIN written /\ value = Restored(written[n])
  <2>1. CASE saved
    <3>1. /\ n \in DOMAIN written /\ SoundItem(n, written[n])
          /\ text = Printed(written[n])
      BY <1>2, <1>4, <2>1 DEF FileSound, FileRead
    <3>2. n \in DOMAIN Table \cup ExtraNames
      BY <3>1 DEF SoundItem, Sound
    <3> QED
      BY <2>1, <3>1, <3>2, ReadIsWritten
  <2>2. CASE ~saved
    BY <1>4, <2>2 DEF ConfigAssumption, FileRead
  <2> QED
    BY <2>1, <2>2
<1>6. type \in Types /\ (n \in DOMAIN Table => type = Table[n].type)
  BY <1>5, TypeReadIs
<1>7. Sound(n, type, value, spelt)
  BY <1>5, <1>6, ParsedIs
<1>8. extra = (n \notin DOMAIN Table)
  BY <1>2, <1>3, Zenon DEF ItemsSound
<1>9. items' = With(items, n, item) /\ config' \in {"booting", "error"}
  <2>1. (IF n \in DOMAIN items THEN items[n].type ELSE Inferred(text)) = type
    BY <1>2, <1>3 DEF ItemsSound, SoundItem, Sound, TypeRead
  <2> QED
    BY <1>1, <2>1 DEF SetConfig
<1> HIDE DEF extra, type, value, spelt
<1>10. /\ item.type = type /\ item.value = value /\ item.spelt = spelt
       /\ DOMAIN item = {"type", "value", "spelt", "extra"}
  OBVIOUS
<1>11. item.extra = (n \notin DOMAIN Table)
  <2>1. item.extra = extra
    OBVIOUS
  <2> QED
    BY <1>8, <2>1, Zenon
<1> HIDE DEF item
<1>12. /\ DOMAIN items' = DOMAIN items \cup {n} /\ items'[n] = item
       /\ \A m \in DOMAIN items \ {n} : items'[m] = items[m]
  BY <1>9 DEF With
<1>13. ItemsSound'
  <2>1. DOMAIN Table \subseteq DOMAIN items'
    BY <1>2, <1>12
  <2>2. ASSUME NEW m \in DOMAIN items'
        PROVE  /\ SoundItem(m, items'[m])
               /\ DOMAIN items'[m] = {"type", "value", "spelt", "extra"}
               /\ items'[m].extra = (m \notin DOMAIN Table)
    <3>1. CASE m = n
      <4>1. SoundItem(m, items'[m])
        BY <1>7, <1>10, <1>12, <3>1 DEF SoundItem
      <4> QED
        BY <1>10, <1>11, <1>12, <3>1, <4>1, Zenon
    <3>2. CASE m # n
      <4>1. m \in DOMAIN items /\ items'[m] = items[m]
        BY <1>12, <3>2
      <4> QED
        BY <1>2, <4>1, Zenon DEF ItemsSound
    <3> QED
      BY <3>1, <3>2
  <2> QED
    BY <2>1, <2>2, Zenon DEF ItemsSound
<1>14. FileSound'
  BY <1>2 DEF FileSound
<1>15. ReadSoFar'
  <2>1. FileRead' = FileRead
    BY <1>2 DEF FileRead
  <2>2. saved => DOMAIN FileRead = DOMAIN written
    BY <1>2 DEF FileRead, FileSound
  <2>3. DOMAIN items' = DOMAIN Table \cup (DOMAIN FileRead \ todo')
    BY <1>1, <1>2, <1>4, <1>12
  <2>4. ASSUME saved, NEW m \in DOMAIN written \ todo'
        PROVE  items'[m].value = Restored(written[m])
    <3>1. CASE m = n
      BY <1>5, <1>10, <1>12, <2>4, <3>1
    <3>2. CASE m # n
      BY <1>1, <1>2, <1>12, <2>2, <2>4, <3>2
    <3> QED
      BY <3>1, <3>2
  <2>5. todo' \subseteq DOMAIN FileRead
    BY <1>1, <1>2
  <2> QED
    BY <1>2, <2>1, <2>3, <2>4, <2>5 DEF ReadSoFar
<1> QED
  BY <1>9, <1>13, <1>14, <1>15 DEF ConfigInv

LEMMA CommandKeeps ==
  ASSUME ConfigAssumption, ConfigInv, ConfigCommand
  PROVE  ConfigInv'
<1>1. /\ ItemsSound /\ FileSound /\ config \in {"running", "saving"}
      /\ UNCHANGED <<file, saved, config, todo, written>>
  BY DEF ConfigInv, ConfigCommand
<1>2. CASE UNCHANGED items
  BY <1>1, <1>2 DEF ConfigInv, ItemsSound, FileSound, ReadSoFar
<1>3. ASSUME NEW n \in DOMAIN items, NEW text \in Texts,
             items' = [items EXCEPT
                         ![n].value = Parsed(items[n].type, text),
                         ![n].spelt = Spelling(items[n].type, text)]
      PROVE  ConfigInv'
  <2> DEFINE type == items[n].type
             value == Parsed(type, text)
             spelt == Spelling(type, text)
             item == [items[n] EXCEPT !.value = value, !.spelt = spelt]
  <2>1. /\ SoundItem(n, items[n])
        /\ DOMAIN items[n] = {"type", "value", "spelt", "extra"}
        /\ items[n].extra = (n \notin DOMAIN Table)
    BY <1>1, Zenon DEF ItemsSound
  <2>2. Sound(n, type, value, spelt)
    <3>1. /\ text \in Line /\ n \in DOMAIN Table \cup ExtraNames
          /\ type \in Types
          /\ n \in DOMAIN Table => type = Table[n].type
      BY <2>1 DEF SoundItem, Sound, ConfigAssumption
    <3> HIDE DEF type
    <3> QED
      BY <3>1, ParsedIs
  <2> HIDE DEF value, spelt
  <2>3. /\ item.type = type /\ item.value = value /\ item.spelt = spelt
        /\ item.extra = items[n].extra
        /\ DOMAIN item = {"type", "value", "spelt", "extra"}
    BY <2>1
  <2>4. /\ DOMAIN items' = DOMAIN items /\ items'[n] = item
        /\ \A m \in DOMAIN items \ {n} : items'[m] = items[m]
    BY <1>3 DEF value, spelt
  <2> HIDE DEF item
  <2>5. ASSUME NEW m \in DOMAIN items'
        PROVE  /\ SoundItem(m, items'[m])
               /\ DOMAIN items'[m] = {"type", "value", "spelt", "extra"}
               /\ items'[m].extra = (m \notin DOMAIN Table)
    <3>1. CASE m = n
      <4>1. SoundItem(m, items'[m])
        BY <2>2, <2>3, <2>4, <3>1 DEF SoundItem
      <4> QED
        BY <2>1, <2>3, <2>4, <3>1, <4>1, Zenon
    <3>2. CASE m # n
      <4>1. m \in DOMAIN items /\ items'[m] = items[m]
        BY <2>4, <3>2
      <4> QED
        BY <1>1, <4>1, Zenon DEF ItemsSound
    <3> QED
      BY <3>1, <3>2
  <2>6. ItemsSound'
    BY <1>1, <2>4, <2>5, Zenon DEF ItemsSound
  <2> QED
    BY <1>1, <2>4, <2>6 DEF ConfigInv, FileSound, ReadSoFar
<1> QED
  BY <1>2, <1>3 DEF ConfigCommand

LEMMA WriteKeeps ==
  ASSUME ConfigInv, WriteLine
  PROVE  ConfigInv'
<1>1. PICK n \in todo :
        /\ file' = With(file, n, Printed(items[n]))
        /\ written' = With(written, n, items[n])
        /\ todo' = todo \ {n}
  BY DEF WriteLine
<1>2. /\ ItemsSound /\ FileSound /\ config = "saving" /\ n \in DOMAIN items
      /\ todo \subseteq DOMAIN items /\ UNCHANGED <<items, saved, config>>
  BY DEF ConfigInv, WriteLine
<1>3. SoundItem(n, items[n])
  BY <1>2 DEF ItemsSound
<1>4. /\ DOMAIN written' = DOMAIN written \cup {n} /\ written'[n] = items[n]
      /\ \A m \in DOMAIN written \ {n} : written'[m] = written[m]
  BY <1>1 DEF With
<1>5. /\ DOMAIN file' = DOMAIN file \cup {n} /\ file'[n] = Printed(items[n])
      /\ \A m \in DOMAIN file \ {n} : file'[m] = file[m]
  BY <1>1 DEF With
<1>6. FileSound'
  BY <1>2, <1>3, <1>4, <1>5 DEF FileSound
<1>7. ItemsSound'
  BY <1>2 DEF ItemsSound
<1> QED
  BY <1>1, <1>2, <1>6, <1>7 DEF ConfigInv, ReadSoFar

THEOREM ConfigInvariant == ConfigSpec => []ConfigInv
<1> USE ConfigAssumption
<1>1. ConfigInit => ConfigInv
  <2> SUFFICES ASSUME ConfigInit PROVE ConfigInv
    OBVIOUS
  <2>1. ItemsSound /\ DOMAIN items = DOMAIN Table
    <3>1. items = Defaults
      BY DEF ConfigInit
    <3>2. ASSUME NEW n \in DOMAIN Table
          PROVE  /\ Defaults[n].type = Table[n].type /\ Defaults[n].value = Table[n].value
                 /\ Defaults[n].spelt = "none" /\ Defaults[n].extra = FALSE
                 /\ DOMAIN Defaults[n] = {"type", "value", "spelt", "extra"}
      BY DEF Defaults
    <3>3. DOMAIN Defaults = DOMAIN Table
      BY DEF Defaults
    <3>4. ASSUME NEW n \in DOMAIN Table
          PROVE  SoundItem(n, Defaults[n])
      BY <3>2 DEF SoundItem, Sound, ConfigAssumption, Spellings
    <3> QED
      BY <3>1, <3>2, <3>3, <3>4 DEF ItemsSound
  <2>2. FileSound /\ ReadSoFar
    BY <2>1 DEF ConfigInit, FileSound, ReadSoFar, NoLines, FileRead
  <2> QED
    BY <2>1, <2>2 DEF ConfigInv, ConfigInit
<1>2. ConfigInv /\ [ConfigNext]_configVars => ConfigInv'
  <2> SUFFICES ASSUME ConfigInv, [ConfigNext]_configVars PROVE ConfigInv'
    OBVIOUS
  <2>1. CASE Boot
    <3>1. ItemsSound' /\ DOMAIN items' = DOMAIN Table
      BY <2>1, BootKeeps DEF Boot
    <3>2. FileRead' = FileRead /\ todo' = DOMAIN FileRead
      BY <2>1 DEF Boot, FileRead
    <3>3. FileSound'
      BY <2>1 DEF Boot, ConfigInv, FileSound
    <3>4. saved => DOMAIN FileRead = DOMAIN written
      BY DEF FileRead, ConfigInv, FileSound
    <3>5. ReadSoFar'
      BY <2>1, <3>1, <3>2, <3>4 DEF ReadSoFar, Boot
    <3> QED
      BY <2>1, <3>1, <3>3, <3>5 DEF ConfigInv, Boot
  <2>2. CASE ReadLine
    BY <2>2, ReadKeeps
  <2>3. CASE Booted
    BY <2>3 DEF Booted, ConfigInv, ItemsSound, FileSound, ReadSoFar
  <2>4. CASE ConfigCommand
    BY <2>4, CommandKeeps
  <2>5. CASE Save
    BY <2>5 DEF Save, ConfigInv, ItemsSound, FileSound, ReadSoFar, NoLines
  <2>6. CASE WriteLine
    BY <2>6, WriteKeeps
  <2>7. CASE Saved
    BY <2>7 DEF Saved, ConfigInv, ItemsSound, FileSound, ReadSoFar
  <2>8. CASE SaveDelete
    BY <2>8 DEF SaveDelete, ConfigInv, ItemsSound, FileSound, ReadSoFar, NoLines
  <2>9. CASE UNCHANGED configVars
    BY <2>9 DEF configVars, ConfigInv, ItemsSound, FileSound, ReadSoFar, FileRead
  <2> QED
    BY <2>1, <2>2, <2>3, <2>4, <2>5, <2>6, <2>7, <2>8, <2>9 DEF ConfigNext
<1> QED
  BY <1>1, <1>2, PTL DEF ConfigSpec

THEOREM ReadAsSaved == ConfigSpec => []SavedIsRead
<1>1. ConfigInv => SavedIsRead
  <2> SUFFICES ASSUME ConfigInv, config = "booting", saved,
                      NEW n \in DOMAIN written \ todo
               PROVE  /\ n \in DOMAIN items
                      /\ items[n].value = IF written[n].type = "DOUBLE"
                                          THEN Rounded(written[n].value)
                                          ELSE written[n].value
    BY DEF SavedIsRead
  <2>1. DOMAIN FileRead = DOMAIN written
    BY DEF FileRead, ConfigInv, FileSound
  <2> QED
    BY <2>1 DEF ConfigInv, ReadSoFar, Restored
<1> QED
  BY <1>1, ConfigInvariant, PTL

THEOREM ItemsTyped == ConfigSpec => []ConfigTypeOK
<1>1. ConfigInv => ConfigTypeOK
  <2> SUFFICES ASSUME ConfigInv PROVE ConfigTypeOK
    OBVIOUS
  <2>1. ASSUME NEW n \in DOMAIN items
        PROVE  n \in DOMAIN Table \cup ExtraNames /\ items[n].type \in Types
    BY DEF ConfigInv, ItemsSound, SoundItem, Sound
  <2>2. ASSUME NEW n \in DOMAIN items
        PROVE  items[n].extra = (n \notin DOMAIN Table)
    BY Zenon DEF ConfigInv, ItemsSound
  <2>3. DOMAIN Table \subseteq DOMAIN items /\ config \in {"booting", "running", "saving", "error"}
    BY DEF ConfigInv, ItemsSound
  <2> QED
    BY <2>1, <2>2, <2>3, Zenon DEF ConfigTypeOK
<1> QED
  BY <1>1, ConfigInvariant, PTL

-----------------------------------------------------------------------------
(***************************************************************************)
(* LcdConsole: the ring as the page of a terminal, and who has drawn it.   *)
(***************************************************************************)
LEMMA SameRest ==
  ASSUME NEW b \in Nat \ {0}, NEW q \in Int, NEW p \in Int,
         NEW r \in 0..(b - 1), NEW s \in 0..(b - 1), b * q + r = b * p + s
  PROVE  r = s
<1>1. b * (q - p) = s - r
  OBVIOUS
<1> DEFINE k == q - p
<1>2. k \in Int /\ b * k = s - r
  BY <1>1
<1> HIDE DEF k
<1>4. CASE k >= 1
  <2>1. b * k >= b
    BY <1>2, <1>4
  <2> QED BY <1>2, <2>1
<1>5. CASE k <= -1
  <2>1. b * k <= -b
    BY <1>2, <1>5
  <2> QED BY <1>2, <2>1
<1>6. CASE k = 0
  BY <1>2, <1>6
<1> QED BY <1>2, <1>4, <1>5, <1>6

LEMMA RestIs ==
  ASSUME NEW b \in Nat \ {0}, NEW a \in Int, NEW z \in Int, NEW r \in 0..(b - 1),
         a = b * z + r
  PROVE  a % b = r
<1> DEFINE p == a \div b
           s == a % b
<1>1. p \in Int /\ s \in 0..(b - 1) /\ a = b * p + s
  OBVIOUS
<1> HIDE DEF p, s
<1>2. b * p + s = b * z + r
  BY <1>1
<1>3. s = r
  BY <1>1, <1>2, SameRest
<1> QED BY <1>3 DEF s

\* Whole lines in whole lines.
LEMMA NextLine ==
  ASSUME NEW w \in Nat \ {0}, NEW q \in Int, NEW h \in Int, w * q < w * h
  PROVE  w * q + w <= w * h
<1> DEFINE k == h - q
<1>1. k \in Int /\ w * k > 0 /\ w * h = w * q + w * k
  OBVIOUS
<1> HIDE DEF k
<1>2. k >= 1
  <2>1. ASSUME k <= 0 PROVE FALSE
    <3>1. w * k <= 0
      BY <1>1, <2>1
    <3> QED BY <1>1, <3>1
  <2> QED BY <1>1, <2>1
<1>3. w * k >= w
  BY <1>1, <1>2
<1> QED BY <1>1, <1>3

LEMMA SizeIs ==
  /\ TextWidth \in Nat \ {0} /\ Size \in Nat \ {0} /\ 2 * TextWidth <= Size
<1>1. TextWidth * 1 < TextWidth * TextHeight
  BY ConsoleAssumption DEF ConsoleAssumption
<1>2. TextWidth * 1 + TextWidth <= TextWidth * TextHeight
  BY <1>1, NextLine, ConsoleAssumption DEF ConsoleAssumption
<1> QED
  BY <1>1, <1>2, ConsoleAssumption DEF ConsoleAssumption, Size

LEMMA LineIs ==
  ASSUME NEW pos \in 0..(Size - 1)
  PROVE  /\ LineStart(pos) \in 0..pos
         /\ LineStart(pos) + TextWidth <= Size
         /\ pos % TextWidth = 0 => pos + TextWidth <= Size
<1> DEFINE q == pos \div TextWidth
           r == pos % TextWidth
<1>1. TextWidth \in Nat \ {0} /\ Size \in Nat \ {0} /\ pos \in Int
  BY SizeIs
<1>2. q \in Int /\ r \in 0..(TextWidth - 1) /\ pos = TextWidth * q + r
  BY <1>1
<1>3. LineStart(pos) = pos - r
  BY DEF LineStart
<1> HIDE DEF q, r
<1>4. TextWidth * q < TextWidth * TextHeight
  BY <1>1, <1>2 DEF Size
<1>5. TextWidth * q + TextWidth <= Size
  BY <1>1, <1>2, <1>4, NextLine, ConsoleAssumption DEF ConsoleAssumption, Size
<1>6. q >= 0
  <2>1. ASSUME q <= -1 PROVE FALSE
    <3>1. TextWidth * q <= -TextWidth
      BY <1>1, <1>2, <2>1
    <3> QED BY <1>1, <1>2, <3>1
  <2> QED BY <1>2, <2>1
<1>7. TextWidth * q >= 0
  BY <1>1, <1>2, <1>6
<1>8. LineStart(pos) \in 0..pos /\ LineStart(pos) + TextWidth <= Size
  BY <1>1, <1>2, <1>3, <1>5, <1>7
<1>9. r = 0 => pos + TextWidth <= Size
  BY <1>1, <1>2, <1>5
<1> QED
  BY <1>8, <1>9 DEF r

(* The ring and the page.                                                  *)

At(h, i) == (h + i) % Size

Off(h, t) == (t - h + Size) % Size

\* A cell and its distance from the head tell each other.
LEMMA AtIs ==
  ASSUME NEW h \in Cells, NEW i \in Cells
  PROVE  /\ At(h, i) \in Cells
         /\ At(h, i) = IF h + i < Size THEN h + i ELSE h + i - Size
         /\ Off(h, i) \in Cells
         /\ Off(h, i) = IF i < h THEN i - h + Size ELSE i - h
<1>1. Size \in Nat \ {0} /\ h \in 0..(Size - 1) /\ i \in 0..(Size - 1)
  BY SizeIs DEF Cells
<1>2. h + i \in 0..(2 * Size - 1) /\ i - h + Size \in 0..(2 * Size - 1)
  BY <1>1
<1> DEFINE a == h + i
           b == i - h + Size
<1> HIDE DEF a, b
<1>3. a % Size = IF a < Size THEN a ELSE a - Size
  BY <1>1, <1>2, Around DEF a
<1>4. b % Size = IF b < Size THEN b ELSE b - Size
  BY <1>1, <1>2, Around DEF b
<1>5. At(h, i) = IF h + i < Size THEN h + i ELSE h + i - Size
  <2>1. At(h, i) = a % Size
    BY DEF At, a
  <2> QED BY <1>1, <1>3, <2>1 DEF a
<1>6. Off(h, i) = IF i < h THEN i - h + Size ELSE i - h
  <2>1. Off(h, i) = b % Size
    BY DEF Off, b
  <2> QED BY <1>1, <1>4, <2>1 DEF b
<1> QED
  BY <1>1, <1>5, <1>6 DEF Cells

LEMMA OffAt ==
  ASSUME NEW h \in Cells, NEW i \in Cells
  PROVE  Off(h, At(h, i)) = i /\ At(h, Off(h, i)) = i
<1>1. Size \in Nat \ {0} /\ h \in 0..(Size - 1) /\ i \in 0..(Size - 1)
  BY SizeIs DEF Cells
<1> DEFINE j == At(h, i)
           k == Off(h, i)
<1>2. j \in Cells /\ j = IF h + i < Size THEN h + i ELSE h + i - Size
  BY AtIs
<1>3. k \in Cells /\ k = IF i < h THEN i - h + Size ELSE i - h
  BY AtIs
<1> HIDE DEF j, k
<1>4. Off(h, j) = IF j < h THEN j - h + Size ELSE j - h
  BY <1>2, AtIs
<1>5. At(h, k) = IF h + k < Size THEN h + k ELSE h + k - Size
  BY <1>3, AtIs
<1>6. Off(h, j) = i
  BY <1>1, <1>2, <1>4
<1>7. At(h, k) = i
  BY <1>1, <1>3, <1>5
<1> QED
  BY <1>6, <1>7 DEF j, k

\* A step back along the ring is a step back on the page.
LEMMA OneBack ==
  ASSUME NEW h \in Cells, NEW n \in Cells
  PROVE  /\ n = 0 => At(h, n) = h
         /\ n # 0 => /\ At(h, n) # h
                     /\ At(h, n - 1) = (At(h, n) - 1 + Size) % Size
<1>1. Size \in Nat \ {0} /\ h \in 0..(Size - 1) /\ n \in 0..(Size - 1)
  BY SizeIs DEF Cells
<1> DEFINE t == At(h, n)
<1>2. t \in 0..(Size - 1) /\ t = IF h + n < Size THEN h + n ELSE h + n - Size
  BY AtIs DEF Cells
<1> HIDE DEF t
<1>3. CASE n = 0
  BY <1>1, <1>2, <1>3 DEF t
<1>4. CASE n # 0
  <2> DEFINE a == t - 1 + Size
             m == n - 1
  <2>1. a \in 0..(2 * Size - 1) /\ m \in 0..(Size - 1)
    BY <1>1, <1>2, <1>4
  <2>2. t # h
    BY <1>1, <1>2, <1>4
  <2> HIDE DEF a, m
  <2>3. a % Size = IF a < Size THEN a ELSE a - Size
    BY <1>1, <2>1, Around
  <2>4. At(h, m) = IF h + m < Size THEN h + m ELSE h + m - Size
    BY <1>1, <2>1, AtIs DEF Cells
  <2>5. At(h, m) = a % Size
    BY <1>1, <1>2, <1>4, <2>3, <2>4 DEF a, m
  <2> QED BY <1>4, <2>2, <2>5 DEF a, m, t
<1> QED BY <1>3, <1>4

RingTyped ==
  /\ buffer \in [Cells -> Printers \cup {Blank}]
  /\ head \in Cells /\ head % TextWidth = 0 /\ tail \in Cells
  /\ page.cell \in [Cells -> Printers \cup {Blank}] /\ page.cursor \in Cells
  /\ page = [cell |-> page.cell, cursor |-> page.cursor]

\* The page is what the ring holds from its head on.
RingIsPage ==
  /\ page.cursor = Off(head, tail)
  /\ \A i \in Cells : page.cell[i] = buffer[At(head, i)]

\* The same head: only the tail moves, to a distance n.
LEMMA TailMoves ==
  ASSUME RingTyped, RingIsPage, NEW n \in Cells, head' = head,
         tail' = At(head, n), buffer' = buffer,
         page' = [cell |-> page.cell, cursor |-> n]
  PROVE  RingIsPage' /\ RingTyped'
<1>1. head \in Cells /\ tail' \in Cells
  BY AtIs DEF RingTyped
<1>2. Off(head, tail') = n
  BY <1>1, OffAt
<1>3. page'.cell = page.cell /\ page'.cursor = n
  OBVIOUS
<1>4. RingIsPage'
  BY <1>2, <1>3 DEF RingIsPage
<1> QED
  BY <1>1, <1>3, <1>4 DEF RingTyped

\* The line that comes in at the bottom: the tail is at the old head.
LEMMA Scrolls ==
  ASSUME RingTyped, NEW ring \in [Cells -> Printers \cup {Blank}],
         NEW cell \in [Cells -> Printers \cup {Blank}],
         \A i \in Cells : cell[i] = ring[At(head, i)],
         tail' = head, head' = NewHead, buffer' = Scroll(ring, head, NewHead),
         page' = [cell |-> UpOneLine(cell), cursor |-> Size - TextWidth]
  PROVE  RingIsPage' /\ RingTyped'
<1> DEFINE w == TextWidth
           h == head
           k == NewHead
<1>1. /\ Size \in Nat \ {0} /\ w \in Nat \ {0} /\ 2 * w <= Size
      /\ h \in Cells /\ h \in 0..(Size - 1) /\ h % w = 0 /\ h + w <= Size
  <2>1. h \in 0..(Size - 1) /\ h % TextWidth = 0
    BY DEF RingTyped, Cells
  <2> QED BY <2>1, SizeIs, LineIs DEF Cells
<1>2. w \in Cells
  BY <1>1 DEF Cells
<1>3. k = At(h, w)
  BY DEF NewHead, At
<1>4. k \in Cells /\ k = IF h + w < Size THEN h + w ELSE 0
  <2>1. /\ At(h, w) \in Cells
        /\ At(h, w) = IF h + w < Size THEN h + w ELSE h + w - Size
    BY <1>1, <1>2, AtIs
  <2> QED BY <1>1, <1>3, <2>1
<1>5. k % TextWidth = 0
  <2>1. 0 % w = 0
    BY <1>1
  <2>2. (h + w) % w = 0
    <3> DEFINE q == h \div w
               z == q + 1
               a == h + w
    <3>1. q \in Int /\ h = (w * q) + (h % w)
      BY <1>1
    <3>2. z \in Int /\ a = w * z + 0 /\ a \in Int /\ 0 \in 0..(w - 1)
      BY <1>1, <3>1
    <3> HIDE DEF z, a, q
    <3>3. a % w = 0
      BY <1>1, <3>2, RestIs
    <3> QED BY <3>3 DEF a
  <2> QED BY <1>4, <2>1, <2>2
<1>6. Off(k, h) = Size - w
  <2>1. Off(k, h) = IF h < k THEN h - k + Size ELSE h - k
    BY <1>1, <1>4, AtIs
  <2> QED BY <1>1, <1>4, <2>1
<1>7. Off(h, k) = w
  BY <1>1, <1>2, <1>3, OffAt
<1> HIDE DEF k
<1>8. buffer' = [i \in Cells |-> IF Off(h, i) < w THEN Blank ELSE ring[i]]
  BY <1>7 DEF Scroll, Off, k
<1>9. ASSUME NEW i \in Cells
      PROVE  UpOneLine(cell)[i] = buffer'[At(k, i)]
  <2> DEFINE j == At(k, i)
  <2>1. j \in Cells /\ j = IF k + i < Size THEN k + i ELSE k + i - Size
    BY <1>4, <1>9, AtIs
  <2> HIDE DEF j
  <2>2. Off(h, j) = IF j < h THEN j - h + Size ELSE j - h
    BY <1>1, <2>1, AtIs
  <2>3. i \in 0..(Size - 1)
    BY <1>9 DEF Cells
  <2>4. CASE i + w < Size
    <3>1. Off(h, j) = i + w
      BY <1>1, <1>4, <2>1, <2>2, <2>3, <2>4
    <3>5. i + w \in Cells
      BY <1>1, <2>3, <2>4 DEF Cells
    <3>6. At(h, Off(h, j)) = j
      BY <1>1, <2>1, OffAt
    <3>2. At(h, i + w) = j
      BY <3>1, <3>6
    <3>3. UpOneLine(cell)[i] = ring[At(h, i + w)]
      BY <1>9, <2>4, <3>5 DEF UpOneLine
    <3>4. ~(Off(h, j) < w)
      BY <1>1, <2>3, <3>1
    <3> QED BY <1>8, <2>1, <3>2, <3>3, <3>4 DEF j
  <2>5. CASE ~(i + w < Size)
    <3>1. Off(h, j) = i + w - Size
      BY <1>1, <1>4, <2>1, <2>2, <2>3, <2>5
    <3>2. Off(h, j) < w
      BY <1>1, <2>3, <3>1
    <3> QED BY <1>8, <1>9, <2>1, <2>5, <3>2 DEF UpOneLine, j
  <2> QED BY <2>4, <2>5
<1>10. /\ buffer' \in [Cells -> Printers \cup {Blank}]
       /\ UpOneLine(cell) \in [Cells -> Printers \cup {Blank}]
       /\ Size - w \in Cells
  <2>1. buffer' \in [Cells -> Printers \cup {Blank}]
    BY <1>8
  <2>2. \A i \in Cells : i + TextWidth < Size => i + TextWidth \in Cells
    BY <1>1 DEF Cells
  <2>3. UpOneLine(cell) \in [Cells -> Printers \cup {Blank}]
    BY <2>2 DEF UpOneLine
  <2> QED BY <1>1, <2>1, <2>3 DEF Cells
<1>11. page'.cell = UpOneLine(cell) /\ page'.cursor = Size - w
  OBVIOUS
<1>12. RingIsPage'
  BY <1>6, <1>9, <1>11 DEF RingIsPage, k
<1> QED
  BY <1>1, <1>4, <1>5, <1>10, <1>11, <1>12 DEF RingTyped, k

LEMMA PositionIs ==
  ASSUME RingTyped, RingIsPage
  PROVE  /\ Position = page.cursor /\ page.cursor \in 0..(Size - 1)
         /\ tail = At(head, page.cursor) /\ page.cursor = Off(head, tail)
         /\ LineStart(Position) \in 0..page.cursor
         /\ LineStart(Position) + TextWidth <= Size
<1>1. Position = Off(head, tail) /\ page.cursor = Off(head, tail)
  BY DEF Position, Off, RingIsPage
<1>2. page.cursor \in 0..(Size - 1) /\ head \in Cells /\ tail \in Cells
  BY DEF RingTyped, Cells
<1>3. At(head, Off(head, tail)) = tail
  BY <1>2, OffAt
<1> QED
  BY <1>1, <1>2, <1>3, LineIs

\* What is printed is seen at its place.
LEMMA Prints ==
  ASSUME RingTyped, RingIsPage, NEW p \in Printers
  PROVE  /\ [buffer EXCEPT ![tail] = p] \in [Cells -> Printers \cup {Blank}]
         /\ [page.cell EXCEPT ![page.cursor] = p]
              \in [Cells -> Printers \cup {Blank}]
         /\ \A i \in Cells : [page.cell EXCEPT ![page.cursor] = p][i]
                              = [buffer EXCEPT ![tail] = p][At(head, i)]
<1>1. /\ buffer \in [Cells -> Printers \cup {Blank}] /\ tail \in Cells
      /\ page.cell \in [Cells -> Printers \cup {Blank}] /\ page.cursor \in Cells
      /\ head \in Cells
  BY DEF RingTyped
<1>2. tail = At(head, page.cursor)
  BY PositionIs
<1>3. ASSUME NEW i \in Cells
      PROVE  /\ At(head, i) \in Cells
             /\ (At(head, i) = tail) = (i = page.cursor)
  <2>1. At(head, i) \in Cells
    BY <1>1, AtIs
  <2>2. Off(head, At(head, i)) = i /\ Off(head, At(head, page.cursor)) = page.cursor
    BY <1>1, OffAt
  <2>3. CASE i = page.cursor
    BY <1>2, <2>1, <2>3
  <2>4. CASE i # page.cursor
    <3>1. At(head, i) # tail
      BY <1>2, <2>2, <2>4
    <3> QED BY <2>1, <2>4, <3>1
  <2> QED BY <2>3, <2>4
<1> QED
  BY <1>1, <1>3 DEF RingIsPage

\* One character, in the ring and on the page.
LEMMA WritesBoth ==
  ASSUME RingTyped, RingIsPage, NEW p \in Printers,
         NEW c \in Controls \cup {"print"}, Wrote(p, c), page' = Typed(p, c)
  PROVE  RingIsPage' /\ RingTyped'
<1> DEFINE n == page.cursor
           line == LineStart(n)
           w == TextWidth
<1>1. /\ Size \in Nat \ {0} /\ w \in Nat \ {0} /\ 2 * w <= Size
      /\ head \in Cells /\ tail \in Cells /\ head \in 0..(Size - 1)
      /\ tail \in 0..(Size - 1)
  BY SizeIs DEF RingTyped, Cells
<1>2. /\ Position = n /\ n \in 0..(Size - 1) /\ n \in Cells
      /\ tail = At(head, n) /\ n = Off(head, tail)
      /\ line \in 0..n /\ line + w <= Size
  BY PositionIs DEF Cells
<1>3. n = IF tail < head THEN tail - head + Size ELSE tail - head
  BY <1>1, <1>2, AtIs
<1>4. page = [cell |-> page.cell, cursor |-> n]
  BY DEF RingTyped
<1> DEFINE next == (tail + 1) % Size
<1>5. next = IF tail + 1 < Size THEN tail + 1 ELSE 0
  <2> DEFINE a == tail + 1
  <2>1. a \in 0..(2 * Size - 1)
    BY <1>1
  <2> HIDE DEF a
  <2>2. a % Size = IF a < Size THEN a ELSE a - Size
    BY <1>1, <2>1, Around
  <2> QED BY <1>1, <2>2 DEF a
<1>6. /\ [buffer EXCEPT ![tail] = p] \in [Cells -> Printers \cup {Blank}]
      /\ [page.cell EXCEPT ![n] = p] \in [Cells -> Printers \cup {Blank}]
      /\ \A i \in Cells : [page.cell EXCEPT ![n] = p][i]
                            = [buffer EXCEPT ![tail] = p][At(head, i)]
  BY Prints
<1> DEFINE ring == [buffer EXCEPT ![tail] = p]
           cell == [page.cell EXCEPT ![n] = p]
<1>7. CASE c = "print" /\ next # head
  <2>1. /\ buffer' = ring /\ tail' = next /\ head' = head
        /\ page' = AtCursor(cell, n + 1)
    BY <1>7 DEF Wrote, Typed, Controls
  <2>2. n + 1 < Size
    BY <1>1, <1>3, <1>5, <1>7
  <2>3. page' = [cell |-> cell, cursor |-> n + 1]
    BY <2>1, <2>2 DEF AtCursor
  <2>4. n + 1 \in Cells /\ next \in Cells
    BY <1>1, <1>2, <1>5, <2>2 DEF Cells
  <2>5. Off(head, next) = n + 1
    <3>1. Off(head, next) = IF next < head THEN next - head + Size ELSE next - head
      BY <1>1, <2>4, AtIs
    <3> QED BY <1>1, <1>3, <1>5, <1>7, <3>1
  <2> HIDE DEF ring, cell, next
  <2>6. page'.cell = cell /\ page'.cursor = n + 1
    BY <2>3
  <2>7. RingIsPage'
    BY <1>6, <2>1, <2>5, <2>6 DEF RingIsPage, ring, cell
  <2> QED
    BY <1>6, <2>1, <2>3, <2>4, <2>6, <2>7 DEF RingTyped, ring, cell
<1>8. CASE c = "print" /\ next = head
  <2>1. /\ buffer' = Scroll(ring, next, NewHead) /\ tail' = next
        /\ head' = NewHead /\ page' = AtCursor(cell, n + 1)
    BY <1>8 DEF Wrote, Typed, Controls
  <2>2. n + 1 = Size
    BY <1>1, <1>3, <1>5, <1>8
  <2>3. page' = [cell |-> UpOneLine(cell), cursor |-> Size - w]
    BY <1>1, <2>1, <2>2 DEF AtCursor
  <2>4. /\ tail' = head /\ buffer' = Scroll(ring, head, NewHead)
        /\ head' = NewHead
    BY <1>8, <2>1
  <2> HIDE DEF ring, cell
  <2>5. /\ ring \in [Cells -> Printers \cup {Blank}]
        /\ cell \in [Cells -> Printers \cup {Blank}]
        /\ \A i \in Cells : cell[i] = ring[At(head, i)]
    BY <1>6 DEF ring, cell
  <2> QED BY <2>3, <2>4, <2>5, Scrolls
<1>9. CASE c = "backspace"
  <2> DEFINE k == IF n = 0 THEN 0 ELSE n - 1
  <2>1. /\ buffer' = buffer /\ head' = head
        /\ tail' = IF tail = head THEN tail ELSE (tail - 1 + Size) % Size
    BY <1>9 DEF Wrote, Controls
  <2>2. page' = [cell |-> page.cell, cursor |-> k]
    <3>1. page' = [page EXCEPT !.cursor = k]
      BY <1>9 DEF Typed, Controls
    <3> QED BY <1>4, <3>1
  <2>3. k \in Cells
    BY <1>1, <1>2 DEF Cells
  <2>4. tail' = At(head, k)
    <3>1. CASE n = 0
      <4>1. At(head, 0) = head /\ k = 0 /\ tail = head
        BY <1>1, <1>2, <3>1, OneBack
      <4> QED BY <2>1, <4>1
    <3>2. CASE n # 0
      <4>1. k = n - 1 /\ At(head, n - 1) = (tail - 1 + Size) % Size /\ tail # head
        BY <1>1, <1>2, <3>2, OneBack
      <4> QED BY <2>1, <4>1
    <3> QED BY <3>1, <3>2
  <2> HIDE DEF k
  <2> QED BY <2>1, <2>2, <2>3, <2>4, TailMoves
<1>10. CASE c = "return"
  <2>1. buffer' = buffer /\ head' = head /\ tail' = At(head, line)
    BY <1>2, <1>10 DEF Wrote, Controls, At
  <2>2. page' = [cell |-> page.cell, cursor |-> line]
    <3>1. page' = [page EXCEPT !.cursor = line]
      BY <1>10 DEF Typed, Controls
    <3> QED BY <1>4, <3>1
  <2>3. line \in Cells
    BY <1>1, <1>2 DEF Cells
  <2> HIDE DEF line
  <2> QED BY <2>1, <2>2, <2>3, TailMoves
<1>11. CASE c = "newline" /\ line + w < Size
  <2> DEFINE k == line + w
  <2>1. k \in Cells
    BY <1>1, <1>2, <1>11 DEF Cells
  <2>2. page' = [cell |-> page.cell, cursor |-> k]
    BY <1>11 DEF Typed, Controls, AtCursor
  <2>3. buffer' = buffer /\ head' = head /\ tail' = (head + line + w) % Size
    BY <1>1, <1>2, <1>11 DEF Wrote, Controls
  <2>4. head + line + w = head + k
    BY <1>1, <1>2
  <2>5. tail' = At(head, k)
    BY <2>3, <2>4 DEF At
  <2> HIDE DEF k
  <2> QED BY <2>1, <2>2, <2>3, <2>5, TailMoves
<1>12. CASE c = "newline" /\ ~(line + w < Size)
  <2>1. line + w = Size /\ line + w >= Size
    BY <1>1, <1>2, <1>12
  <2>2. page' = [cell |-> UpOneLine(page.cell), cursor |-> line + w - w]
    BY <1>1, <1>2, <1>12 DEF Typed, Controls, AtCursor
  <2>3. /\ tail' = (head + line + w) % Size
        /\ buffer' = Scroll(buffer, tail', NewHead) /\ head' = NewHead
    BY <1>2, <1>12, <2>1 DEF Wrote, Controls
  <2>4. tail' = head
    <3> DEFINE a == head + Size
    <3>1. a = Size * 1 + head /\ a \in Int
      BY <1>1
    <3>2. head + line + w = a
      BY <1>1, <1>2, <2>1
    <3> HIDE DEF a
    <3>3. a % Size = head
      BY <1>1, <3>1, RestIs
    <3> QED BY <2>3, <3>2, <3>3
  <2>5. line + w - w = Size - w
    BY <1>1, <1>2, <2>1
  <2>6. /\ page' = [cell |-> UpOneLine(page.cell), cursor |-> Size - w]
        /\ buffer' = Scroll(buffer, head, NewHead)
    BY <2>2, <2>3, <2>4, <2>5
  <2>7. /\ buffer \in [Cells -> Printers \cup {Blank}]
        /\ page.cell \in [Cells -> Printers \cup {Blank}]
        /\ \A i \in Cells : page.cell[i] = buffer[At(head, i)]
    BY DEF RingTyped, RingIsPage
  <2> QED BY <2>3, <2>4, <2>6, <2>7, Scrolls
<1> QED
  BY <1>7, <1>8, <1>9, <1>10, <1>11, <1>12 DEF Controls

-----------------------------------------------------------------------------
(* The two threads.                                                        *)

\* Who has written says so before the mutex is free: the drawing thread then
\* waits with nothing to come, or draws, only what is in the ring.
Drawing ==
  /\ sem \in {0, 1} /\ lcdMutex \in Printers \cup {Nobody}
  /\ drawer \in {"wait", "copy", "draw"} /\ signalled \in BOOLEAN
  /\ signalled => lcdMutex # Nobody /\ (sem = 1 \/ drawer = "copy")
  /\ lcdMutex = Nobody /\ sem = 0 /\ drawer = "wait" =>
       drawn = Unrolled(buffer, head)
  /\ lcdMutex = Nobody /\ sem = 0 /\ drawer = "draw" => buffer0 = buffer

LcdInv == RingTyped /\ RingIsPage /\ Drawing

\* The ring is the terminal's page, and what is drawn catches up with it.
THEOREM LcdInvariant == LcdSpec => []LcdInv
<1>1. LcdInit => LcdInv
  <2> SUFFICES ASSUME LcdInit PROVE LcdInv
    OBVIOUS
  <2>1. /\ Size \in Nat \ {0} /\ TextWidth \in Nat \ {0} /\ 0 \in Cells
    BY SizeIs DEF Cells
  <2>2. Empty0 \in [Cells -> Printers \cup {Blank}]
    BY DEF Empty0
  <2>3. page.cell = Empty0 /\ page.cursor = 0
    BY DEF LcdInit
  <2>4. 0 % TextWidth = 0
    BY <2>1
  <2>5. Off(0, 0) = 0
    BY <2>1, AtIs
  <2>6. \A i \in Cells : At(0, i) \in Cells
    BY <2>1, AtIs
  <2>7. RingTyped
    BY <2>1, <2>2, <2>3, <2>4 DEF LcdInit, RingTyped
  <2>8. RingIsPage
    BY <2>3, <2>5, <2>6 DEF LcdInit, RingIsPage, Empty0
  <2>9. Unrolled(Empty0, 0) = Empty0
    BY <2>6 DEF Unrolled, Empty0, At
  <2>10. Drawing
    BY <2>9 DEF LcdInit, Drawing
  <2> QED BY <2>7, <2>8, <2>10 DEF LcdInv
<1>2. LcdInv /\ [LcdNext]_lcdVars => LcdInv'
  <2> SUFFICES ASSUME LcdInv, [LcdNext]_lcdVars PROVE LcdInv'
    OBVIOUS
  <2>1. RingTyped /\ RingIsPage /\ Drawing
    BY DEF LcdInv
  <2> DEFINE same == UNCHANGED <<buffer, head, tail, page>>
  <2>2. ASSUME same PROVE RingTyped' /\ RingIsPage'
    BY <2>1, <2>2 DEF RingTyped, RingIsPage
  <2>3. ASSUME NEW p \in Printers, Lock(p) PROVE LcdInv'
    <3>1. same /\ Drawing'
      BY <2>1, <2>3, ConsoleAssumption DEF Lock, Drawing, ConsoleAssumption
    <3> QED BY <2>2, <3>1 DEF LcdInv
  <2>4. ASSUME NEW p \in Printers, Write(p) PROVE LcdInv'
    <3>1. PICK c \in Controls \cup {"print"} : Wrote(p, c) /\ page' = Typed(p, c)
      BY <2>4 DEF Write
    <3>2. RingTyped' /\ RingIsPage'
      BY <2>1, <3>1, WritesBoth
    <3>3. Drawing'
      BY <2>1, <2>4, ConsoleAssumption DEF Write, Drawing, ConsoleAssumption
    <3> QED BY <3>2, <3>3 DEF LcdInv
  <2>5. ASSUME NEW p \in Printers, Release(p) PROVE LcdInv'
    <3>1. same /\ Drawing'
      BY <2>1, <2>5, ConsoleAssumption DEF Release, Drawing, ConsoleAssumption
    <3> QED BY <2>2, <3>1 DEF LcdInv
  <2>6. ASSUME NEW p \in Printers, LcdUnlock(p) PROVE LcdInv'
    <3>2. sem = 1 \/ drawer = "copy"
      BY <2>1, <2>6 DEF LcdUnlock, Drawing
    <3>3. /\ sem' = sem /\ drawer' = drawer /\ same
          /\ lcdMutex' = Nobody /\ signalled' = FALSE
      BY <2>6 DEF LcdUnlock
    <3>1. same /\ Drawing'
      <4>1. /\ sem \in {0, 1} /\ drawer \in {"wait", "copy", "draw"}
        BY <2>1 DEF Drawing
      <4>2. ~(sem = 0 /\ drawer = "wait") /\ ~(sem = 0 /\ drawer = "draw")
        BY <3>2
      <4> QED BY <3>3, <4>1, <4>2 DEF Drawing
    <3> QED BY <2>2, <3>1 DEF LcdInv
  <2>7. CASE WaitUpdate
    <3>1. same /\ Drawing'
      BY <2>1, <2>7 DEF WaitUpdate, Drawing
    <3> QED BY <2>2, <3>1 DEF LcdInv
  <2>8. CASE Copy
    <3>1. same /\ Drawing'
      BY <2>1, <2>8 DEF Copy, Drawing
    <3> QED BY <2>2, <3>1 DEF LcdInv
  <2>9. CASE Draw
    <3>1. same /\ Drawing'
      BY <2>1, <2>9 DEF Draw, Drawing
    <3> QED BY <2>2, <3>1 DEF LcdInv
  <2>10. CASE UNCHANGED lcdVars
    <3>1. same /\ Drawing'
      BY <2>1, <2>10 DEF lcdVars, Drawing
    <3> QED BY <2>2, <3>1 DEF LcdInv
  <2> QED
    BY <2>3, <2>4, <2>5, <2>6, <2>7, <2>8, <2>9, <2>10 DEF LcdNext
<1> QED
  BY <1>1, <1>2, PTL DEF LcdSpec

\* When nobody writes and the drawing thread waits, the display shows what was
\* written, whoever wrote it and whatever was drawn on the way
\* (LCDConsole.cpp:96-150, 186-273).
THEOREM Drawn == LcdSpec => []DrawnIsWritten
<1>1. LcdInv => DrawnIsWritten
  <2> SUFFICES ASSUME LcdInv, lcdMutex = Nobody, sem = 0, drawer = "wait"
               PROVE  drawn = page.cell
    BY DEF DrawnIsWritten
  <2>1. RingTyped /\ RingIsPage /\ drawn = Unrolled(buffer, head)
    BY DEF LcdInv, Drawing
  <2>2. page.cell = [i \in Cells |-> page.cell[i]]
    BY <2>1 DEF RingTyped
  <2> QED
    BY <2>1, <2>2 DEF Unrolled, RingIsPage, At
<1> QED
  BY <1>1, LcdInvariant, PTL

\* The indices stay in the ring and the head at the beginning of a line.
THEOREM LcdTyped == LcdSpec => []LcdTypeOK
<1>1. LcdInv => LcdTypeOK
  BY DEF LcdInv, RingTyped, Drawing, LcdTypeOK
<1> QED
  BY <1>1, LcdInvariant, PTL

-----------------------------------------------------------------------------
(***************************************************************************)
(* StepCount: the count is right for any bounds on starts and pulses.      *)
(***************************************************************************)
CountSpec == CountInit /\ [][CountNext]_countVars

USE CountAssumption

\* Times the direction: there are only two.
LEMMA IncTimes ==
  ASSUME NEW inc \in {-1, 1}, NEW n \in Int
  PROVE  /\ inc * n \in Int
         /\ \A m \in Int : inc * (n + m) = inc * n + inc * m
<1>1. CASE inc = 1
  BY <1>1
<1>2. CASE inc = -1
  BY <1>2
<1> QED BY <1>1, <1>2

(***************************************************************************)
(* StepOut: starting, stopping and changing the frequency keep its count.  *)
(***************************************************************************)
OutState ==
  [status : {"IDLE", "STEPPING"}, on : BOOLEAN, stepCount : Int, tim : Nat]

\* Only start makes it step, and only with a frequency.
Steps(o) == o.status = "STEPPING" => o.on

\* Any count and timer fit in.
LEMMA OutStates ==
  ASSUME NEW o \in OutState, NEW s \in {"IDLE", "STEPPING"},
         NEW n \in Int, NEW t \in Nat
  PROVE  /\ [o EXCEPT !.status = s, !.stepCount = n] \in OutState
         /\ [o EXCEPT !.status = s, !.tim = t] \in OutState
         /\ [o EXCEPT !.stepCount = n, !.tim = t] \in OutState
  BY DEF OutState

\* A stop ends the run and keeps the count, even if there was none.
LEMMA StopKeepsCount ==
  ASSUME NEW o \in OutState
  PROVE  /\ OutStop(o) \in OutState
         /\ OutStop(o).status = "IDLE"
         /\ OutStop(o).on = o.on
         /\ OutCount(OutStop(o)) = OutCount(o)
<1>1. OutStop(o) \in OutState
  <2>1. o.stepCount + o.tim \in Int
    BY DEF OutState
  <2>2. [o EXCEPT !.status = "IDLE", !.stepCount = @ + o.tim] \in OutState
    BY <2>1, OutStates
  <2>3. OutStop(o)
          \in {o, [o EXCEPT !.status = "IDLE", !.stepCount = @ + o.tim]}
    BY DEF OutStop
  <2> QED BY <2>2, <2>3
<1>2. OutStop(o).status = "IDLE"
  BY DEF OutState, OutStop
<1>3. OutStop(o).on = o.on
  BY DEF OutState, OutStop
<1>4. OutCount(OutStop(o)) = OutCount(o)
  BY DEF OutState, OutStop, OutCount
<1> QED BY <1>1, <1>2, <1>3, <1>4

\* A start begins a run at the count so far.
LEMMA StartKeepsCount ==
  ASSUME NEW o \in OutState, o.status = "IDLE"
  PROVE  /\ OutStart(o) \in OutState
         /\ Steps(OutStart(o))
         /\ OutCount(OutStart(o)) = OutCount(o)
<1>1. OutStart(o) \in OutState
  BY DEF OutState, OutStart
<1>2. Steps(OutStart(o))
  BY DEF OutState, OutStart, Steps
<1>3. OutCount(OutStart(o)) = OutCount(o)
  BY DEF OutState, OutStart, OutCount
<1> QED BY <1>1, <1>2, <1>3

\* A change of frequency under way, other than to 0, loses no pulse.
LEMMA FrequencyKeepsCount ==
  ASSUME NEW o \in OutState, NEW on \in BOOLEAN,
         Steps(o), o.status = "STEPPING" => on
  PROVE  LET p == OutFrequency(o, on)
         IN  /\ p \in OutState /\ Steps(p) /\ OutCount(p) = OutCount(o)
             /\ p.status = "STEPPING" => o.status = "STEPPING"
<1>1. CASE o.status = "STEPPING"
  <2>1. OutFrequency(o, on) = OutStart(OutStop(o))
    BY <1>1 DEF OutFrequency
  <2> QED BY <1>1, <2>1, StopKeepsCount, StartKeepsCount
<1>2. CASE o.status = "IDLE"
  BY <1>2 DEF OutState, OutFrequency, OutCount, Steps
<1> QED BY <1>1, <1>2 DEF OutState

\* resetCount leaves it as it runs, with a count of 0.
LEMMA ResetCounts ==
  ASSUME NEW o \in OutState, Steps(o)
  PROVE  /\ OutReset(o) \in OutState
         /\ Steps(OutReset(o))
         /\ OutCount(OutReset(o)) = 0
<1>1. OutReset(o) \in OutState
  <2>1. 0 \in Int /\ (IF o.status = "STEPPING" THEN 0 ELSE o.tim) \in Nat
    BY DEF OutState
  <2> QED BY <2>1, OutStates DEF OutReset
<1>2. Steps(OutReset(o))
  BY DEF OutState, OutReset, Steps
<1>3. OutCount(OutReset(o)) = 0
  BY DEF OutState, OutReset, OutCount
<1> QED BY <1>1, <1>2, <1>3

(***************************************************************************)
(* The invariant                                                           *)
(***************************************************************************)
LookPoints == {"idle", "idle_count", "count", "out", "timer", "done"}

LookState ==
  [pc : LookPoints, sum : Int, been : SUBSET Int, disturbed : BOOLEAN]

CountTypes ==
  /\ driver \in [status : {"IDLE", "STEPPING"}, inc : {-1, 1}, stepCount : Int]
  /\ out \in OutState
  /\ made \in Int /\ uncounted \in Int /\ moves \in Nat /\ pulses \in Nat
  /\ look \in LookState

\* The driver steps whenever StepOut does, so that no pulse is made while the
\* driver would not count it.
OutFollowsDriver ==
  /\ out.status = "STEPPING" => driver.status = "STEPPING"
  /\ Steps(out)

\* What a reading that nothing came into has at each of its points.
LookInv ==
  look.pc # "idle" /\ ~look.disturbed =>
    /\ made - uncounted \in look.been
    /\ look.pc = "idle_count" => driver.status = "IDLE"
    /\ look.pc \in {"count", "out", "timer"} => driver.status = "STEPPING"
    /\ look.pc = "out" => look.sum = driver.stepCount
    /\ look.pc = "timer" =>
         /\ out.status = "STEPPING"
         /\ look.sum = driver.stepCount + driver.inc * out.stepCount
    /\ look.pc = "done" => look.sum \in look.been

CountInv ==
  CountTypes /\ OutFollowsDriver /\ StepCountNow = made - uncounted /\ LookInv

LEMMA CountInvInit == CountInit => CountInv
  BY DEF CountInit, CountInv, CountTypes, OutState, OutFollowsDriver, Steps,
         StepCountNow, LookInv, NoLook, LookPoints, LookState

\* What a step that comes into a reading leaves of it.
LEMMA DisturbedLook ==
  ASSUME CountTypes, look' = Disturbed
  PROVE  /\ look' \in LookState
         /\ LookInv'
  BY DEF CountTypes, Disturbed, LookInv, LookState

LEMMA StartInv ==
  ASSUME CountInv, NEW inc \in {-1, 1}, Start(inc)
  PROVE  CountInv'
<1> USE DEF CountInv
<1>1. out.status = "IDLE"
  BY DEF Start, OutFollowsDriver, CountTypes, OutState
<1>2. /\ out' \in OutState /\ Steps(out') /\ OutCount(out') = 0
  <2>1. OutStart(out) \in OutState /\ Steps(OutStart(out))
    BY <1>1, StartKeepsCount DEF CountTypes
  <2> QED BY <2>1, ResetCounts DEF Start, OutState
<1>3. \E n \in Int : made' = made + n /\ uncounted' = uncounted + n
  <2>1. PICK lost \in IF out.on THEN 0..PulsesInStart ELSE {0} :
          made' = made + inc * lost /\ uncounted' = uncounted + inc * lost
    BY DEF Start
  <2>2. lost \in Nat
    BY <2>1
  <2>3. inc * lost \in Int
    BY <2>2
  <2> QED BY <2>1, <2>3
<1>4. /\ driver' \in [status : {"IDLE", "STEPPING"}, inc : {-1, 1},
                      stepCount : Int]
      /\ driver'.status = "STEPPING" /\ driver'.inc = inc
      /\ driver'.stepCount = driver.stepCount
  BY DEF Start, CountTypes
<1>5. StepCountNow' = made' - uncounted'
  <2>1. StepCountNow = driver.stepCount
    BY DEF StepCountNow, Start
  <2>2. StepCountNow' = driver.stepCount + inc * 0
    BY <1>2, <1>4 DEF StepCountNow
  <2>3. driver.stepCount \in Int
    BY DEF CountTypes
  <2> QED BY <1>3, <2>1, <2>2, <2>3 DEF CountTypes
<1>6. CountTypes'
  BY <1>2, <1>3, <1>4, DisturbedLook DEF Start, CountTypes
<1>7. OutFollowsDriver'
  BY <1>2, <1>4 DEF OutFollowsDriver, Steps
<1> QED BY <1>5, <1>6, <1>7, DisturbedLook DEF Start

LEMMA StopMotorInv ==
  ASSUME CountInv, StopMotor
  PROVE  CountInv'
<1> USE DEF CountInv
<1>1. /\ out' \in OutState /\ out'.status = "IDLE"
      /\ OutCount(out') = OutCount(out) /\ OutCount(out') \in Int
  BY StopKeepsCount DEF StopMotor, CountTypes, OutCount, OutState
<1>2. driver.stepCount + driver.inc * OutCount(out') \in Int
  <2>1. driver.inc * OutCount(out') \in Int
    BY <1>1, IncTimes DEF CountTypes
  <2> QED BY <2>1 DEF CountTypes
<1>3. /\ driver' \in [status : {"IDLE", "STEPPING"}, inc : {-1, 1},
                      stepCount : Int]
      /\ driver'.status = "IDLE"
      /\ driver'.stepCount = driver.stepCount + driver.inc * OutCount(out)
  BY <1>1, <1>2 DEF StopMotor, CountTypes
<1>4. StepCountNow' = made' - uncounted'
  <2>1. StepCountNow = driver.stepCount + driver.inc * OutCount(out)
    BY DEF StepCountNow, StopMotor
  <2>2. StepCountNow' = driver'.stepCount
    BY <1>3 DEF StepCountNow
  <2> QED BY <1>3, <2>1, <2>2 DEF StopMotor
<1>5. CountTypes'
  BY <1>1, <1>3, DisturbedLook DEF StopMotor, CountTypes
<1>6. OutFollowsDriver'
  BY <1>1 DEF OutFollowsDriver, Steps
<1> QED BY <1>4, <1>5, <1>6, DisturbedLook DEF StopMotor

LEMMA SetFrequencyInv ==
  ASSUME CountInv, NEW on \in BOOLEAN, SetFrequency(on)
  PROVE  CountInv'
<1> USE DEF CountInv
<1>1. out.status = "STEPPING" => on
  BY DEF SetFrequency, OutFollowsDriver
<1>2. /\ out' \in OutState /\ Steps(out') /\ OutCount(out') = OutCount(out)
      /\ out'.status = "STEPPING" => out.status = "STEPPING"
  BY <1>1, FrequencyKeepsCount DEF SetFrequency, OutFollowsDriver, CountTypes
<1>3. StepCountNow' = made' - uncounted'
  BY <1>2 DEF StepCountNow, SetFrequency
<1>4. CountTypes'
  BY <1>2, DisturbedLook DEF SetFrequency, CountTypes
<1>5. OutFollowsDriver'
  BY <1>2 DEF OutFollowsDriver, SetFrequency
<1> QED BY <1>3, <1>4, <1>5, DisturbedLook DEF SetFrequency

LEMMA PulseInv ==
  ASSUME CountInv, Pulse
  PROVE  CountInv'
<1> USE DEF CountInv
<1>1. /\ out' = [out EXCEPT !.tim = @ + 1] /\ out' \in OutState
      /\ out.status = "STEPPING" /\ out'.status = "STEPPING"
      /\ out'.on = out.on /\ out'.stepCount = out.stepCount
      /\ OutCount(out) \in Int /\ OutCount(out') = OutCount(out) + 1
  BY DEF Pulse, CountTypes, OutState, OutCount
<1>2. driver.status = "STEPPING" /\ driver' = driver
  BY <1>1 DEF OutFollowsDriver, Pulse
<1>3. made' = made + driver.inc /\ uncounted' = uncounted /\ made' \in Int
  BY DEF Pulse, CountTypes
<1>4. StepCountNow' = made' - uncounted'
  <2>1. StepCountNow = driver.stepCount + driver.inc * OutCount(out)
    BY <1>2 DEF StepCountNow
  <2>2. StepCountNow' = driver.stepCount + driver.inc * (OutCount(out) + 1)
    BY <1>1, <1>2 DEF StepCountNow
  <2>3. driver.inc \in {-1, 1} /\ driver.stepCount \in Int
    BY DEF CountTypes
  <2>4. driver.inc * (OutCount(out) + 1) = driver.inc * OutCount(out) + driver.inc
    BY <1>1, <2>3
  <2>5. driver.inc * OutCount(out) \in Int
    BY <1>1, <2>3
  <2> QED BY <1>3, <2>1, <2>2, <2>3, <2>4, <2>5 DEF CountTypes
<1>5. /\ look' = [look EXCEPT !.been = @ \cup {made' - uncounted}]
      /\ look' \in LookState
  BY <1>3 DEF Pulse, CountTypes, LookState
<1>6. CountTypes'
  BY <1>1, <1>2, <1>3, <1>5 DEF CountTypes, Pulse
<1>7. OutFollowsDriver'
  BY <1>1, <1>2 DEF OutFollowsDriver, Steps
<1>8. LookInv'
  BY <1>1, <1>2, <1>3, <1>5 DEF LookInv, CountTypes, LookState
<1> QED BY <1>4, <1>6, <1>7, <1>8

LEMMA LookAtKeeps ==
  ASSUME look \in LookState, NEW p \in LookPoints, NEW n \in Int, LookAt(p, n)
  PROVE  /\ look' \in LookState
         /\ look'.pc = p /\ look'.sum = n /\ look'.been = look.been
         /\ look'.disturbed => look.disturbed
         /\ look.disturbed => look'.disturbed
  BY DEF LookAt, LookState

\* Where a reading begins.
LEMMA NewLook ==
  ASSUME NEW n \in Int, NEW p \in LookPoints,
         look' = [NoLook EXCEPT !.been = {n}, !.pc = p]
  PROVE  look' \in LookState /\ look'.been = {n} /\ look'.pc = p
<1>1. look' = [pc |-> p, sum |-> 0, been |-> {n}, disturbed |-> FALSE]
  BY DEF NoLook
<1>2. NoLook \in LookState
  BY DEF NoLook, LookState, LookPoints
<1>3. ASSUME NEW l \in LookState
      PROVE  [l EXCEPT !.been = {n}, !.pc = p] \in LookState
  BY DEF LookState
<1>4. [NoLook EXCEPT !.been = {n}, !.pc = p] \in LookState
  BY <1>2, <1>3, Zenon
<1> QED BY <1>1, <1>4

LEMMA LookStepInv ==
  ASSUME CountInv, LookStatus \/ LookCount,
         UNCHANGED <<driver, out, made, uncounted, moves, pulses>>
  PROVE  CountInv'
<1> USE DEF CountInv
<1> DEFINE sofar == driver.stepCount + driver.inc * out.stepCount
<1>1. StepCountNow' = made' - uncounted' /\ OutFollowsDriver'
  BY DEF StepCountNow, OutCount, OutFollowsDriver, Steps
<1>2. /\ driver.stepCount \in Int
      /\ driver.inc * out.stepCount \in Int
      /\ driver.inc * out.tim \in Int
      /\ driver.inc * (out.stepCount + out.tim)
           = driver.inc * out.stepCount + driver.inc * out.tim
  BY IncTimes DEF CountTypes, OutState
<1>3. look \in LookState /\ look.sum \in Int
  BY DEF CountTypes, LookState
<1>4. ASSUME look' \in LookState PROVE CountTypes'
  BY <1>4 DEF CountTypes
<1>5. CASE LookStatus
  <2>1. made - uncounted \in Int
    BY DEF CountTypes
  <2>2. /\ look' \in LookState /\ look'.been = {made - uncounted}
        /\ look'.pc = IF driver.status = "IDLE" THEN "idle_count" ELSE "count"
    BY <1>5, <2>1, NewLook DEF LookStatus, LookPoints
  <2>3. LookInv'
    BY <2>2 DEF LookInv, CountTypes
  <2> QED BY <1>1, <1>4, <2>2, <2>3
<1>6. CASE look.pc = "idle_count" /\ LookCount
  <2>1. LookAt("done", driver.stepCount)
    BY <1>6 DEF LookCount
  <2>2. /\ look' \in LookState /\ look'.pc = "done"
        /\ look'.sum = driver.stepCount /\ look'.been = look.been
        /\ look.disturbed => look'.disturbed
    BY <1>2, <1>3, <2>1, LookAtKeeps DEF LookPoints
  <2>3. LookInv'
    BY <1>6, <2>2 DEF LookInv, StepCountNow
  <2> QED BY <1>1, <1>4, <2>2, <2>3
<1>7. CASE look.pc = "count" /\ LookCount
  <2>1. LookAt("out", driver.stepCount)
    BY <1>7 DEF LookCount
  <2>2. /\ look' \in LookState /\ look'.pc = "out"
        /\ look'.sum = driver.stepCount /\ look'.been = look.been
        /\ look.disturbed => look'.disturbed
    BY <1>2, <1>3, <2>1, LookAtKeeps DEF LookPoints
  <2>3. LookInv'
    BY <1>7, <2>2 DEF LookInv
  <2> QED BY <1>1, <1>4, <2>2, <2>3
<1>8. CASE look.pc = "out" /\ LookCount
  <2> DEFINE p == IF out.status = "IDLE" THEN "done" ELSE "timer"
             n == look.sum + driver.inc * out.stepCount
  <2>1. LookAt(p, n)
    BY <1>8 DEF LookCount
  <2>2. p \in LookPoints /\ n \in Int
    BY <1>2, <1>3 DEF LookPoints
  <2>3. /\ look' \in LookState /\ look'.pc = p
        /\ look'.sum = n /\ look'.been = look.been
        /\ look.disturbed => look'.disturbed
    BY <1>3, <2>1, <2>2, LookAtKeeps
  <2>4. ASSUME ~look.disturbed
        PROVE  /\ n = sofar /\ driver.status = "STEPPING"
               /\ made - uncounted \in look.been
    BY <1>8, <2>4 DEF LookInv
  <2>5. ASSUME ~look.disturbed, out.status = "IDLE" PROVE n \in look.been
    BY <2>4, <2>5 DEF StepCountNow, OutCount
  <2>6. out.status \in {"IDLE", "STEPPING"}
    BY DEF CountTypes, OutState
  <2>7. LookInv'
    BY <2>3, <2>4, <2>5, <2>6 DEF LookInv
  <2> QED BY <1>1, <1>4, <2>3, <2>7
<1>9. CASE look.pc = "timer" /\ LookCount
  <2> DEFINE n == look.sum + driver.inc * out.tim
  <2>1. LookAt("done", n) /\ n \in Int
    BY <1>2, <1>3, <1>9 DEF LookCount
  <2>2. /\ look' \in LookState /\ look'.pc = "done"
        /\ look'.sum = n /\ look'.been = look.been
        /\ look.disturbed => look'.disturbed
    BY <1>3, <2>1, LookAtKeeps DEF LookPoints
  <2>3. ASSUME ~look.disturbed 
        PROVE  n \in look.been /\ made - uncounted \in look.been
    <3>1. /\ out.status = "STEPPING" /\ driver.status = "STEPPING"
          /\ look.sum = sofar /\ made - uncounted \in look.been
      BY <1>9, <2>3 DEF LookInv
    <3>2. StepCountNow
            = driver.stepCount + driver.inc * (out.stepCount + out.tim)
      BY <3>1 DEF StepCountNow, OutCount
    <3>3. n = StepCountNow
      BY <1>2, <3>1, <3>2
    <3> QED BY <3>1, <3>3
  <2>4. LookInv'
    BY <2>2, <2>3 DEF LookInv
  <2> QED BY <1>1, <1>4, <2>2, <2>4
<1>10. CASE look.pc \in {"idle", "done"} /\ LookCount
  <2>1. look' = NoLook
    BY <1>10 DEF LookCount
  <2>2. look' \in LookState /\ look'.pc = "idle"
    BY <2>1 DEF NoLook, LookState, LookPoints
  <2>3. LookInv'
    BY <2>2 DEF LookInv
  <2> QED BY <1>1, <1>4, <2>2, <2>3
<1> QED
  BY <1>3, <1>5, <1>6, <1>7, <1>8, <1>9, <1>10 DEF LookState, LookPoints

LEMMA CountInvNext == CountInv /\ [CountNext]_countVars => CountInv'
<1> SUFFICES ASSUME CountInv, [CountNext]_countVars PROVE CountInv'
  OBVIOUS
<1>1. CASE UNCHANGED countVars
  BY <1>1 DEF countVars, CountInv, CountTypes, OutFollowsDriver, Steps,
              StepCountNow, OutCount, LookInv
<1>2. CASE CountNext
  BY <1>2, StartInv, StopMotorInv, SetFrequencyInv, PulseInv, LookStepInv
     DEF CountNext
<1> QED BY <1>1, <1>2

(***************************************************************************)
(* Theorems                                                                *)
(***************************************************************************)
\* Types of the counters, and StepOut steps only while the driver does.
THEOREM CountTypesHold == CountSpec => []CountTypeOK
<1>1. CountInv => CountTypeOK
  BY DEF CountInv, CountTypes, OutFollowsDriver, Steps, OutState, CountTypeOK
<1> QED BY <1>1, CountInvInit, CountInvNext, PTL DEF CountSpec

\* The position that the driver reports is that of the motor, however many
\* starts, stops, reversals and changes of frequency there were, and a
\* reading that nothing came into is a position of the motor meanwhile
\* (getStepCount, AMIS30543StepperDriver.cpp:105-118).
THEOREM StepsAreCounted == CountSpec => []StepsCounted
<1>1. CountInv => StepsCounted
  BY DEF CountInv, LookInv, StepsCounted
<1> QED BY <1>1, CountInvInit, CountInvNext, PTL DEF CountSpec

-----------------------------------------------------------------------------
(***************************************************************************)
(* All the parts: what one does is a stutter of the others.                *)
(***************************************************************************)
LEMMA PartsStep ==
  ASSUME [DevicesNext]_<<unit, Parts>>
  PROVE  /\ [SerialNext]_serialVars /\ [LcdNext]_lcdVars
         /\ [CountNext]_countVars /\ [AlignNext]_alignVars
         /\ [ConfigNext]_configVars /\ [PointNext]_pointVars
<1>1. CASE UNCHANGED <<unit, Parts>>
  BY <1>1 DEF Parts
<1>2. CASE DevicesNext
  <2> DEFINE all ==
        {"serial", "lcd", "count", "alignment", "config", "pointing"}
  <2>1. /\ \/ unit = "serial" /\ SerialNext
           \/ unit = "lcd" /\ LcdNext
           \/ unit = "count" /\ CountNext
           \/ unit = "alignment" /\ AlignNext
           \/ unit = "config" /\ ConfigNext
           \/ unit = "pointing" /\ PointNext
        /\ Unchanged(all \ {unit})
    BY <1>2 DEF DevicesNext
  <2>2. /\ unit # "serial"    => UNCHANGED serialVars
        /\ unit # "lcd"       => UNCHANGED lcdVars
        /\ unit # "count"     => UNCHANGED countVars
        /\ unit # "alignment" => UNCHANGED alignVars
        /\ unit # "config"    => UNCHANGED configVars
        /\ unit # "pointing"  => UNCHANGED pointVars
    BY <2>1 DEF Unchanged
  <2> QED BY <2>1, <2>2
<1> QED BY <1>1, <1>2

\* Each part behaves as it does alone.
THEOREM PartsAreAlone ==
  DevicesSpec => /\ SerialSpec /\ LcdSpec /\ CountSpec /\ AlignSpec
                 /\ ConfigSpec /\ PointSpec
<1>1. DevicesInit => /\ SerialInit /\ LcdInit /\ CountInit /\ AlignInit
                     /\ ConfigInit /\ PointInit
  BY DEF DevicesInit
<1>2. [DevicesNext]_<<unit, Parts>> =>
        /\ [SerialNext]_serialVars /\ [LcdNext]_lcdVars
        /\ [CountNext]_countVars /\ [AlignNext]_alignVars
        /\ [ConfigNext]_configVars /\ [PointNext]_pointVars
  BY PartsStep
<1> QED
  BY <1>1, <1>2, PTL DEF DevicesSpec, SerialSpec, LcdSpec, CountSpec,
     AlignSpec, ConfigSpec, PointSpec

\* Every part keeps its types, for all values of the constants.
THEOREM DevicesTyped ==
  ASSUME MaxConfig = 1
  PROVE  DevicesSpec => []DevicesTypeOK
<1>1. SerialTypeOK /\ LcdTypeOK /\ CountTypeOK /\ AlignTypeOK /\ ConfigTypeOK
        => DevicesTypeOK
  BY DEF DevicesTypeOK
<1>2. SerialSpec => []SerialTypeOK
  BY SerialTyped
<1> QED BY <1>1, <1>2, PartsAreAlone, LcdTyped, CountTypesHold, ListTyped,
           ItemsTyped, PTL
=============================================================================

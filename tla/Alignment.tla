----------------------------- MODULE Alignment -----------------------------
(***************************************************************************)
(* The alignment stars of the mount and the calibration that fits them:    *)
(* EquatorialMount.h:101-160, recalibrate in EquatorialMount.cpp and the   *)
(* part of CelestialMath::align that decides.  `align` runs in the readers *)
(* of both servers, of one priority and without a lock, so they interleave *)
(* at every access to the list and to the calibration.                     *)
(*                                                                         *)
(* A calibration is the list it was fitted to.  That the fit diverges is a *)
(* choice, with one star it cannot.  The fit of three and more stars works *)
(* in static arrays, which two fits at a time share: not modelled, the fit *)
(* is one step.                                                            *)
(***************************************************************************)
EXTENDS Integers, Sequences, SequencesExt

CONSTANTS
  Aligners,    \* readers that run align
  Stars,
  MaxStars,    \* MAX_AS_N
  MaxAligns    \* bound on the commands

ASSUME StarAssumption == MaxStars \in Nat \ {0} /\ MaxAligns \in Nat

VARIABLES
  alignment_stars,      \* the list; stars behind the last are not looked at
  calibration,          \* the list it was fitted to
  al,                   \* what each reader is doing
  aligns                \* commands so far

alignVars == <<alignment_stars, calibration, al, aligns>>

\* pc, the star, its index, the fit and what it returns; the calibration when
\* the command began and whether another came in between.
NoAlign ==
  [pc |-> "idle", op |-> "none", star |-> CHOOSE s \in Stars : TRUE, index |-> 0,
   fit |-> <<>>, diverge |-> FALSE, ret |-> "osOK", before |-> <<>>,
   alone |-> TRUE]

num_alignment_stars == Len(alignment_stars)

\* t goes on to pc; whoever else is at work is not alone.
Turn(t, entry) ==
  al' = [u \in Aligners |->
           IF u = t THEN [entry EXCEPT !.alone =
                            @ /\ \A v \in Aligners \ {t} : al[v].pc = "idle"]
           ELSE IF al[u].pc = "idle" THEN al[u] ELSE [al[u] EXCEPT !.alone = FALSE]]

Step(t, pc) == Turn(t, [al[t] EXCEPT !.pc = pc])

Ends(t, ret) == Turn(t, [al[t] EXCEPT !.pc = "done", !.ret = ret])

AlignCommand(t) ==
  /\ al[t].pc = "idle" /\ aligns < MaxAligns
  /\ aligns' = aligns + 1
  /\ \E op \in {"add", "replace", "delete", "clear"}, s \in Stars, i \in 1..MaxStars :
       /\ op \in {"delete", "clear"} => s = NoAlign.star
       /\ op \in {"add", "clear"} => i = 1
       /\ Turn(t, [NoAlign EXCEPT !.pc = op, !.op = op, !.star = s, !.index = i,
                                  !.before = calibration])
  /\ UNCHANGED <<alignment_stars, calibration>>

\* addAlignmentStar: room is looked for first.
AddCheck(t) ==
  /\ al[t].pc = "add"
  /\ IF num_alignment_stars < MaxStars THEN Step(t, "store")
     ELSE Ends(t, "osErrorResource")
  /\ UNCHANGED <<alignment_stars, calibration, aligns>>

AddStore(t) ==
  /\ al[t].pc = "store" /\ num_alignment_stars < MaxStars
  /\ alignment_stars' = Append(alignment_stars, al[t].star)
  /\ Step(t, "recalibrate")
  /\ UNCHANGED <<calibration, aligns>>

\* Two readers have found room for one: what is written over is not modelled.
AddOverrun(t) ==
  /\ al[t].pc = "store" /\ num_alignment_stars = MaxStars
  /\ Step(t, "overrun")
  /\ UNCHANGED <<alignment_stars, calibration, aligns>>

\* replaceAlignmentStar.
Replace(t) ==
  /\ al[t].pc = "replace"
  /\ \/ /\ al[t].index \in 1..num_alignment_stars
        /\ alignment_stars' = [alignment_stars EXCEPT ![al[t].index] = al[t].star]
        /\ Step(t, "recalibrate")
     \/ /\ al[t].index \notin 1..num_alignment_stars
        /\ Ends(t, "osErrorParameter")
        /\ UNCHANGED alignment_stars
  /\ UNCHANGED <<calibration, aligns>>

\* The last star is not removed, the calibration is cleared instead.
Delete(t) ==
  /\ al[t].pc = "delete"
  /\ IF al[t].index > num_alignment_stars THEN Ends(t, "ERR_PARAM_OUT_OF_RANGE")
     ELSE Step(t, IF num_alignment_stars > 1 THEN "remove" ELSE "clear")
  /\ UNCHANGED <<alignment_stars, calibration, aligns>>

\* removeAlignmentStar: those behind it move up.
RemoveStar(t) ==
  /\ al[t].pc = "remove"
  /\ \/ /\ al[t].index \in 1..num_alignment_stars
        /\ alignment_stars' = RemoveAt(alignment_stars, al[t].index)
        /\ Step(t, "recalibrate")
     \/ /\ al[t].index \notin 1..num_alignment_stars
        /\ Ends(t, "osErrorParameter")
        /\ UNCHANGED alignment_stars
  /\ UNCHANGED <<calibration, aligns>>

\* clearCalibration.
Clear(t) ==
  /\ al[t].pc = "clear"
  /\ alignment_stars' = <<>>
  /\ Step(t, "reset")
  /\ UNCHANGED <<calibration, aligns>>

ClearReset(t) ==
  /\ al[t].pc = "reset"
  /\ calibration' = <<>>
  /\ Ends(t, "osOK")
  /\ UNCHANGED <<alignment_stars, aligns>>

\* recalibrate: nothing to do without stars.
Fit(t) ==
  /\ al[t].pc = "recalibrate"
  /\ IF alignment_stars = <<>> THEN Ends(t, "osOK")
     ELSE \E d \in (IF num_alignment_stars = 1 THEN {FALSE} ELSE BOOLEAN) :
            Turn(t, [al[t] EXCEPT !.pc = "assign", !.fit = alignment_stars,
                                  !.diverge = d])
  /\ UNCHANGED <<alignment_stars, calibration, aligns>>

\* Fault: the calibration is used before the fit is looked at.
AssignUnchecked(t) ==
  /\ al[t].pc = "assign"
  /\ calibration' = al[t].fit
  /\ Ends(t, IF al[t].diverge THEN "osErrorParameter" ELSE "osOK")
  /\ UNCHANGED <<alignment_stars, aligns>>

Assign(t) ==
  /\ al[t].pc = "assign"
  /\ \/ /\ al[t].diverge
        /\ Ends(t, "osErrorParameter") /\ UNCHANGED calibration
     \/ /\ ~al[t].diverge
        /\ calibration' = al[t].fit /\ Ends(t, "osOK")
  /\ UNCHANGED <<alignment_stars, aligns>>

AlignAnswer(t) ==
  /\ al[t].pc = "done"
  /\ Turn(t, NoAlign)
  /\ UNCHANGED <<alignment_stars, calibration, aligns>>

AlignInit ==
  /\ alignment_stars = <<>> /\ calibration = <<>> /\ aligns = 0
  /\ al = [t \in Aligners |-> NoAlign]

AlignNext ==
  \E t \in Aligners :
    \/ AlignCommand(t) \/ AddCheck(t) \/ AddStore(t) \/ AddOverrun(t)
    \/ Replace(t) \/ Delete(t) \/ RemoveStar(t) \/ Clear(t) \/ ClearReset(t)
    \/ Fit(t) \/ Assign(t) \/ AlignAnswer(t)

AlignSpec == AlignInit /\ [][AlignNext]_alignVars

-----------------------------------------------------------------------------
AlignTypeOK ==
  /\ alignment_stars \in Seq(Stars) /\ Len(alignment_stars) <= MaxStars
  /\ calibration \in Seq(Stars) /\ Len(calibration) <= MaxStars

\* An align that no other came in between of, and that is answered with osOK,
\* leaves the calibration that fits the list; answered with an error, it
\* leaves the one there was, also when the list has been changed
\* (EquatorialMount.cpp:423-428).
AlignedAlone ==
  \A t \in Aligners :
    (al[t].pc = "done" /\ al[t].alone) =>
      calibration = IF al[t].ret = "osOK" THEN alignment_stars
                    ELSE al[t].before
=============================================================================

---------------------------- MODULE CallQuality ----------------------------
(***************************************************************************)
(* How one end cuts its outgoing video back on a poor link                 *)
(* (web/lib/callClient.ts, sampleQuality and applyTier).                   *)
(*                                                                         *)
(* A sample of the statistics is one of four kinds; "thin" is a link whose *)
(* only fault is too little bandwidth to send on, which counts only while  *)
(* video is sent.  A streak is counted up to the length that matters.  A   *)
(* sample that changes the tier waits for the sender's parameters before   *)
(* it says that video was paused, and the next sample does not wait for    *)
(* it; the sender sets its parameters in order.                            *)
(***************************************************************************)
EXTENDS Naturals, Sequences

CONSTANT MaxApplying  \* bound: changes of parameters under way

ASSUME QualityAssumption == MaxApplying \in Nat \ {0}

VARIABLES
    stats,     \* what the statistics show
    up,        \* the connection is up: samples are taken
    camera,    \* cameraOn
    tier,      \* 0 full, 1 reduced, 2 paused
    streak,    \* severeStreak, badStreak and goodStreak
    applying,  \* tiers whose parameters are being set
    paused,    \* videoPaused
    weak,      \* the "weak connection" banner
    calmFor    \* good samples since the last bad one or the last change of the
               \* tier (auxiliary)

qualityVars == <<stats, up, camera, tier, streak, applying, paused, weak, calmFor>>

Tier == 0 .. 2
Kinds == {"good", "weak", "severe", "thin"}

QualityTypeOK ==
    /\ stats \in Kinds
    /\ up \in BOOLEAN /\ camera \in BOOLEAN
    /\ tier \in Tier
    /\ streak \in [severe : 0 .. 2, bad : 0 .. 2, good : 0 .. 5]
    /\ applying \in Seq(Tier) /\ Len(applying) <= MaxApplying
    /\ paused \in BOOLEAN /\ weak \in BOOLEAN
    /\ calmFor \in 0 .. 5

QualityInit ==
    /\ stats = "good" /\ up = FALSE /\ camera = TRUE
    /\ tier = 0
    /\ streak = [severe |-> 0, bad |-> 0, good |-> 0]
    /\ applying = <<>>
    /\ paused = FALSE /\ weak = FALSE
    /\ calmFor = 0

-----------------------------------------------------------------------------
\* A streak is counted up to the length that is asked of it.
UpTo(n, max) == IF n < max THEN n + 1 ELSE max

sendingVideo == camera /\ tier < 2
Severe == stats = "severe" \/ (stats = "thin" /\ sendingVideo)
Weak == Severe \/ stats = "weak"

\* The streaks with the sample counted.
Counted ==
    [severe |-> IF Severe THEN UpTo(streak.severe, 2) ELSE 0,
     bad |-> IF Weak THEN UpTo(streak.bad, 2) ELSE 0,
     good |-> IF Weak THEN 0 ELSE UpTo(streak.good, 5)]

\* Mutation: full video is stepped up too.
NextTierNoFloor ==
    IF Counted.severe >= 2 THEN 2
    ELSE IF Counted.bad >= 2 /\ tier = 0 THEN 1
    ELSE IF Counted.good >= 5 THEN tier - 1
    ELSE tier

\* Mutation: a streak of five is not long enough.
NextTierLate ==
    IF Counted.severe >= 2 THEN 2
    ELSE IF Counted.bad >= 2 /\ tier = 0 THEN 1
    ELSE IF Counted.good > 5 /\ tier > 0 THEN tier - 1
    ELSE tier

NextTier ==
    IF Counted.severe >= 2 THEN 2
    ELSE IF Counted.bad >= 2 /\ tier = 0 THEN 1
    ELSE IF Counted.good >= 5 /\ tier > 0 THEN tier - 1
    ELSE tier

\* Mutation: the good streak is not reset when the tier changes.
KeptGood(next) == [Counted EXCEPT !.severe = IF next < 2 THEN 0 ELSE @]

\* The streaks that are kept when the tier changes.
Kept(next) ==
    [severe |-> IF next < 2 THEN 0 ELSE Counted.severe, bad |-> Counted.bad, good |-> 0]

\* sampleQuality, every QUALITY_INTERVAL_MS.
SampleQuality ==
    /\ up
    /\ calmFor' = IF Weak \/ NextTier # tier THEN 0 ELSE UpTo(calmFor, 5)
    /\ \/ /\ NextTier # tier /\ Len(applying) < MaxApplying
          /\ tier' = NextTier
          /\ streak' = Kept(NextTier)
          /\ applying' = Append(applying, NextTier)
          /\ UNCHANGED weak
       \/ /\ NextTier = tier
          /\ streak' = Counted
          /\ weak' = (Weak \/ tier > 0)
          /\ UNCHANGED <<tier, applying>>
    /\ UNCHANGED <<stats, up, camera, paused>>

\* applyTier is done: the page is told whether video is paused.  The banner
\* follows the sample, taken for weak if the tier it left is cut back.
TierApplied ==
    /\ applying # <<>>
    /\ applying' = Tail(applying)
    /\ paused' = (Head(applying) = 2)
    /\ \E sampled \in BOOLEAN : weak' = (sampled \/ tier > 0)
    /\ UNCHANGED <<stats, up, camera, tier, streak, calmFor>>

StatsChange ==
    /\ stats' \in Kinds \ {stats}
    /\ UNCHANGED <<up, camera, tier, streak, applying, paused, weak, calmFor>>

\* The media path drops and comes back; the camera is turned off and on.
PathChanges ==
    /\ up' = ~up
    /\ UNCHANGED <<stats, camera, tier, streak, applying, paused, weak, calmFor>>

CameraChanges ==
    /\ camera' = ~camera
    /\ UNCHANGED <<stats, up, tier, streak, applying, paused, weak, calmFor>>

QualityNext == SampleQuality \/ TierApplied \/ StatsChange \/ PathChanges \/ CameraChanges
QualitySpec == QualityInit /\ [][QualityNext]_qualityVars

\* The interval fires, and the sender answers.
QualityFairness == WF_qualityVars(SampleQuality) /\ WF_qualityVars(TierApplied)

-----------------------------------------------------------------------------
(* What must hold. *)

\* Video is given back one tier at a time, and only when the link was good for
\* five samples in a row since the last change: it does not flap.
StepUpSlowly == [][tier' < tier => tier' = tier - 1 /\ calmFor >= 4]_qualityVars

\* On a link that stays up and good, full video comes back.
VideoRecovers == <>[](stats = "good" /\ up) => <>[](tier = 0 /\ ~paused /\ ~weak)
=============================================================================
